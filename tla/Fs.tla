----------------------------------- MODULE Fs -----------------------------------
(***************************************************************************)
(* The file system of xv6: blocks, inodes, directories and paths            *)
(* (kernel/fs.c) under the system calls of kernel/sysfile.c, from the image *)
(* that mkfs/mkfs.c makes.                                                  *)
(*                                                                          *)
(* The calls are made by processes that run scripts; module FsTests has the *)
(* scripts, from user/usertests.c.  A step reaches from one point where     *)
(* another process can come in between to the next: an inode's sleep lock,  *)
(* or itable.lock in iget() and iput().  What is written inside begin_op()  *)
(* and end_op() reaches the disk all at once (module Log), so the disk is   *)
(* looked at when no call is under way.                                     *)
(*                                                                          *)
(* A file or a directory is a sequence of units: a directory entry or a     *)
(* piece of data.  UPB units make a block.                                  *)
(***************************************************************************)
EXTENDS Integers, Sequences, FiniteSets, FiniteSetsExt

CONSTANTS Procs,
          NINODE,        \* slots of the inode table
          NInodes,       \* inodes on the disk (sb.ninodes - 1)
          NBlocks,       \* data blocks on the disk
          UPB, NDIRECT, NINDIRECT,
          MaxWrite,      \* units filewrite() writes in one transaction
          Regs,          \* the variables a process keeps descriptors in
          NFILE,         \* open files
          MkfsFiles,     \* the names of the files mkfs puts on the image
          SysCalls,      \* the calls that scripts are made of
          Scripts,       \* what process 1 may do
          Long           \* the names longer than DIRSIZ, and what is left of them

Root == 1
Inums == 1 .. NInodes
Blocks == 1 .. NBlocks
Slots == 1 .. NINODE
None == 0
MaxUnits == (NDIRECT + NINDIRECT) * UPB

ASSUME FsAssumption ==
  /\ 1 \in Procs /\ None \notin Procs /\ IsFiniteSet(Regs) /\ Regs \subseteq Nat
  /\ NINODE \in Nat \ {0} /\ NInodes \in Nat \ {0} /\ NBlocks \in Nat
  /\ UPB \in Nat \ {0} /\ NDIRECT \in Nat \ {0} /\ NINDIRECT \in Nat /\ MaxWrite \in Nat \ {0}
  /\ NFILE \in Nat /\ Len(MkfsFiles) \in 0 .. (NInodes - 1)

(* A script is a sequence of calls; so are what a child of fork() does and  *)
(* what a program of the kind of AnyCall repeats.                           *)
ASSUME ScriptsAssumption ==
  /\ Scripts \subseteq Seq(SysCalls)
  /\ \A k \in SysCalls :
       /\ k.n \in Nat /\ k.child \in Seq(SysCalls) /\ \A t \in k.calls : t \in Seq(SysCalls)
       /\ k.op = "any" /\ k.n > 1 => [k EXCEPT !.n = @ - 1] \in SysCalls

(* When the entries fill their last block, mkfs rounds the size of the root *)
(* directory up past its blocks; such an image is not looked at.            *)
ASSUME MkfsAssumption == (2 + Len(MkfsFiles)) % UPB # 0

VARIABLES fs,      \* the disk, through the buffer cache, and the inode table
          file,    \* file[p][k]: the open file in variable k of p: number or None
          ofile,   \* ofile[f]: open file f
          cwd,     \* cwd[p]: slot of the current directory
          pc, c,   \* c[p]: the arguments and variables of p's call
          todo,    \* todo[p]: slots p has still to iput()
          cont,    \* cont[p]: where p goes on then
          script,  \* script[p]: the calls p has still to make
          failed,  \* ghost: a call did not return what its script expects
          lost     \* ghost: inodes that nobody will free (see DiskConsistent)

vars == <<fs, file, ofile, cwd, pc, c, todo, cont, script, failed, lost>>

Zero == [name |-> "", inum |-> 0]
NoAddrs == [n \in 0 .. NDIRECT |-> 0]
FreeInode == [type |-> "FREE", nlink |-> 0, size |-> 0, addrs |-> NoAddrs]
SlotOf(d, i, r, v) == [type |-> d.type, nlink |-> d.nlink, size |-> d.size, addrs |-> d.addrs,
                       inum |-> i, ref |-> r, valid |-> v, lock |-> None]
NoSlot == SlotOf(FreeInode, 0, 0, FALSE)

-----------------------------------------------------------------------------
(* fs.c, as functions from one state of the file system to the next.        *)

(* balloc() and bzero(): the first free block, or 0.                        *)
FreeBlocks(v) == {b \in Blocks : ~v.used[b]}

Balloc(v) ==
  IF FreeBlocks(v) = {} THEN [fs |-> v, b |-> 0]
  ELSE LET b == Min(FreeBlocks(v)) IN
       [fs |-> [v EXCEPT !.used[b] = TRUE, !.blk[b] = [u \in 0 .. (UPB - 1) |-> Zero],
                         !.ind[b] = [n \in 0 .. (NINDIRECT - 1) |-> 0]],
        b |-> b]

(* bfree(), for the blocks of S.                                            *)
Bfree(v, S) ==
  [v EXCEPT !.used = [b \in Blocks |-> @[b] /\ b \notin S],
            !.panic = @ \/ \E b \in S : ~v.used[b]]

(* iupdate()                                                                *)
Iupdate(v, s) ==
  LET n == v.itab[s] IN
  [v EXCEPT !.dinode[n.inum] = [type |-> n.type, nlink |-> n.nlink, size |-> n.size, addrs |-> n.addrs]]

(* bmap(): the block of unit off, allocated when there is none.             *)
Bmap(v, s, off) ==
  LET bn == off \div UPB
      a == v.itab[s].addrs
  IN
  IF bn < NDIRECT
  THEN IF a[bn] # 0 THEN [fs |-> v, b |-> a[bn]]
       ELSE LET r == Balloc(v) IN [r EXCEPT !.fs.itab[s].addrs[bn] = r.b]
  ELSE LET r == IF a[NDIRECT] # 0 THEN [fs |-> v, b |-> a[NDIRECT]]
                ELSE LET q == Balloc(v) IN [q EXCEPT !.fs.itab[s].addrs[NDIRECT] = q.b]
           old == r.fs.ind[r.b][bn - NDIRECT]
       IN  IF r.b = 0 \/ old # 0 THEN [r EXCEPT !.b = IF r.b = 0 THEN 0 ELSE old]
           ELSE LET q == Balloc(r.fs) IN [q EXCEPT !.fs.ind[r.b][bn - NDIRECT] = q.b]

(* writei() of one unit: [fs, n], n the units written, -1 for an error.     *)
Writei(v, s, off, u) ==
  IF off > v.itab[s].size \/ off + 1 > MaxUnits THEN [fs |-> v, n |-> -1]
  ELSE LET r == Bmap(v, s, off) IN
       IF r.b = 0 THEN [fs |-> Iupdate(r.fs, s), n |-> 0]
       ELSE [fs |-> Iupdate([r.fs EXCEPT !.blk[r.b][off % UPB] = u,
                                         !.itab[s].size = Max({@, off + 1})], s),
             n |-> 1]

(* The block of unit off of an inode, and the unit.                         *)
BlockOf(v, n, off) ==
  LET bn == off \div UPB
  IN  IF bn < NDIRECT THEN n.addrs[bn] ELSE v.ind[n.addrs[NDIRECT]][bn - NDIRECT]
UnitAt(v, n, off) == v.blk[BlockOf(v, n, off)][off % UPB]

(* The blocks of an inode.                                                  *)
BlocksOf(v, n) ==
  ({n.addrs[k] : k \in 0 .. NDIRECT}
   \cup (IF n.addrs[NDIRECT] = 0 THEN {}
         ELSE {v.ind[n.addrs[NDIRECT]][k] : k \in 0 .. (NINDIRECT - 1)})) \ {0}

(* itrunc()                                                                 *)
Itrunc(v, s) ==
  LET w == Bfree(v, BlocksOf(v, v.itab[s]))
  IN  Iupdate([w EXCEPT !.itab[s].addrs = NoAddrs, !.itab[s].size = 0], s)

(* iget(): the slot of inode i, a new one, or a panic.                      *)
Iget(v, i) ==
  LET have == {s \in Slots : v.itab[s].ref > 0 /\ v.itab[s].inum = i}
      empty == {s \in Slots : v.itab[s].ref = 0}
  IN
  IF have # {} THEN LET s == Min(have) IN [fs |-> [v EXCEPT !.itab[s].ref = @ + 1], s |-> s]
  ELSE IF empty = {} THEN [fs |-> [v EXCEPT !.panic = TRUE], s |-> Min(Slots)]
  ELSE LET s == Min(empty)
       IN  [fs |-> [v EXCEPT !.itab[s] = [@ EXCEPT !.inum = i, !.ref = 1, !.valid = FALSE]], s |-> s]

(* Mutant: a pointer is copied and the copy is not counted.                 *)
IdupUncounted(v, s) == v

Idup(v, s) == [v EXCEPT !.itab[s].ref = @ + 1]

(* ilock() once the lock is free, by p: the inode is read from the disk.    *)
Ilock(v, s, p) ==
  LET d == v.dinode[v.itab[s].inum] IN
  [v EXCEPT !.itab[s] = IF @.valid THEN [@ EXCEPT !.lock = p]
                        ELSE [@ EXCEPT !.lock = p, !.valid = TRUE, !.type = d.type, !.nlink = d.nlink,
                                       !.size = d.size, !.addrs = d.addrs],
            !.panic = @ \/ v.itab[s].ref < 1 \/ (~v.itab[s].valid /\ d.type = "FREE")]

Iunlock(v, s) == [v EXCEPT !.itab[s].lock = None]
Unlocked(s) == fs.itab[s].lock = None

SetNlink(v, s, d) == Iupdate([v EXCEPT !.itab[s].nlink = @ + d], s)

(* namecmp() and skipelem(): DIRSIZ characters count.                       *)
Short(name) == IF name \in DOMAIN Long THEN Long[name] ELSE name

(* dirlookup(): the offsets of the entry.                                   *)
Entries(v, n, name) ==
  {o \in 0 .. (n.size - 1) : UnitAt(v, n, o).inum # 0 /\ UnitAt(v, n, o).name = Short(name)}
Lookup(v, s, name) == Entries(v, v.itab[s], name)

(* dirlink() of a name that is not there: into the first free entry.        *)
Dirlink(v, s, name, i) ==
  LET n == v.itab[s]
      free == {o \in 0 .. (n.size - 1) : UnitAt(v, n, o).inum = 0}
  IN  Writei(v, s, IF free = {} THEN n.size ELSE Min(free), [name |-> Short(name), inum |-> i])

(* Mutant: an entry right after ".." does not count.                        *)
IsDirEmptyShort(v, s) == \A o \in 3 .. (v.itab[s].size - 1) : UnitAt(v, v.itab[s], o).inum = 0

IsDirEmpty(v, s) == \A o \in 2 .. (v.itab[s].size - 1) : UnitAt(v, v.itab[s], o).inum = 0

-----------------------------------------------------------------------------
(* mkfs.c: ialloc() and iappend() of one unit, on the image.                *)
MkfsIalloc(v, i, type) == [v EXCEPT !.dinode[i] = [FreeInode EXCEPT !.type = type, !.nlink = 1]]

Iappend(v, i, name, j) ==
  LET w == [v EXCEPT !.itab[1] = SlotOf(v.dinode[i], i, 1, TRUE)]
  IN  [Writei(w, 1, v.dinode[i].size, [name |-> name, inum |-> j]).fs EXCEPT !.itab[1] = NoSlot]

(* A root directory and the files of MkfsFiles, of one unit each; then the  *)
(* size of the root directory is rounded up to blocks.                      *)
EmptyImage ==
  [dinode |-> [i \in Inums |-> FreeInode], used |-> [b \in Blocks |-> FALSE],
   blk |-> [b \in Blocks |-> [u \in 0 .. (UPB - 1) |-> Zero]],
   ind |-> [b \in Blocks |-> [n \in 0 .. (NINDIRECT - 1) |-> 0]],
   itab |-> [s \in Slots |-> NoSlot], panic |-> FALSE]

MkfsImage ==
  LET root == Iappend(Iappend(MkfsIalloc(EmptyImage, Root, "DIR"), Root, ".", Root), Root, "..", Root)
      add[k \in 0 .. Len(MkfsFiles)] ==
        IF k = 0 THEN root
        ELSE Iappend(Iappend(MkfsIalloc(add[k - 1], k + 1, "FILE"), Root, MkfsFiles[k], k + 1),
                     k + 1, "data", 1)
  IN  [add[Len(MkfsFiles)] EXCEPT !.dinode[Root].size = ((@ \div UPB) + 1) * UPB]

-----------------------------------------------------------------------------
(* How a step ends: at label l, with slots to iput() before that, or with   *)
(* the call, which returns r.                                               *)
Go(p, l) == pc' = [pc EXCEPT ![p] = l] /\ UNCHANGED <<todo, cont, script, failed>>

Puts(p, S, l) ==
  /\ todo' = [todo EXCEPT ![p] = S]
  /\ cont' = [cont EXCEPT ![p] = l]
  /\ pc' = [pc EXCEPT ![p] = "put"]
  /\ UNCHANGED <<script, failed>>

Return(p, r) ==
  /\ pc' = [pc EXCEPT ![p] = "user"]
  /\ script' = [script EXCEPT ![p] = Tail(@)]
  /\ failed' = (failed \/ r \notin Head(script[p]).want)
  /\ UNCHANGED <<todo, cont>>

userVars == <<file, ofile, cwd>>

(* Where p goes on from.  panic() does not return: what would happen after  *)
(* one is not looked at.                                                    *)
At(p, l) == ~fs.panic /\ pc[p] = l
Calls(p, ops) == At(p, "user") /\ script[p] # <<>> /\ Head(script[p]).op \in ops

(* iput(), up to the release of itable.lock.                                *)
LastPut(n) == n.ref = 1 /\ n.valid /\ n.nlink = 0

NextPut(p) ==
  /\ todo' = [todo EXCEPT ![p] = Tail(@)]
  /\ pc' = [pc EXCEPT ![p] = IF Len(todo[p]) = 1 THEN cont[p] ELSE "put"]
  /\ UNCHANGED <<cont, script, failed>>

Iput(p) ==
  LET s == Head(todo[p]) IN
  /\ At(p, "put")
  /\ IF LastPut(fs.itab[s])
     THEN /\ fs' = [fs EXCEPT !.itab[s].lock = p, !.panic = @ \/ ~Unlocked(s)]
          /\ Go(p, "put_free")
     ELSE fs' = [fs EXCEPT !.itab[s].ref = @ - 1] /\ NextPut(p)
  /\ UNCHANGED <<userVars, c, lost>>

(* No links and no other references: the inode is freed on the disk, then   *)
(* in memory, and then the reference goes.                                  *)
IputFree(p) ==
  LET s == Head(todo[p]) IN
  /\ At(p, "put_free")
  /\ fs' = Iupdate([Itrunc(fs, s) EXCEPT !.itab[s].type = "FREE"], s)
  /\ Go(p, "put_unlock")
  /\ lost' = lost \ {fs.itab[s].inum}
  /\ UNCHANGED <<userVars, c>>

Invalid(v, s) == [v EXCEPT !.itab[s].valid = FALSE]

IputUnlock(p) ==
  LET s == Head(todo[p]) IN
  /\ At(p, "put_unlock")
  /\ fs' = Iunlock(Invalid(fs, s), s)
  /\ Go(p, "put_drop")
  /\ UNCHANGED <<userVars, c, lost>>

(* The slot may have got the same inode again, and that have lost its links *)
(* in between: then this is the last reference, and nobody frees it.        *)
IputDrop(p) ==
  LET n == fs.itab[Head(todo[p])] IN
  /\ At(p, "put_drop")
  /\ fs' = [fs EXCEPT !.itab[Head(todo[p])].ref = @ - 1]
  /\ lost' = IF LastPut(n) THEN lost \cup {n.inum} ELSE lost
  /\ NextPut(p)
  /\ UNCHANGED <<userVars, c>>

-----------------------------------------------------------------------------
(* namex(): the walk starts at the root or at the current directory and     *)
(* goes on at label l.                                                      *)
StartNamex(p, path, par, l) ==
  LET abs == path # <<>> /\ Head(path) = "/"
      g == IF abs THEN Iget(fs, Root) ELSE [fs |-> Idup(fs, cwd[p]), s |-> cwd[p]]
  IN
  /\ fs' = g.fs
  /\ c' = [c EXCEPT ![p] = [@ EXCEPT !.ip = g.s, !.dp = None, !.par = par, !.next = l,
                                     !.rest = IF abs THEN Tail(path) ELSE path]]
  /\ Go(p, "namex")
  /\ UNCHANGED <<userVars, lost>>

NamexEnd(p) ==
  /\ At(p, "namex") /\ c[p].rest = <<>>
  /\ IF c[p].par
     THEN Puts(p, <<c[p].ip>>, c[p].next) /\ c' = [c EXCEPT ![p].ip = None]
     ELSE Go(p, c[p].next) /\ UNCHANGED c
  /\ UNCHANGED <<fs, userVars, lost>>

(* Mutant: a directory stays locked while the next one is looked for.       *)
LetGoLate(v, s) == v
LetGo(v, s) == Iunlock(v, s)

(* One element of the path.                                                 *)
Namex(p) ==
  LET s == c[p].ip
      v == Ilock(fs, s, p)
      name == Head(c[p].rest)
      ents == Lookup(v, s, name)
      g == Iget(v, UnitAt(v, v.itab[s], Min(ents)).inum)
  IN
  /\ At(p, "namex") /\ c[p].rest # <<>> /\ Unlocked(s)
  /\ \/ /\ v.itab[s].type = "DIR" /\ c[p].par /\ Len(c[p].rest) = 1
        /\ fs' = Iunlock(v, s)
        /\ c' = [c EXCEPT ![p] = [@ EXCEPT !.dp = s, !.ip = None, !.name = name]]
        /\ Go(p, c[p].next)
     \/ /\ v.itab[s].type # "DIR" \/ (~(c[p].par /\ Len(c[p].rest) = 1) /\ ents = {})
        /\ fs' = Iunlock(v, s)
        /\ c' = [c EXCEPT ![p].ip = None]
        /\ Puts(p, <<s>>, c[p].next)
     \/ /\ v.itab[s].type = "DIR" /\ ~(c[p].par /\ Len(c[p].rest) = 1) /\ ents # {}
        /\ fs' = LetGo(g.fs, s)
        /\ c' = [c EXCEPT ![p] = [@ EXCEPT !.ip = g.s, !.rest = Tail(c[p].rest)]]
        /\ Puts(p, <<s>>, "namex")
  /\ UNCHANGED <<userVars, lost>>

(* A call with a path begins.                                               *)
Parental(k) == k.op \in {"mkdir", "mknod", "unlink"} \/ (k.op = "open" /\ "CREATE" \in k.mode)

SysPath(p) ==
  LET k == Head(script[p]) IN
  /\ Calls(p, {"open", "mkdir", "mknod", "unlink", "link", "chdir"})
  /\ StartNamex(p, k.path, Parental(k),
                IF k.op = "open" /\ "CREATE" \notin k.mode THEN "open"
                ELSE IF k.op \in {"open", "mkdir", "mknod"} THEN "create" ELSE k.op)

(* The path led nowhere.                                                    *)
NotFound(p) ==
  /\ \/ (\E l \in {"open", "link", "chdir"} : At(p, l)) /\ c[p].ip = None
     \/ (\E l \in {"create", "unlink"} : At(p, l)) /\ c[p].dp = None
  /\ Go(p, "fail")
  /\ UNCHANGED <<fs, userVars, c, lost>>

(* end_op() and the return.                                                 *)
EndOp(p) ==
  /\ At(p, "ok") \/ At(p, "fail")
  /\ Return(p, IF pc[p] = "ok" THEN 0 ELSE -1)
  /\ UNCHANGED <<fs, userVars, c, lost>>

-----------------------------------------------------------------------------
Call(p) == Head(script[p])

(* The end of sys_open(), with the inode in slot s locked in v.             *)
OpenEnd(p, v, s) ==
  LET free == {f \in DOMAIN ofile : ofile[f].ref = 0}
      t == "TRUNC" \in Call(p).mode /\ v.itab[s].type = "FILE"
  IN
  IF free = {}
  THEN fs' = Iunlock(v, s) /\ Puts(p, <<s>>, "fail") /\ UNCHANGED userVars
  ELSE /\ ofile' = [ofile EXCEPT ![Min(free)] = [ref |-> 1, ip |-> s, off |-> 0, w |-> "W" \in Call(p).mode]]
       /\ file' = [file EXCEPT ![p][Call(p).reg] = Min(free)]
       /\ fs' = Iunlock(IF t THEN Itrunc(v, s) ELSE v, s)
       /\ Return(p, 0)
       /\ UNCHANGED cwd

SysOpen(p) ==
  LET s == c[p].ip
      v == Ilock(fs, s, p)
  IN
  /\ At(p, "open") /\ s # None /\ Unlocked(s)
  /\ IF v.itab[s].type = "DIR" /\ Call(p).mode # {}
     THEN fs' = Iunlock(v, s) /\ Puts(p, <<s>>, "fail") /\ UNCHANGED userVars
     ELSE OpenEnd(p, v, s)
  /\ UNCHANGED <<c, lost>>

(* create(): the name is looked up, and an inode allocated when it is new.  *)
NewType(p) == CASE Call(p).op = "open" -> "FILE" [] Call(p).op = "mkdir" -> "DIR" [] OTHER -> "DEVICE"

Create(p) ==
  LET s == c[p].dp
      v == Ilock(fs, s, p)
      ents == Lookup(v, s, c[p].name)
      g == Iget(v, UnitAt(v, v.itab[s], Min(ents)).inum)
      free == {i \in Inums : v.dinode[i].type = "FREE"}
  IN
  /\ At(p, "create") /\ s # None /\ Unlocked(s)
  /\ IF ents # {}
     THEN fs' = Iunlock(g.fs, s) /\ c' = [c EXCEPT ![p].ip = g.s] /\ Puts(p, <<s>>, "exists")
     ELSE IF free = {}
     THEN fs' = Iunlock(v, s) /\ Puts(p, <<s>>, "fail") /\ UNCHANGED c
     ELSE /\ fs' = [v EXCEPT !.dinode[Min(free)] = [FreeInode EXCEPT !.type = NewType(p)]]
          /\ c' = [c EXCEPT ![p].inum = Min(free)]
          /\ Go(p, "ialloc")
  /\ UNCHANGED <<userVars, lost>>

Exists(p) ==
  LET s == c[p].ip
      v == Ilock(fs, s, p)
  IN
  /\ At(p, "exists") /\ Unlocked(s)
  /\ IF NewType(p) = "FILE" /\ v.itab[s].type \in {"FILE", "DEVICE"}
     THEN OpenEnd(p, v, s)
     ELSE fs' = Iunlock(v, s) /\ Puts(p, <<s>>, "fail") /\ UNCHANGED userVars
  /\ UNCHANGED <<c, lost>>

(* ialloc()'s iget().                                                       *)
IallocGet(p) ==
  LET g == Iget(fs, c[p].inum) IN
  /\ At(p, "ialloc")
  /\ fs' = g.fs /\ c' = [c EXCEPT ![p].ip = g.s]
  /\ Go(p, "fill")
  /\ UNCHANGED <<userVars, lost>>

(* Mutant: the new inode is not given back when its entry cannot be made.   *)
Kept(v, s) == v

Unlinked(v, s) == SetNlink(v, s, -1)

(* A directory without a name, in which a process still is.                 *)
Removed(d) == fs.itab[d].nlink = 0 \/ fs.itab[d].inum \in lost

(* The new inode, its "." and "..", and its entry in the directory.         *)
Fill(p) ==
  LET s == c[p].ip
      d == c[p].dp
      dir == NewType(p) = "DIR"
      v == SetNlink(Ilock(fs, s, p), s, 1)
      dot == IF dir THEN Dirlink(v, s, ".", c[p].inum) ELSE [fs |-> v, n |-> 1]
      dots == IF dir /\ dot.n = 1 THEN Dirlink(dot.fs, s, "..", fs.itab[d].inum) ELSE dot
      new == IF dots.n = 1 THEN Dirlink(dots.fs, d, c[p].name, c[p].inum) ELSE dots
  IN
  /\ At(p, "fill") /\ Unlocked(s)
  /\ IF new.n = 1
     THEN /\ fs' = Iunlock(IF dir THEN SetNlink(new.fs, d, 1) ELSE new.fs, d)
          /\ Puts(p, <<d>>, "made")
          /\ lost' = IF Removed(d) THEN lost \cup {c[p].inum} \cup (IF dir THEN {fs.itab[d].inum} ELSE {}) ELSE lost
     ELSE /\ fs' = Iunlock(Unlinked(new.fs, s), s)
          /\ Puts(p, <<s>>, "undo")
          /\ UNCHANGED lost
  /\ UNCHANGED <<userVars, c>>

Made(p) ==
  LET s == c[p].ip IN
  /\ At(p, "made")
  /\ IF Call(p).op = "open" THEN OpenEnd(p, fs, s)
     ELSE fs' = Iunlock(fs, s) /\ Puts(p, <<s>>, "ok") /\ UNCHANGED userVars
  /\ UNCHANGED <<c, lost>>

(* iunlockput(dp) after a failure.                                          *)
Undo(p) ==
  /\ At(p, "undo")
  /\ fs' = Iunlock(fs, c[p].dp)
  /\ Puts(p, <<c[p].dp>>, IF Call(p).op = "link" THEN "link_bad" ELSE "fail")
  /\ UNCHANGED <<userVars, c, lost>>

-----------------------------------------------------------------------------
(* sys_unlink(): the directory, then the inode, which stays locked.         *)
Unlink(p) ==
  LET s == c[p].dp
      v == Ilock(fs, s, p)
      ents == IF c[p].name \in {".", ".."} THEN {} ELSE Lookup(v, s, c[p].name)
      g == Iget(v, UnitAt(v, v.itab[s], Min(ents)).inum)
  IN
  /\ At(p, "unlink") /\ s # None /\ Unlocked(s)
  /\ IF ents = {}
     THEN fs' = Iunlock(v, s) /\ Puts(p, <<s>>, "fail") /\ UNCHANGED c
     ELSE /\ fs' = g.fs
          /\ c' = [c EXCEPT ![p] = [@ EXCEPT !.ip = g.s, !.off = Min(ents)]]
          /\ Go(p, "unlink_ip")
  /\ UNCHANGED <<userVars, lost>>

UnlinkIp(p) ==
  LET s == c[p].ip
      d == c[p].dp
      v == Ilock(fs, s, p)
      dir == v.itab[s].type = "DIR"
      w == Writei(v, d, c[p].off, Zero).fs
  IN
  /\ At(p, "unlink_ip") /\ Unlocked(s)
  /\ IF dir /\ ~IsDirEmpty(v, s)
     THEN fs' = Iunlock(v, s) /\ Puts(p, <<s>>, "undo")
     ELSE /\ fs' = [Iunlock(IF dir THEN SetNlink(w, d, -1) ELSE w, d) EXCEPT !.panic = @ \/ v.itab[s].nlink < 1]
          /\ Puts(p, <<d>>, "unlink_end")
  /\ UNCHANGED <<userVars, c, lost>>

UnlinkEnd(p) ==
  /\ At(p, "unlink_end")
  /\ fs' = Iunlock(SetNlink(fs, c[p].ip, -1), c[p].ip)
  /\ Puts(p, <<c[p].ip>>, "ok")
  /\ UNCHANGED <<userVars, c, lost>>

-----------------------------------------------------------------------------
(* sys_link(): the count goes up before the entry is made.                  *)
Link(p) ==
  LET s == c[p].ip
      v == Ilock(fs, s, p)
  IN
  /\ At(p, "link") /\ s # None /\ Unlocked(s)
  /\ IF v.itab[s].type = "DIR"
     THEN fs' = Iunlock(v, s) /\ Puts(p, <<s>>, "fail") /\ UNCHANGED c
     ELSE /\ fs' = Iunlock(SetNlink(v, s, 1), s)
          /\ c' = [c EXCEPT ![p].old = s]
          /\ Go(p, "link_new")
  /\ UNCHANGED <<userVars, lost>>

LinkNew(p) == At(p, "link_new") /\ StartNamex(p, Call(p).new, TRUE, "link_dp")

LinkDp(p) ==
  LET d == c[p].dp
      old == c[p].old
      v == Ilock(fs, d, p)
      ents == Lookup(v, d, c[p].name)
      g == Iget(v, UnitAt(v, v.itab[d], Min(ents)).inum)
      new == Dirlink(v, d, c[p].name, v.itab[old].inum)
  IN
  /\ At(p, "link_dp")
  /\ IF d = None THEN Go(p, "link_bad") /\ UNCHANGED <<fs, lost>>
     ELSE /\ Unlocked(d)
          /\ IF ents # {}
             THEN fs' = g.fs /\ Puts(p, <<g.s>>, "undo") /\ UNCHANGED lost
             ELSE IF new.n = 1
             THEN /\ fs' = Iunlock(new.fs, d) /\ Puts(p, <<d, old>>, "ok")
                  /\ lost' = IF Removed(d) THEN lost \cup {fs.itab[old].inum} ELSE lost
             ELSE fs' = Iunlock(new.fs, d) /\ Puts(p, <<d>>, "link_bad") /\ UNCHANGED lost
  /\ UNCHANGED <<userVars, c>>

LinkBad(p) ==
  LET s == c[p].old IN
  /\ At(p, "link_bad") /\ Unlocked(s)
  /\ fs' = Iunlock(Unlinked(Ilock(fs, s, p), s), s)
  /\ Puts(p, <<s>>, "fail")
  /\ UNCHANGED <<userVars, c, lost>>

-----------------------------------------------------------------------------
(* sys_chdir()                                                              *)
Chdir(p) ==
  LET s == c[p].ip
      v == Ilock(fs, s, p)
  IN
  /\ At(p, "chdir") /\ s # None /\ Unlocked(s)
  /\ fs' = Iunlock(v, s)
  /\ IF v.itab[s].type = "DIR" THEN Puts(p, <<cwd[p]>>, "chdir_end") ELSE Puts(p, <<s>>, "fail")
  /\ UNCHANGED <<userVars, c, lost>>

ChdirEnd(p) ==
  /\ At(p, "chdir_end")
  /\ cwd' = [cwd EXCEPT ![p] = c[p].ip]
  /\ Return(p, 0)
  /\ UNCHANGED <<fs, file, ofile, c, lost>>

(* argfd()                                                                  *)
Reg(p) == IF Call(p).reg \in Regs THEN file[p][Call(p).reg] ELSE None

(* fileread() and filewrite() of n units; MaxWrite of them a transaction.   *)

SysRead(p) ==
  LET f == Reg(p)
      s == ofile[f].ip
      v == Ilock(fs, s, p)
      k == Max({0, Min({Call(p).n, v.itab[s].size - ofile[f].off})})
  IN
  /\ Calls(p, {"read"})
  /\ IF f = None
     THEN Return(p, -1) /\ UNCHANGED <<fs, userVars>>
     ELSE /\ Unlocked(s)
          /\ fs' = Iunlock(v, s)
          /\ ofile' = [ofile EXCEPT ![f].off = @ + k]
          /\ Return(p, k)
          /\ UNCHANGED <<file, cwd>>
  /\ UNCHANGED <<c, lost>>

Writeis(v, s, off, k) ==
  LET w[j \in 0 .. k] ==
        IF j = 0 THEN [fs |-> v, n |-> 0]
        ELSE IF w[j - 1].n < j - 1 THEN w[j - 1]
        ELSE LET r == Writei(w[j - 1].fs, s, off + j - 1, [name |-> "data", inum |-> 1])
             IN  [fs |-> r.fs, n |-> IF r.n = 1 THEN j ELSE j - 1]
  IN  IF off > v.itab[s].size \/ off + k > MaxUnits THEN [fs |-> v, n |-> -1] ELSE w[k]

SysWrite(p) ==
  LET f == Reg(p)
      s == ofile[f].ip
      k == Min({Call(p).n - c[p].done, MaxWrite})
      r == Writeis(Ilock(fs, s, p), s, ofile[f].off, k)
      done == c[p].done + k
  IN
  /\ Calls(p, {"write"})
  /\ IF f = None \/ ~ofile[f].w
     THEN c' = [c EXCEPT ![p].done = 0] /\ Return(p, -1) /\ UNCHANGED <<fs, userVars>>
     ELSE /\ Unlocked(s)
          /\ fs' = Iunlock(r.fs, s)
          /\ ofile' = [ofile EXCEPT ![f].off = IF r.n > 0 THEN @ + r.n ELSE @]
          /\ IF r.n = k /\ done < Call(p).n
             THEN c' = [c EXCEPT ![p].done = done] /\ Go(p, "user")
             ELSE c' = [c EXCEPT ![p].done = 0] /\ Return(p, IF r.n = k THEN done ELSE -1)
          /\ UNCHANGED <<file, cwd>>
  /\ UNCHANGED lost

(* A buffer at a bad address: bmap() has run, copyin() fails.               *)
BadWrite(p) ==
  LET f == Reg(p)
      s == ofile[f].ip
      v == Ilock(fs, s, p)
      bad == ofile[f].off > v.itab[s].size \/ ofile[f].off + 1 > MaxUnits
  IN
  /\ Calls(p, {"badwrite"})
  /\ IF f = None \/ ~ofile[f].w THEN UNCHANGED fs
     ELSE /\ Unlocked(s)
          /\ fs' = Iunlock(IF bad THEN v ELSE Iupdate(Bmap(v, s, ofile[f].off).fs, s), s)
  /\ Return(p, -1)
  /\ UNCHANGED <<userVars, c, lost>>

-----------------------------------------------------------------------------
(* fileclose() of variable k: the last descriptor puts the inode.           *)
Fileclose(p, k) ==
  /\ file' = [file EXCEPT ![p][k] = None]
  /\ ofile' = [ofile EXCEPT ![file[p][k]].ref = @ - 1]
LastClose(f) == ofile[f].ref <= 1

SysClose(p) ==
  LET f == Reg(p) IN
  /\ Calls(p, {"close"})
  /\ IF f = None THEN Return(p, -1) /\ UNCHANGED <<file, ofile>>
     ELSE /\ Fileclose(p, Call(p).reg)
          /\ IF LastClose(f) THEN Puts(p, <<ofile[f].ip>>, "ok") ELSE Return(p, 0)
  /\ UNCHANGED <<fs, cwd, c, lost>>

(* fork(): the child shares the open files and the current directory.       *)
SysFork(p) ==
  \E q \in Procs :
    /\ Calls(p, {"fork"}) /\ At(q, "unborn")
    /\ pc' = [pc EXCEPT ![q] = "user"]
    /\ script' = [script EXCEPT ![p] = Tail(@), ![q] = Call(p).child]
    /\ file' = [file EXCEPT ![q] = file[p]]
    /\ ofile' = [f \in DOMAIN ofile |->
                   [ofile[f] EXCEPT !.ref = @ + Cardinality({k \in Regs : file[p][k] = f})]]
    /\ cwd' = [cwd EXCEPT ![q] = cwd[p]]
    /\ fs' = Idup(fs, cwd[p])
    /\ UNCHANGED <<c, todo, cont, failed, lost>>

(* exit(): the files, one after the other, then the current directory.      *)
SysExit(p) ==
  LET open == {k \in Regs : file[p][k] # None}
      f == file[p][Min(open)]
  IN
  /\ Calls(p, {"exit"})
  /\ IF open = {} THEN Puts(p, <<cwd[p]>>, "zombie") /\ UNCHANGED <<file, ofile>>
     ELSE /\ Fileclose(p, Min(open))
          /\ IF LastClose(f) THEN Puts(p, <<ofile[f].ip>>, "user") ELSE Go(p, "user")
  /\ UNCHANGED <<fs, cwd, c, lost>>

SysWait(p) ==
  \E q \in Procs \ {p} :
    /\ Calls(p, {"wait"}) /\ At(q, "zombie")
    /\ pc' = [pc EXCEPT ![q] = "unborn"]
    /\ script' = [script EXCEPT ![p] = Tail(@), ![q] = <<>>]
    /\ UNCHANGED <<fs, userVars, c, todo, cont, failed, lost>>

(* A program that does any of some sequences of calls, a number of times.   *)
AnyCall(p) ==
  /\ Calls(p, {"any"})
  /\ \E k \in Call(p).calls :
       script' = [script EXCEPT ![p] = k \o (IF Call(p).n > 1 THEN <<[Call(p) EXCEPT !.n = @ - 1]>> ELSE <<>>)
                                        \o Tail(@)]
  /\ UNCHANGED <<fs, userVars, pc, c, todo, cont, failed, lost>>

-----------------------------------------------------------------------------
NoLocals == [ip |-> None, dp |-> None, old |-> None, inum |-> 0, off |-> 0, name |-> "", rest |-> <<>>,
             par |-> FALSE, next |-> "", done |-> 0]

Init ==
  /\ fs = Iget(MkfsImage, Root).fs
  /\ file = [p \in Procs |-> [k \in Regs |-> None]]
  /\ ofile = [f \in 1 .. NFILE |-> [ref |-> 0, ip |-> None, off |-> 0, w |-> FALSE]]
  /\ cwd = [p \in Procs |-> 1]
  /\ pc = [p \in Procs |-> IF p = 1 THEN "user" ELSE "unborn"]
  /\ c = [p \in Procs |-> NoLocals]
  /\ todo = [p \in Procs |-> <<>>] /\ cont = [p \in Procs |-> ""]
  /\ \E t \in Scripts : script = [p \in Procs |-> IF p = 1 THEN t ELSE <<>>]
  /\ failed = FALSE /\ lost = {}

Step(p) ==
  \/ SysPath(p) \/ NamexEnd(p) \/ Namex(p) \/ NotFound(p) \/ EndOp(p)
  \/ Iput(p) \/ IputFree(p) \/ IputUnlock(p) \/ IputDrop(p)
  \/ SysOpen(p) \/ Create(p) \/ Exists(p) \/ IallocGet(p) \/ Fill(p) \/ Made(p) \/ Undo(p)
  \/ Unlink(p) \/ UnlinkIp(p) \/ UnlinkEnd(p)
  \/ Link(p) \/ LinkNew(p) \/ LinkDp(p) \/ LinkBad(p) \/ Chdir(p) \/ ChdirEnd(p)
  \/ SysRead(p) \/ SysWrite(p) \/ BadWrite(p) \/ SysClose(p)
  \/ SysFork(p) \/ SysExit(p) \/ SysWait(p) \/ AnyCall(p)

Next == \E p \in Procs : Step(p)

Spec == Init /\ [][Next]_vars

-----------------------------------------------------------------------------
(* The disk, when no call is under way: what a crash would leave.           *)
Quiet == \A p \in Procs : pc[p] \in {"user", "unborn", "zombie"}

Allocated == {i \in Inums : fs.dinode[i].type # "FREE"}
Dirs == {i \in Allocated : fs.dinode[i].type = "DIR"}
Units(i) == [o \in 0 .. (fs.dinode[i].size - 1) |-> UnitAt(fs, fs.dinode[i], o)]

(* The entries that count as links to inode i: every name, the ".." of      *)
(* every directory that still has a name, and one for the root.             *)
Links(i) ==
  LET proper == {e \in Dirs \X (0 .. MaxUnits) :
                   /\ e[2] \in DOMAIN Units(e[1])
                   /\ Units(e[1])[e[2]].inum = i /\ Units(e[1])[e[2]].name \notin {".", ".."}}
      up == {d \in Dirs \ ({Root} \cup lost) : fs.dinode[d].nlink > 0 /\ Units(d)[1].inum = i}
  IN  Cardinality(proper) + Cardinality(up) + (IF i = Root THEN 1 ELSE 0)

Referenced(i) == \E s \in Slots : fs.itab[s].ref > 0 /\ fs.itab[s].inum = i

(* Every allocated inode has as many links as it says, and one without      *)
(* links is in use: nothing stays allocated for ever.  A block is in use    *)
(* exactly when one inode, and no other, has it.  Two things are left out:  *)
(* files made in a directory that was removed under their maker, and the    *)
(* inode that two calls of iput() leave to each other (see NoOrphan).       *)
DiskConsistent ==
  Quiet =>
    /\ \A i \in Allocated \ lost : fs.dinode[i].nlink = Links(i) /\ (Links(i) = 0 => Referenced(i))
    /\ \A b \in Blocks : fs.used[b] <=> \E i \in Allocated : b \in BlocksOf(fs, fs.dinode[i])
    /\ \A i, j \in Allocated : i # j => BlocksOf(fs, fs.dinode[i]) \cap BlocksOf(fs, fs.dinode[j]) = {}

(* "If that was the last reference and the inode has no links to it, free   *)
(* the inode (and its content) on disk" (iput()): an inode without links    *)
(* that nobody refers to is free.                                           *)
NoOrphan == Quiet => \A i \in Allocated : fs.dinode[i].nlink = 0 => Referenced(i)

(* Every reference to a slot of the inode table is counted.                 *)
RefsCounted ==
  Quiet => \A s \in Slots :
    fs.itab[s].ref = Cardinality({p \in Procs : pc[p] = "user" /\ cwd[p] = s})
                     + Cardinality({f \in DOMAIN ofile : ofile[f].ref > 0 /\ ofile[f].ip = s})

(* What usertests expects of every call, whatever the other process does,   *)
(* and none of the kernel's panics: an inode that is used has a type, the   *)
(* table does not run out, a block is freed once, and the lock that iput()  *)
(* takes with a spin lock held is free, as its comment says.                *)
TestsPass == ~failed /\ ~fs.panic

(* The inode p waits for at its next step, and who has it.                  *)
Wants(p) ==
  CASE pc[p] \in {"open", "link", "chdir", "exists", "fill", "unlink_ip"} -> c[p].ip
    [] At(p, "namex") /\ c[p].rest # <<>> -> c[p].ip
    [] pc[p] \in {"create", "unlink", "link_dp"} -> c[p].dp
    [] At(p, "link_bad") -> c[p].old
    [] Calls(p, {"read", "write", "badwrite"}) -> IF Reg(p) = None THEN None ELSE ofile[Reg(p)].ip
    [] OTHER -> None
Holder(p) == IF Wants(p) = None THEN None ELSE fs.itab[Wants(p)].lock

(* No processes wait for each other's inode locks, or for their own: a path *)
(* is walked with one lock at a time, and where a call holds two the second *)
(* is an entry of the first.                                                *)
NoLockCycle == \A S \in SUBSET Procs \ {{}} : \E p \in S : Holder(p) \notin S
=============================================================================
