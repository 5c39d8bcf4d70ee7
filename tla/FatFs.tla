-------------------------------- MODULE FatFs --------------------------------
(***************************************************************************)
(* lab4: the FAT volume behind the FUSE mount, with the files of its root   *)
(* and of one more directory.  FUSE runs single threaded, so every handler  *)
(* of fat_fuse_ops.c is one action.  A handler is a composition of functions*)
(* of fat_file.c and fat_table.c on the volume, and they are operators here *)
(* that take a volume and return the volume they leave:                     *)
(*                                                                          *)
(*   fat       the file allocation table, kept the same on the image and in *)
(*             its private map (every write goes to both)                   *)
(*   data      the contents of the clusters, in units; a cluster has B      *)
(*   ents      the clusters as a directory reads them: DirCap entries       *)
(*   tree      the files in memory (the tree of HTree as a map); a fat_file *)
(*             has nentries and read (children_read) for a directory, and   *)
(*             up, FALSE once the node of its parent has been freed         *)
(*   errno     the C library's errno, which not every handler clears        *)
(*   alive     FALSE once the process has followed an invalid pointer       *)
(***************************************************************************)
EXTENDS Integers, FiniteSets, Sequences

CONSTANTS N,        \* data clusters, numbered from 2; cluster 2 is the root's
          B,        \* units per cluster
          DirCap,   \* directory entries per cluster
          Names,    \* files and directories, by path
          Dirs,     \* the paths that are directories, besides the root
          Parent,   \* the directory of each
          Log,      \* fs.log, the log of the accesses
          Vals,     \* units of data
          LogVal,   \* the unit an access adds to the log
          Image,    \* the entries of the root directory when it is mounted
          Links,    \* the links of the table when it is mounted
          Old,      \* the unit the image is full of
          Offs,     \* offsets of a call
          Lens,     \* lengths of a call
          MaxOps    \* calls made

Root == 2
TopDir == "/"
Clusters == Root .. (N + 1)
FREE == 0
EOC == -1
End == [end |-> TRUE]      \* a directory entry whose name is empty
Junk == [junk |-> TRUE]    \* data read as an entry: no valid name
NoFile == [none |-> TRUE]

Entries == [name : Names, start : Clusters, size : Nat, hidden : BOOLEAN]

(* The image is one another implementation left: links lead to used clusters*)
ASSUME ImageAssumption ==
  /\ N \in Nat \ {0} /\ B \in Nat \ {0} /\ DirCap \in Nat \ {0}
  /\ Log \in Names \ Dirs /\ {LogVal, Old} \subseteq Vals
  /\ TopDir \notin Names /\ Dirs \subseteq Names /\ Cardinality(Dirs) <= 1
  /\ Parent \in [Names -> Dirs \cup {TopDir}]
  /\ \A d \in Dirs \cup {Log} : Parent[d] = TopDir
  /\ Offs \subseteq Nat /\ Lens \subseteq Nat \ {0}
  /\ Image \in Seq(Entries) /\ Len(Image) < DirCap
  /\ Root \in DOMAIN Links /\ DOMAIN Links \subseteq Clusters
  /\ \A c \in DOMAIN Links : Links[c] \in (DOMAIN Links) \cup {EOC}

VARIABLES vol,   \* the volume
          call,  \* the last call: its kind, its file, what it asked and got
          ops    \* calls made

vars == <<vol, call, ops>>

NewFile(c) == [start |-> c, size |-> 0, pos |-> 0, hidden |-> FALSE,
               nentries |-> 0, read |-> FALSE, up |-> TRUE]

(* init_file_tree: only the root is known.                                  *)
Mount(fat, data, ents) ==
  [fat |-> fat, data |-> data, ents |-> ents, errno |-> "0", alive |-> TRUE,
   tree |-> [f \in Names \cup {TopDir} |-> IF f = TopDir THEN NewFile(Root) ELSE NoFile]]

NoCall == [op |-> "mount", file |-> Log, off |-> 0, len |-> 0, ret |-> 0]

(* The volume of the image, mounted: no file is known yet.                  *)
Mounted ==
  Mount([c \in Clusters |-> IF c \in DOMAIN Links THEN Links[c] ELSE FREE],
        [c \in Clusters |-> [i \in 0 .. (B - 1) |-> Old]],
        [c \in Clusters |-> [i \in 0 .. (DirCap - 1) |->
           IF c = Root /\ i < Len(Image) THEN Image[i + 1] ELSE End]])

-----------------------------------------------------------------------------
(* fat_table.c                                                              *)

(* Every value that is no cluster ends the chain.                           *)
GetNext(fat, c) == IF fat[c] \in Clusters THEN fat[c] ELSE EOC

(* The cluster k links after start.                                         *)
SeekCluster(fat, start, k) ==
  LET at[j \in 0 .. k] ==
        IF j = 0 THEN start ELSE IF at[j - 1] = EOC THEN EOC ELSE GetNext(fat, at[j - 1])
  IN  at[k]

Chain(fat, start) == {SeekCluster(fat, start, k) : k \in 0 .. N} \ {EOC}

FreeClusters(fat) == {c \in Clusters : fat[c] = FREE}
NextFree(fat) == CHOOSE c \in FreeClusters(fat) : \A d \in FreeClusters(fat) : c <= d

ClustersFor(size) == (size + B - 1) \div B

(* What a file of this size that starts at s needs of the table: a chain    *)
(* that ends, of used clusters, and long enough.                            *)
ChainOK(fat, s, size) ==
  /\ \E k \in 0 .. N : SeekCluster(fat, s, k) = EOC
  /\ \A c \in Chain(fat, s) : c # Root /\ fat[c] # FREE
  /\ size <= B * Cardinality(Chain(fat, s))

(* The files of the image have such chains, each its own.                   *)
ASSUME ImageChains ==
  /\ \A i \in DOMAIN Image : ChainOK(Mounted.fat, Image[i].start, Image[i].size)
  /\ \A i, j \in DOMAIN Image : i # j =>
       Chain(Mounted.fat, Image[i].start) \cap Chain(Mounted.fat, Image[j].start) = {}

-----------------------------------------------------------------------------
(* fat_file.c                                                               *)

Maximum(a, b) == IF a < b THEN b ELSE a
Minimum(a, b) == IF a < b THEN a ELSE b

Entry(v, f) ==
  [name |-> f, start |-> v.tree[f].start, size |-> v.tree[f].size, hidden |-> v.tree[f].hidden]

(* write_dir_entry of the file's entry, in its directory's first cluster at *)
(* the position the file has noted.                                         *)
WriteEntry(v, f) ==
  IF ~v.tree[f].up THEN [v EXCEPT !.alive = FALSE]
  ELSE [v EXCEPT !.ents[v.tree[Parent[f]].start][v.tree[f].pos] = Entry(v, f)]

(* fat_file_dentry_add_child: a file whose entry does not fit keeps         *)
(* position 0.                                                              *)
AddChild(v, f) ==
  LET n == v.tree[Parent[f]].nentries
  IN  IF n >= DirCap THEN [v EXCEPT !.errno = "ENOSPC"]
      ELSE WriteEntry([v EXCEPT !.tree[f].pos = n, !.tree[Parent[f]].nentries = @ + 1], f)

(* Mutant: the new file's cluster is not marked in the table.               *)
MknodSharing(v, f) ==
  LET c == NextFree(v.fat)
  IN  IF FreeClusters(v.fat) = {} THEN [v EXCEPT !.alive = FALSE]
      ELSE AddChild([v EXCEPT !.errno = "0", !.tree[f] = NewFile(c)], f)

(* fat_file_init, fat_tree_insert and fat_file_dentry_add_child.  The file  *)
(* is in the tree before its entry is written.  With no cluster free the    *)
(* search runs off the table.                                               *)
MknodIn(v, f) ==
  LET c == NextFree(v.fat)
  IN  IF FreeClusters(v.fat) = {} THEN [v EXCEPT !.alive = FALSE]
      ELSE AddChild([v EXCEPT !.errno = "0", !.fat[c] = EOC, !.tree[f] = NewFile(c)], f)

(* What fits between the offset and the end of the file's last cluster: the *)
(* loop of fat_file_pwrite ends there, because fat_get_next_or_add_cluster  *)
(* looks for the end of the chain in the cluster just written, which is     *)
(* never an end mark, and so adds no cluster.                               *)
Room(v, f, off) == B * Cardinality(Chain(v.fat, v.tree[f].start)) - off

(* Mutant: the seek fails when it arrives at the end of the chain, not when *)
(* it would have to go past it.                                             *)
SeekErrnoEager(v, f, off) ==
  IF v.errno = "0" /\ SeekCluster(v.fat, v.tree[f].start, off \div B) = EOC
  THEN "EOVERFLOW" ELSE v.errno

(* errno after fat_table_seek_cluster: an earlier error, or one of its own  *)
(* when it would follow the end mark.                                       *)
SeekErrno(v, f, off) ==
  IF v.errno = "0" /\ off >= B /\ SeekCluster(v.fat, v.tree[f].start, off \div B - 1) = EOC
  THEN "EOVERFLOW" ELSE v.errno

(* How much fat_file_pwrite writes: nothing if errno is set after the seek. *)
Written(v, f, off, n) ==
  IF SeekErrno(v, f, off) # "0" THEN 0 ELSE Minimum(n, Room(v, f, off))

(* The units off .. off + n - 1 of the file set to x, across its clusters;  *)
(* a directory that is later given such a cluster finds no entry in it.     *)
Store(v, f, off, n, x) ==
  LET s == v.tree[f].start
      Place(k) == <<SeekCluster(v.fat, s, k \div B), k % B>>
      places == {Place(k) : k \in off .. (off + n - 1)}
      junk == {place[1] : place \in places}
  IN  [v EXCEPT
         !.data = [c \in Clusters |->
           [i \in 0 .. (B - 1) |-> IF <<c, i>> \in places THEN x ELSE @[c][i]]],
         !.ents = [c \in Clusters |->
           IF c \in junk THEN [i \in 0 .. (DirCap - 1) |-> Junk] ELSE @[c]]]

(* Mutant: the size counts what was asked for, not what was written.        *)
PwriteCountsAll(v, f, off, n, x) ==
  IF SeekErrno(v, f, off) # "0" THEN [v EXCEPT !.errno = SeekErrno(v, f, off)]
  ELSE WriteEntry([Store(v, f, off, Written(v, f, off, n), x)
                     EXCEPT !.tree[f].size = Maximum(@, off + n)], f)

(* fat_file_pwrite with off <= size.                                        *)
Pwrite(v, f, off, n, x) ==
  IF SeekErrno(v, f, off) # "0" THEN [v EXCEPT !.errno = SeekErrno(v, f, off)]
  ELSE WriteEntry([Store(v, f, off, Written(v, f, off, n), x)
                     EXCEPT !.tree[f].size = Maximum(@, off + Written(v, f, off, n))], f)

(* fat_file_pread, as far as it changes the volume: it writes the entry     *)
(* back for the time of the access if there was something to read.          *)
Pread(v, f, off) ==
  IF off > v.tree[f].size THEN [v EXCEPT !.errno = "EOVERFLOW"]
  ELSE IF off = v.tree[f].size THEN v ELSE WriteEntry(v, f)

(* fat_file_truncate: nothing happens unless whole clusters go.             *)
FewerClusters(size, off) ==
  off <= size /\ Maximum(1, ClustersFor(off)) < Maximum(1, ClustersFor(size))

(* Mutant: the cluster that is now the last keeps its link.                 *)
CutLinkKept(v, f, off) ==
  LET last == SeekCluster(v.fat, v.tree[f].start, off \div B)
      rest == IF GetNext(v.fat, last) = EOC THEN {} ELSE Chain(v.fat, GetNext(v.fat, last))
  IN  [c \in Clusters |-> IF c \in rest THEN FREE ELSE v.fat[c]]

(* The table with the chain ended at the cluster of the offset, and the rest*)
(* of it free.                                                              *)
Cut(v, f, off) ==
  LET last == SeekCluster(v.fat, v.tree[f].start, off \div B)
      rest == IF GetNext(v.fat, last) = EOC THEN {} ELSE Chain(v.fat, GetNext(v.fat, last))
  IN  [c \in Clusters |-> IF c = last THEN EOC ELSE IF c \in rest THEN FREE ELSE v.fat[c]]

TruncateFile(v, f, off) ==
  IF FewerClusters(v.tree[f].size, off)
  THEN WriteEntry([v EXCEPT !.fat = Cut(v, f, off), !.tree[f].size = off], f)
  ELSE v

(* fat_file_remove: the clusters are freed and the entry is written as it   *)
(* was; fat_tree_delete, after which the nodes in it have no parent.        *)
Remove(v, f) ==
  LET s == Chain(v.fat, v.tree[f].start)
      w == WriteEntry([v EXCEPT !.fat = [c \in Clusters |-> IF c \in s THEN FREE ELSE @[c]]], f)
  IN  [w EXCEPT !.tree = [g \in DOMAIN @ |->
         IF g = f THEN NoFile
         ELSE IF g # TopDir /\ @[g] # NoFile /\ Parent[g] = f THEN [@[g] EXCEPT !.up = FALSE]
         ELSE @[g]]]

(* init_file_from_dentry: the position is the number of entries the         *)
(* directory has in memory, which is only set after all of them are read;   *)
(* the log gets back the first letter of its name, that hid it.             *)
Loaded(v, p, e) == [NewFile(e.start) EXCEPT !.size = e.size, !.pos = v.tree[p].nentries]

(* fat_file_read_children: the entries up to the first empty one, of which  *)
(* the tree takes the first of each name it does not have.                  *)
ReadChildren(v, p) ==
  LET ents == v.ents[v.tree[p].start]
      n == CHOOSE k \in 0 .. DirCap :
             /\ \A i \in 0 .. (k - 1) : ents[i] # End
             /\ k = DirCap \/ ents[k] = End
      Of(f) == {i \in 0 .. (n - 1) : ents[i] # Junk /\ ents[i].name = f}
      First(f) == CHOOSE i \in Of(f) : \A j \in Of(f) : i <= j
      Read(f) == IF f = TopDir \/ v.tree[f] # NoFile \/ Of(f) = {} THEN v.tree[f]
                 ELSE Loaded(v, p, ents[First(f)])
  IN  [v EXCEPT !.tree = [f \in DOMAIN @ |->
         IF f = p THEN [@[p] EXCEPT !.read = TRUE, !.nentries = n] ELSE Read(f)]]

-----------------------------------------------------------------------------
(* fat_fuse_ops.c                                                           *)

(* fat_fuse_log_activity: append to the log, which must be in the tree.     *)
LogActivity(v) ==
  IF v.tree[Log] = NoFile THEN [v EXCEPT !.alive = FALSE]
  ELSE Pwrite(v, Log, v.tree[Log].size, 1, LogVal)

(* fat_file_hide                                                            *)
Hide(v, f) == WriteEntry([v EXCEPT !.tree[f].hidden = TRUE], f)

(* fat_fuse_log_init: nothing more happens when the log has no room in the  *)
(* directory.                                                               *)
LogInit(v) ==
  LET w == MknodIn(v, Log)
  IN  IF v.tree[Log] # NoFile THEN v
      ELSE IF ~w.alive \/ w.errno # "0" THEN w
      ELSE Hide(LogActivity(w), Log)

Step(op, f, off, n, ret, v) ==
  /\ vol.alive /\ ops < MaxOps
  /\ vol' = v
  /\ call' = [op |-> op, file |-> f, off |-> off, len |-> n, ret |-> ret]
  /\ ops' = ops + 1

Cleared == [vol EXCEPT !.errno = "0"]

(* fat_fuse_getattr, open or opendir of a name: a miss of getattr sets      *)
(* errno and nothing clears it.                                             *)
Getattr(f) ==
  Step("getattr", f, 0, 0, 0, IF vol.tree[f] = NoFile THEN [vol EXCEPT !.errno = "ENOENT"] ELSE vol)

Listed(p) == IF vol.tree[p].read THEN Cleared ELSE LogInit(ReadChildren(Cleared, p))

Readdir(p) ==
  /\ vol.tree[p] # NoFile
  /\ Step("readdir", p, 0, 0, 0, Listed(p))

(* The array that fat_tree_flatten_h_children fills has nentries + 1 places;*)
(* with more children than entries it writes past it, and may die of it.    *)
ReaddirOverflow(p) ==
  /\ vol.tree[p] # NoFile
  /\ LET t == Listed(p).tree
         children == {f \in Names : Parent[f] = p /\ t[f] # NoFile /\ t[f].up}
     IN  Cardinality(children) > t[p].nentries
  /\ Step("readdir", p, 0, 0, 0, [Listed(p) EXCEPT !.alive = FALSE])

(* The kernel has found the file by its path, a directory at a time.        *)
There(f) == vol.tree[Parent[f]] # NoFile /\ vol.tree[f] # NoFile

(* FUSE has looked the name up: it is not in the tree, and its directory    *)
(* is.                                                                      *)
Mknod(f) ==
  /\ f \notin Dirs
  /\ vol.tree[Parent[f]] # NoFile /\ vol.tree[f] = NoFile
  /\ Step("mknod", f, 0, 0, 0, MknodIn(vol, f))

(* The directory gets no entries of its own, and the cluster it is given is *)
(* not cleared.                                                             *)
Mkdir(f) ==
  /\ f \in Dirs
  /\ vol.tree[f] = NoFile
  /\ Step("mkdir", f, 0, 0, 0, MknodIn(vol, f))

Unlink(f) ==
  /\ f \notin Dirs /\ There(f)
  /\ Step("unlink", f, 0, 0, 0, Remove(Cleared, f))

(* A directory with up to two entries in memory is removed.                 *)
Rmdir(f) ==
  /\ f \in Dirs /\ There(f)
  /\ Step("rmdir", f, 0, 0, 0,
          IF vol.tree[f].nentries > 2 THEN [vol EXCEPT !.errno = "ENOTEMPTY"] ELSE Remove(Cleared, f))

(* A read that fails leaves no trace in the log.                            *)
Read(f, off, n) ==
  /\ f \notin Dirs /\ There(f)
  /\ LET v == Pread(Cleared, f, off)
     IN  Step("read", f, off, n, Minimum(n, Maximum(0, vol.tree[f].size - off)),
              IF v.errno # "0" \/ ~v.alive THEN v ELSE LogActivity(v))

(* errno is not cleared here.                                               *)
Write(f, off, n, x) ==
  /\ f \notin Dirs /\ There(f)
  /\ off <= vol.tree[f].size
  /\ LET v == LogActivity(vol)
     IN  Step("write", f, off, n, IF v.alive THEN Written(v, f, off, n) ELSE 0,
              IF v.alive THEN Pwrite(v, f, off, n, x) ELSE v)

Truncate(f, off) ==
  /\ There(f)
  /\ Step("truncate", f, off, 0, 0, IF f \in Dirs THEN Cleared ELSE TruncateFile(Cleared, f, off))

Utime(f) ==
  /\ There(f)
  /\ Step("utime", f, 0, 0, 0, WriteEntry(Cleared, f))

Next ==
  \/ Readdir(TopDir) \/ ReaddirOverflow(TopDir)
  \/ \E f \in Names :
       \/ Getattr(f) \/ Mknod(f) \/ Mkdir(f) \/ Unlink(f) \/ Rmdir(f) \/ Utime(f)
       \/ \E off \in Offs :
            \/ Truncate(f, off)
            \/ \E n \in Lens : Read(f, off, n) \/ \E x \in Vals : Write(f, off, n, x)

(* The root directory has been listed since the volume was mounted.         *)
ListedInit ==
  /\ vol = LogInit(ReadChildren(Mounted, TopDir))
  /\ call = NoCall /\ ops = 0

Spec == ListedInit /\ [][Next]_vars

(* The volume is unmounted, or its process has died, and is mounted again.  *)
Remount ==
  /\ vol' = Mount(vol.fat, vol.data, vol.ents)
  /\ call' = NoCall
  /\ UNCHANGED ops

MountInit ==
  /\ vol = Mounted
  /\ call = NoCall /\ ops = 0

(* Calls before the first listing, listings of a directory that was made    *)
(* here, and the volume mounted again.                                      *)
MountNext == Next \/ Remount \/ \E d \in Dirs : Readdir(d) \/ ReaddirOverflow(d)

MountSpec == MountInit /\ [][MountNext]_vars

-----------------------------------------------------------------------------
Files == {f \in Names : vol.tree[f] # NoFile}
ChainOf(f) == Chain(vol.fat, vol.tree[f].start)

Content(v, f) ==
  [k \in 0 .. (v.tree[f].size - 1) |->
     v.data[SeekCluster(v.fat, v.tree[f].start, k \div B)][k % B]]

(* No two files share a cluster, no file has a free cluster or the root's,  *)
(* and every chain ends: what allocation, truncation and removal on one     *)
(* table must keep between them.                                            *)
ChainsDisjoint ==
  /\ \A f \in Files : /\ Root \notin ChainOf(f)
                      /\ \A c \in ChainOf(f) : vol.fat[c] # FREE
                      /\ \E c \in ChainOf(f) : vol.fat[c] = EOC
  /\ \A f, g \in Files : f # g => ChainOf(f) \cap ChainOf(g) = {}

(* The size of a file in memory never says more than its clusters hold: a   *)
(* read inside the size never runs off the chain.                           *)
SizeFits == \A f \in Files : vol.tree[f].size <= B * Cardinality(ChainOf(f))

(* A call changes the contents of no file but the one it names, and the log *)
(* only by adding to its end.                                               *)
OthersUntouched ==
  [][\A f \in Files :
       vol'.alive /\ vol'.tree[f] # NoFile /\ Content(vol, f) # Content(vol', f) =>
         \/ f = call'.file
         \/ f = Log /\ \A k \in DOMAIN Content(vol, f) : Content(vol', f)[k] = Content(vol, f)[k]]_vars

(* A write returns how much of the file it changed, and falls short only    *)
(* where the clusters end, unless an earlier call left errno set.           *)
ShortOnlyAtEnd ==
  [][call'.op = "write" /\ vol'.alive /\ vol.errno = "0" =>
       call'.ret = Minimum(call'.len, B * Cardinality(ChainOf(call'.file)) - call'.off)]_vars

(* README.md:29 of lab4/esqueleto, "mantener la consistencia entre la       *)
(* informacion en memoria y la informacion en la imagen": every file in     *)
(* memory has an entry in its directory on the image, that says where it    *)
(* starts and its size; a directory that is removed has no files.           *)
ImageHasFiles ==
  \A f \in Files :
    /\ vol.tree[Parent[f]] # NoFile
    /\ \E i \in 0 .. (DirCap - 1) :
         LET e == vol.ents[vol.tree[Parent[f]].start][i]
         IN  /\ e \notin {End, Junk}
             /\ <<e.name, e.start, e.size>> = <<f, vol.tree[f].start, vol.tree[f].size>>

-----------------------------------------------------------------------------
(* The invariant of the proofs in FatFsProofs.  Sound says of any volume    *)
(* what every function of fat_file.c keeps of the chains.                   *)
FileType ==
  [start : Clusters, size : Nat, pos : Nat, hidden : BOOLEAN, nentries : Nat, read : BOOLEAN, up : BOOLEAN]

VolType ==
  [fat : [Clusters -> Clusters \cup {FREE, EOC}],
   data : [Clusters -> [0 .. (B - 1) -> Vals]],
   ents : [Clusters -> [0 .. (DirCap - 1) -> Entries \cup {End, Junk}]],
   errno : {"0", "ENOENT", "ENOSPC", "EOVERFLOW", "ENOTEMPTY"}, alive : BOOLEAN,
   tree : [Names \cup {TopDir} -> FileType \cup {NoFile}]]

Sound(v) ==
  /\ v.fat[Root] # FREE
  /\ \A f \in Names : v.tree[f] # NoFile => ChainOK(v.fat, v.tree[f].start, v.tree[f].size)
  /\ \A f, g \in Names : f # g /\ v.tree[f] # NoFile /\ v.tree[g] # NoFile =>
       Chain(v.fat, v.tree[f].start) \cap Chain(v.fat, v.tree[g].start) = {}

FatInv ==
  /\ vol \in VolType /\ Sound(vol)
  /\ vol.tree[TopDir] # NoFile /\ vol.tree[TopDir].read
==============================================================================
