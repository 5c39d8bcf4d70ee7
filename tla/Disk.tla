---------------------------------- MODULE Disk ----------------------------------
(***************************************************************************)
(* The buffer cache (kernel/bio.c), the sleep locks of its buffers          *)
(* (kernel/sleeplock.c) and the driver of the virtio disk                   *)
(* (kernel/virtio_disk.c), with the device on the other side of its rings.  *)
(*                                                                          *)
(* A step is a critical section of bcache.lock, of a sleep lock's spin lock *)
(* or of vdisk_lock, up to the release or to the sleep() that gives it up.  *)
(* The interrupt has one for each entry of the used ring, because the       *)
(* device goes on in between.                                               *)
(***************************************************************************)
EXTENDS Integers, Sequences, FiniteSets, FiniteSetsExt

CONSTANTS Users,        \* processes in the file system
          DBlocks,      \* blocks of the disk
          NBUF, NUM,    \* buffers; descriptors
          IdxMod,       \* the rings' counters are modulo IdxMod (2^16)
          Before,       \* requests made, and done, before the model starts
          Work          \* what the processes may do: a sequence of calls for each

Bufs == 1 .. NBUF
Descs == 0 .. (NUM - 1)
Nil == 0

(* The blocks that are logged, of the calls in w.                           *)
Logged(w) == {k \in DBlocks : \E p \in Users : \E n \in DOMAIN w[p] : w[p][n] = [do |-> "log", block |-> k]}

Calls == [do : {"read", "write", "log", "install"}, block : DBlocks]

(* There is a buffer for every process beside the ones the log pins.        *)
ASSUME DiskAssumption ==
  /\ Nil \notin Users \cup DBlocks /\ IsFiniteSet(Users) /\ IsFiniteSet(DBlocks)
  /\ NBUF \in Nat /\ NUM \in Nat /\ NUM >= 3
  /\ IdxMod \in Nat \ {0} /\ IdxMod % NUM = 0 /\ Before \in 0 .. (IdxMod - 1)
  /\ \A w \in Work : w \in [Users -> Seq(Calls)]
  /\ \A w \in Work : NBUF >= Cardinality({p \in Users : w[p] # <<>>}) + Cardinality(Logged(w))

VARIABLES buf,      \* buf[b]: blockno, valid, refcnt, disk, data and its sleep lock
          lru,      \* the buffers, most recently used first
          desc,     \* desc[i]: whether it is free, the next of its chain, what it points to
          info,     \* info[i]: buffer and status of the request whose chain starts at i
          avail, used,  \* the rings: ring and idx
          usedIdx,  \* disk.used_idx
          dev,      \* the device: avail entries seen, requests taken, its interrupt
          platter,  \* what is on the disk
          vlock,    \* the interrupt has vdisk_lock
          upc, cur, \* upc[p], cur[p]: where p is, and its buffer
          op, head, \* op[p], head[p]: the transfer it makes, and idx[0]
          pinned,   \* blocks the log has pinned
          work,     \* work[p]: the calls p has still to make
          latest,   \* ghost: what was last written to a block
          dpanic    \* ghost: the kernel has panicked

cacheVars == <<buf, lru>>
queueVars == <<desc, info, avail, used, usedIdx>>
deviceVars == <<dev, platter>>
callVars == <<cur, op, head>>
ghostVars == <<pinned, work, latest>>
diskVars == <<cacheVars, queueVars, deviceVars, vlock, upc, callVars, ghostVars, dpanic>>

Move(p, l) == upc' = [upc EXCEPT ![p] = l]

(* p calls virtio_disk_rw().                                                *)
Transfer(p, o) == Move(p, "rw") /\ op' = [op EXCEPT ![p] = o]

-----------------------------------------------------------------------------
(* bget(): the buffer of the block, or the least recently used free one.    *)
Cached(k) == {b \in Bufs : buf[b].blockno = k}
Unused == {n \in 1 .. NBUF : buf[lru[n]].refcnt = 0}

(* Mutant: a buffer that is recycled keeps its valid flag.                  *)
RecycledValid(b, k) == [buf[b] EXCEPT !.blockno = k, !.refcnt = 1]

Recycled(b, k) == [buf[b] EXCEPT !.blockno = k, !.refcnt = 1, !.valid = FALSE]

Bget(p) ==
  LET k == Head(work[p]).block
      b == IF Cached(k) # {} THEN Min(Cached(k)) ELSE lru[Max(Unused)]
  IN
  /\ upc[p] = "idle" /\ work[p] # <<>>
  /\ IF Cached(k) = {} /\ Unused = {}
     THEN dpanic' = TRUE /\ UNCHANGED <<buf, cur, upc>>
     ELSE /\ buf' = [buf EXCEPT ![b] = IF Cached(k) # {} THEN [buf[b] EXCEPT !.refcnt = @ + 1] ELSE Recycled(b, k)]
          /\ cur' = [cur EXCEPT ![p] = b]
          /\ Move(p, "lock")
          /\ UNCHANGED dpanic
  /\ UNCHANGED <<lru, queueVars, deviceVars, vlock, op, head, ghostVars>>

(* acquiresleep(), and bread()'s look at valid.                             *)
AcquireSleep(p) ==
  LET b == cur[p] IN
  /\ upc[p] = "lock" /\ buf[b].lock = Nil
  /\ buf' = [buf EXCEPT ![b].lock = p]
  /\ IF buf[b].valid THEN Move(p, "have") /\ UNCHANGED op ELSE Transfer(p, "read")
  /\ UNCHANGED <<lru, queueVars, deviceVars, vlock, cur, head, ghostVars, dpanic>>

(* The holder reads, or changes the data and calls bwrite() or log_write(), *)
(* which pins a block that is not in the log yet; or install_trans() writes *)
(* a pinned block home, and unpins it.                                      *)
Doing(p, w) == upc[p] = "have" /\ Head(work[p]).do = w
Block(p) == buf[cur[p]].blockno

ReadOnly(p) ==
  /\ Doing(p, "read")
  /\ Move(p, "release")
  /\ UNCHANGED <<cacheVars, queueVars, deviceVars, vlock, callVars, ghostVars, dpanic>>

Modify(p) ==
  /\ \/ Doing(p, "write") /\ Transfer(p, "write") /\ UNCHANGED pinned
     \/ /\ Doing(p, "log")
        /\ Move(p, IF Block(p) \in pinned THEN "release" ELSE "pin")
        /\ pinned' = pinned \cup {Block(p)} /\ UNCHANGED op
  /\ buf' = [buf EXCEPT ![cur[p]].data = 1 - @]
  /\ latest' = [latest EXCEPT ![Block(p)] = 1 - buf[cur[p]].data]
  /\ UNCHANGED <<lru, queueVars, deviceVars, vlock, cur, head, work, dpanic>>

Bpin(p) ==
  /\ upc[p] = "pin"
  /\ buf' = [buf EXCEPT ![cur[p]].refcnt = @ + 1]
  /\ Move(p, "release")
  /\ UNCHANGED <<lru, queueVars, deviceVars, vlock, callVars, ghostVars, dpanic>>

Install(p) ==
  /\ Doing(p, "install") /\ Block(p) \in pinned
  /\ Transfer(p, "install")
  /\ UNCHANGED <<cacheVars, queueVars, deviceVars, vlock, cur, head, ghostVars, dpanic>>

Bunpin(p) ==
  /\ upc[p] = "unpin"
  /\ buf' = [buf EXCEPT ![cur[p]].refcnt = @ - 1]
  /\ pinned' = pinned \ {Block(p)}
  /\ Move(p, "release")
  /\ UNCHANGED <<lru, queueVars, deviceVars, vlock, callVars, work, latest, dpanic>>

(* brelse(): the sleep lock, and then the reference.  A buffer that nobody  *)
(* refers to any more goes to the front of the list.                        *)
ReleaseSleep(p) ==
  /\ upc[p] = "release"
  /\ buf' = [buf EXCEPT ![cur[p]].lock = Nil]
  /\ Move(p, "unref")
  /\ UNCHANGED <<lru, queueVars, deviceVars, vlock, callVars, ghostVars, dpanic>>

ToFront(b) ==
  LET k == CHOOSE n \in 1 .. NBUF : lru[n] = b
  IN  [n \in 1 .. NBUF |-> IF n = 1 THEN b ELSE IF n <= k THEN lru[n - 1] ELSE lru[n]]

Brelse(p) ==
  LET b == cur[p] IN
  /\ upc[p] = "unref"
  /\ buf' = [buf EXCEPT ![b].refcnt = @ - 1]
  /\ lru' = IF buf[b].refcnt = 1 THEN ToFront(b) ELSE lru
  /\ Move(p, "idle")
  /\ cur' = [cur EXCEPT ![p] = Nil]
  /\ work' = [work EXCEPT ![p] = Tail(@)]
  /\ UNCHANGED <<queueVars, deviceVars, vlock, op, head, pinned, latest, dpanic>>

-----------------------------------------------------------------------------
(* virtio_disk_rw().  free_desc() wakes everyone who waits for descriptors, *)
(* while p goes on to l.                                                    *)
FreeDescs == {i \in Descs : desc[i].free}

WakeDescs(p, l) ==
  upc' = [q \in Users |-> IF q = p THEN l ELSE IF upc[q] = "dsleep" THEN "rw" ELSE upc[q]]

(* alloc3_desc() fails: what it had got is free again, which wakes the      *)
(* others who wait, and p sleeps.                                           *)
NoDescs(p) ==
  /\ upc[p] = "rw" /\ ~vlock
  /\ Cardinality(FreeDescs) < 3
  /\ IF FreeDescs = {} THEN Move(p, "dsleep") ELSE WakeDescs(p, "dsleep")
  /\ UNCHANGED <<cacheVars, queueVars, deviceVars, vlock, callVars, ghostVars, dpanic>>

(* A chain of the lowest three descriptors goes into the avail ring, and p  *)
(* sleeps until its buffer is done.                                         *)
Submit(p) ==
  LET b == cur[p]
      i0 == Min(FreeDescs)
      i1 == Min(FreeDescs \ {i0})
      i2 == Min(FreeDescs \ {i0, i1})
      d(n, x) == [free |-> FALSE, next |-> n, what |-> x]
  IN
  /\ upc[p] = "rw" /\ ~vlock
  /\ Cardinality(FreeDescs) >= 3
  /\ desc' = [desc EXCEPT ![i0] = d(i1, [block |-> buf[b].blockno, write |-> op[p] # "read"]),
                          ![i1] = d(i2, [buffer |-> b]), ![i2] = d(0, [status |-> i0])]
  /\ info' = [info EXCEPT ![i0] = [b |-> b, status |-> 255]]
  /\ buf' = [buf EXCEPT ![b].disk = TRUE]
  /\ avail' = [ring |-> [avail.ring EXCEPT ![avail.idx % NUM] = i0], idx |-> (avail.idx + 1) % IdxMod]
  /\ head' = [head EXCEPT ![p] = i0]
  /\ Move(p, "bsleep")
  /\ UNCHANGED <<lru, used, usedIdx, deviceVars, vlock, cur, op, ghostVars, dpanic>>

(* Mutant: a woken process does not look at b->disk again.                  *)
DoneAlways(b) == TRUE

(* while(b->disk == 1)                                                      *)
Done(b) == ~buf[b].disk

SleepAgain(p) ==
  /\ upc[p] = "finish" /\ ~vlock
  /\ ~Done(cur[p])
  /\ Move(p, "bsleep")
  /\ UNCHANGED <<cacheVars, queueVars, deviceVars, vlock, callVars, ghostVars, dpanic>>

FreeDesc == [free |-> TRUE, next |-> 0, what |-> [none |-> 0]]

(* free_chain(): each of the three descriptors, with a wakeup.              *)
Finish(p) ==
  LET b == cur[p]
      i == head[p]
      chain == {i, desc[i].next, desc[desc[i].next].next}
  IN
  /\ upc[p] = "finish" /\ ~vlock
  /\ Done(b)
  /\ desc' = [j \in Descs |-> IF j \in chain THEN FreeDesc ELSE desc[j]]
  /\ dpanic' = (dpanic \/ \E j \in chain : desc[j].free)
  /\ info' = [info EXCEPT ![i].b = Nil]
  /\ buf' = [buf EXCEPT ![b].valid = TRUE]
  /\ WakeDescs(p, CASE op[p] = "read" -> "have" [] op[p] = "write" -> "release" [] OTHER -> "unpin")
  /\ UNCHANGED <<lru, avail, used, usedIdx, deviceVars, vlock, callVars, ghostVars>>

(* kill() wakes a process out of any sleep; these two go back to it.        *)
Kill(p) ==
  /\ \/ upc[p] = "dsleep" /\ Move(p, "rw")
     \/ upc[p] = "bsleep" /\ Move(p, "finish")
  /\ UNCHANGED <<cacheVars, queueVars, deviceVars, vlock, callVars, ghostVars, dpanic>>

-----------------------------------------------------------------------------
(* The device takes a chain from the avail ring,                            *)
DevTake ==
  LET i == avail.ring[dev.seen % NUM]
      j == desc[i].next
  IN
  /\ dev.seen # avail.idx
  /\ dev' = [dev EXCEPT !.seen = (@ + 1) % IdxMod,
                        !.taken = @ \cup {[i |-> i, block |-> desc[i].what.block, write |-> desc[i].what.write,
                                           b |-> desc[j].what.buffer]}]
  /\ UNCHANGED <<cacheVars, queueVars, platter, vlock, upc, callVars, ghostVars, dpanic>>

(* and finishes those it has in any order: the data, the status, an entry   *)
(* in the used ring, and the interrupt.                                     *)
DevDone ==
  \E r \in dev.taken :
    /\ dev' = [dev EXCEPT !.taken = @ \ {r}, !.irq = TRUE]
    /\ IF r.write
       THEN platter' = [platter EXCEPT ![r.block] = buf[r.b].data] /\ UNCHANGED buf
       ELSE buf' = [buf EXCEPT ![r.b].data = platter[r.block]] /\ UNCHANGED platter
    /\ info' = [info EXCEPT ![r.i].status = 0]
    /\ used' = [ring |-> [used.ring EXCEPT ![used.idx % NUM] = r.i], idx |-> (used.idx + 1) % IdxMod]
    /\ UNCHANGED <<lru, desc, avail, usedIdx, vlock, upc, callVars, ghostVars, dpanic>>

(* virtio_disk_intr(): the acknowledgement, and then the loop over the used *)
(* ring, to which the device may go on adding.                              *)
IntrAck ==
  /\ dev.irq /\ ~vlock
  /\ vlock' = TRUE
  /\ dev' = [dev EXCEPT !.irq = FALSE]
  /\ UNCHANGED <<cacheVars, queueVars, platter, upc, callVars, ghostVars, dpanic>>

IntrEntry ==
  LET i == used.ring[usedIdx % NUM]
      b == info[i].b
  IN
  /\ vlock /\ usedIdx # used.idx
  /\ dpanic' = (dpanic \/ info[i].status # 0)
  /\ buf' = [buf EXCEPT ![b].disk = FALSE]
  /\ upc' = [q \in Users |-> IF upc[q] = "bsleep" /\ cur[q] = b THEN "finish" ELSE upc[q]]
  /\ usedIdx' = (usedIdx + 1) % IdxMod
  /\ UNCHANGED <<lru, desc, info, avail, used, deviceVars, vlock, callVars, ghostVars>>

(* Mutant: the interrupt handles one entry of the used ring.                *)
LoopEndsOnce == TRUE

(* while(disk.used_idx != disk.used->idx)                                   *)
LoopEnds == usedIdx = used.idx

IntrEnd ==
  /\ vlock /\ LoopEnds
  /\ vlock' = FALSE
  /\ UNCHANGED <<cacheVars, queueVars, deviceVars, upc, callVars, ghostVars, dpanic>>

-----------------------------------------------------------------------------
DiskInit ==
  /\ buf = [b \in Bufs |-> [blockno |-> Nil, valid |-> FALSE, refcnt |-> 0, disk |-> FALSE, lock |-> Nil, data |-> 0]]
  /\ lru = [n \in 1 .. NBUF |-> NBUF + 1 - n]
  /\ desc = [i \in Descs |-> FreeDesc]
  /\ info = [i \in Descs |-> [b |-> Nil, status |-> 0]]
  /\ avail = [ring |-> [n \in Descs |-> 0], idx |-> Before]
  /\ used = avail /\ usedIdx = Before
  /\ dev = [seen |-> Before, taken |-> {}, irq |-> FALSE]
  /\ platter = [k \in DBlocks |-> 0] /\ latest = platter
  /\ vlock = FALSE
  /\ upc = [p \in Users |-> "idle"] /\ cur = [p \in Users |-> Nil]
  /\ op = [p \in Users |-> "read"] /\ head = [p \in Users |-> 0]
  /\ pinned = {} /\ work \in Work /\ dpanic = FALSE

UserStep(p) ==
  \/ Bget(p) \/ AcquireSleep(p) \/ ReadOnly(p) \/ Modify(p) \/ Bpin(p) \/ Install(p) \/ Bunpin(p) \/ ReleaseSleep(p) \/ Brelse(p)
  \/ NoDescs(p) \/ Submit(p) \/ SleepAgain(p) \/ Finish(p)

Hardware == DevTake \/ DevDone \/ IntrAck \/ IntrEntry \/ IntrEnd

DiskNext == Hardware \/ \E p \in Users : UserStep(p) \/ Kill(p)

(* Every process that can run is scheduled; the device answers, and its     *)
(* interrupts are taken.                                                    *)
DiskFairness ==
  /\ \A p \in Users : WF_diskVars(UserStep(p))
  /\ WF_diskVars(DevTake) /\ WF_diskVars(DevDone)
  /\ WF_diskVars(IntrAck) /\ WF_diskVars(IntrEntry) /\ WF_diskVars(IntrEnd)

DiskSpec == DiskInit /\ [][DiskNext]_diskVars /\ DiskFairness

-----------------------------------------------------------------------------
(* Whoever holds a block sees what was last written to it, by whomever: it  *)
(* has one buffer, which one process has at a time, which is recycled only  *)
(* when nobody has it and the log does not need it, and which the device    *)
(* fills, or empties, before the call returns.  The disk is up to date but  *)
(* for the pinned blocks and the ones being written.                        *)
Holding == {"have", "pin", "unpin", "release"}

ReadsLatest ==
  /\ \A p \in Users : upc[p] \in Holding => buf[cur[p]].data = latest[buf[cur[p]].blockno]
  /\ \A p, q \in Users : p # q /\ upc[p] \in Holding /\ upc[q] \in Holding => cur[p] # cur[q]
  /\ \A b, c \in Bufs : b # c /\ buf[b].blockno # Nil => buf[b].blockno # buf[c].blockno
  /\ \A k \in DBlocks \ pinned :
       platter[k] # latest[k] => \E p \in Users : upc[p] # "idle" /\ buf[cur[p]].blockno = k

(* Every descriptor is free or in the chain of one request, the interrupt   *)
(* finds the buffer of the request that is done, and none of the panics of  *)
(* the driver and of bget() happens: the cache has a buffer for every       *)
(* process beside the ones the log may pin.                                 *)
Requests == {p \in Users : upc[p] \in {"bsleep", "finish"}}

DescriptorsCounted ==
  /\ ~dpanic
  /\ Cardinality(FreeDescs) + 3 * Cardinality(Requests) = NUM
  /\ \A p \in Requests : info[head[p]].b = cur[p]
  /\ \A r \in dev.taken : \E p \in Requests : head[p] = r.i /\ cur[p] = r.b /\ buf[r.b].disk

(* Every call comes to its end: a process is woken when its request is done *)
(* and when there are descriptors, and the interrupt loses no completion.   *)
DiskReturns == \A p \in Users : <>[](work[p] = <<>>)

-----------------------------------------------------------------------------
(* The inductive invariant of the proofs in DiskProofs.                     *)
DiskLabels == {"idle", "lock", "rw", "dsleep", "bsleep", "finish", "have", "pin", "unpin", "release", "unref"}

BufType == [blockno : DBlocks \cup {Nil}, valid : BOOLEAN, refcnt : Nat, disk : BOOLEAN,
            lock : Users \cup {Nil}, data : {0, 1}]
DescType == [free : BOOLEAN, next : Descs,
             what : [none : {0}] \cup [block : DBlocks, write : BOOLEAN] \cup [buffer : Bufs] \cup [status : Descs]]
RingType == [ring : [Descs -> Descs], idx : 0 .. (IdxMod - 1)]

DiskTypeOK ==
  /\ buf \in [Bufs -> BufType]
  /\ lru \in [1 .. NBUF -> Bufs]
  /\ desc \in [Descs -> DescType]
  /\ info \in [Descs -> [b : Bufs \cup {Nil}, status : {0, 255}]]
  /\ avail \in RingType /\ used \in RingType /\ usedIdx \in 0 .. (IdxMod - 1)
  /\ dev \in [seen : 0 .. (IdxMod - 1), irq : BOOLEAN,
              taken : SUBSET [i : Descs, block : DBlocks, write : BOOLEAN, b : Bufs]]
  /\ platter \in [DBlocks -> {0, 1}] /\ latest \in [DBlocks -> {0, 1}]
  /\ vlock \in BOOLEAN /\ dpanic \in BOOLEAN
  /\ upc \in [Users -> DiskLabels]
  /\ cur \in [Users -> Bufs \cup {Nil}]
  /\ op \in [Users -> {"read", "write", "install"}]
  /\ head \in [Users -> Descs]
  /\ pinned \in SUBSET DBlocks
  /\ work \in [Users -> Seq(Calls)]

(* What a process that makes a call has: its buffer, the buffer's lock, and *)
(* what it does there.                                                      *)
Transferring == {"rw", "dsleep", "bsleep", "finish"}
Locked == Transferring \cup Holding

HolderOK(p) ==
  /\ upc[p] = "idle" <=> cur[p] = Nil
  /\ upc[p] # "idle" => work[p] # <<>> /\ Block(p) = Head(work[p]).block
  /\ upc[p] \in Locked => buf[cur[p]].lock = p
  /\ upc[p] \in Transferring => buf[cur[p]].valid = (op[p] # "read")
  /\ upc[p] \in Holding => buf[cur[p]].valid
  /\ upc[p] \in {"pin", "unpin"} \/ (upc[p] \in Transferring /\ op[p] = "install") => Block(p) \in pinned

HoldersOK == \A p \in Users : HolderOK(p)

(* A block has one buffer; a buffer has a reference for each process that   *)
(* has it, and one if it is pinned; and all buffers are in the list.        *)
Refs(b) == {p \in Users : cur[p] = b}
Pin(b) == buf[b].blockno \in pinned /\ \A p \in Users : ~(upc[p] = "pin" /\ cur[p] = b)

CacheOK ==
  /\ \A b \in Bufs : \E n \in 1 .. NBUF : lru[n] = b
  /\ \A b, c \in Bufs : b # c /\ buf[b].blockno # Nil => buf[b].blockno # buf[c].blockno
  /\ \A b \in Bufs : buf[b].refcnt = Cardinality(Refs(b)) + (IF Pin(b) THEN 1 ELSE 0)
  /\ \A k \in pinned : \E b \in Bufs : buf[b].blockno = k

(* The processes have calls to make for which there are buffers.            *)
WorkOK ==
  \E w \in Work :
    /\ \A p \in Users : work[p] # <<>> => w[p] # <<>>
    /\ \A p \in Users : \A n \in DOMAIN work[p] :
         work[p][n].do = "log" => work[p][n].block \in Logged(w)
    /\ pinned \subseteq Logged(w)

(* The entries of a ring from first up to its idx.                          *)
Waiting(q, first) == (q.idx - first + IdxMod) % IdxMod
EntryAt(q, first, k) == q.ring[((first + k) % IdxMod) % NUM]
Entries(q, first) == {EntryAt(q, first, k) : k \in 0 .. (Waiting(q, first) - 1)}
Distinct(q, first) ==
  \A k, l \in 0 .. (Waiting(q, first) - 1) : EntryAt(q, first, k) = EntryAt(q, first, l) => k = l

InAvail == Entries(avail, dev.seen)
InDevice == {r.i : r \in dev.taken}
InUsed == Entries(used, usedIdx)

(* A request is in one place on its way from the driver to the device and   *)
(* back, and as long as it is there its buffer is the disk's.               *)
QueuesOK ==
  /\ Distinct(avail, dev.seen) /\ Distinct(used, usedIdx)
  /\ \A r, s \in dev.taken : r.i = s.i => r = s
  /\ InAvail \cap InDevice = {} /\ InAvail \cap InUsed = {} /\ InDevice \cap InUsed = {}
  /\ \A i \in InAvail \cup InDevice \cup InUsed : \E p \in Requests : head[p] = i /\ buf[cur[p]].disk
  /\ \A r \in dev.taken : \A p \in Requests :
       head[p] = r.i => r = [i |-> head[p], block |-> Block(p), write |-> op[p] # "read", b |-> cur[p]]
  /\ \A i \in InUsed : info[i].status = 0

(* The three descriptors of a request are its own, and say what it is; the  *)
(* others are free.                                                         *)
Second(p) == desc[head[p]].next
Third(p) == desc[Second(p)].next
Chain(p) == {head[p], Second(p), Third(p)}

ChainsOK ==
  /\ \A p \in Requests :
       /\ head[p] # Second(p) /\ head[p] # Third(p) /\ Second(p) # Third(p)
       /\ \A i \in Chain(p) : ~desc[i].free
       /\ desc[head[p]].what = [block |-> Block(p), write |-> op[p] # "read"]
       /\ desc[Second(p)].what = [buffer |-> cur[p]]
       /\ info[head[p]].b = cur[p]
  /\ \A p, q \in Requests : p # q => Chain(p) \cap Chain(q) = {}
  /\ Cardinality(FreeDescs) + 3 * Cardinality(Requests) = NUM

(* Where the last write of a block is.                                      *)
Returned(p) == p \in Requests /\ head[p] \notin InAvail \cup InDevice

BufferOK(b) ==
  buf[b].blockno # Nil =>
    IF buf[b].valid THEN buf[b].data = latest[buf[b].blockno]
    ELSE platter[buf[b].blockno] = latest[buf[b].blockno] /\ buf[b].blockno \notin pinned

ResultOK(p) ==
  /\ Returned(p) =>
       IF op[p] = "read" THEN buf[cur[p]].data = latest[Block(p)] ELSE platter[Block(p)] = latest[Block(p)]
  /\ upc[p] = "unpin" => platter[Block(p)] = latest[Block(p)]

Writing(k) == \E p \in Users : upc[p] \in Transferring /\ op[p] = "write" /\ Block(p) = k

DataOK ==
  /\ \A b \in Bufs : BufferOK(b)
  /\ \A p \in Users : ResultOK(p)
  /\ \A k \in DBlocks \ pinned : platter[k] = latest[k] \/ Writing(k)

DiskInv ==
  DiskTypeOK /\ HoldersOK /\ CacheOK /\ WorkOK /\ QueuesOK /\ ChainsOK /\ DataOK /\ ~dpanic
=============================================================================
