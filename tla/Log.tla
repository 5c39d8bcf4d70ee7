---------------------------------- MODULE Log ----------------------------------
(***************************************************************************)
(* The write-ahead log of the xv6 file system (kernel/log.c), with what it  *)
(* needs of the buffer cache (kernel/bio.c): concurrent file system calls   *)
(* modify buffers between begin_op and end_op, the last one to end commits  *)
(* them all, and the machine may crash at any moment, during recovery too.  *)
(*                                                                          *)
(* The blocks of the disk are written one at a time.  A block that is being *)
(* written when the machine crashes may be left with junk in it; the header *)
(* of the log fits in one sector, and its write happens or does not.        *)
(***************************************************************************)
EXTENDS Integers, Sequences, FiniteSets, SequencesExt

CONSTANTS NPROC,       \* processes that make file system calls
          Blocks,      \* home blocks of the file system
          Vals, Torn,  \* contents of a block; Torn is a half written block
          Zero, New,   \* what mkfs gave every block; what a call wrote later
          Pending,     \* the blocks whose commit the last power failure cut short
          NoBuf,       \* a block that is not in the cache
          LOGSIZE, MAXOPBLOCKS,
          NLOG,        \* log.size: blocks of the log on disk, header included
          OPBLOCKS,    \* the most blocks a call really writes
          MaxOps, MaxCrashes  \* bounds: calls made, crashes

ASSUME LogAssumption ==
  /\ NPROC \in Nat \ {0}
  /\ LOGSIZE \in Nat \ {0} /\ MAXOPBLOCKS \in Nat \ {0} /\ NLOG \in Nat \ {0}
  /\ OPBLOCKS \in 0 .. MAXOPBLOCKS
  /\ IsFiniteSet(Blocks) /\ Pending \subseteq Blocks
  /\ Cardinality(Pending) < NLOG /\ Cardinality(Pending) <= LOGSIZE
  /\ {Zero, New} \subseteq Vals /\ Torn \notin Vals /\ NoBuf \notin Vals \cup {Torn}
  /\ MaxOps \in Nat /\ MaxCrashes \in Nat

Procs == 1 .. NPROC
FIRST == 1      \* the process whose forkret() calls fsinit() and initlog()
None == 0

VARIABLES home, logged, header,   \* the disk: home blocks, log blocks, header
          cache,                  \* cache[b]: contents of b's buffer, or NoBuf
          pinned,                 \* blocks whose buffer log_write() has pinned
          holder,                 \* holder[b]: process with b's buffer locked
          lh, outstanding, committing,  \* struct log
          pc, tail,               \* tail[p]: the loop variable of p's commit
          written,                \* written[p]: blocks p's call has written
          ops, crashes

disk == <<home, logged, header>>
vars == <<home, logged, header, cache, pinned, holder, lh, outstanding, committing,
          pc, tail, written, ops, crashes>>

RecoveryLabels == {"read_head", "recover", "recover_erase"}

(* The machine boots, and the first process is about to recover the disk: a *)
(* power failure came just after the header of Pending's commit was written *)
(* (with no block in Pending the disk is the one mkfs made).                *)
Init ==
  /\ home = [b \in Blocks |-> Zero]
  /\ header = SetToSeq(Pending)
  /\ logged = [i \in 1 .. LOGSIZE |-> IF i \in DOMAIN header THEN New ELSE Zero]
  /\ cache = [b \in Blocks |-> NoBuf]
  /\ pinned = {}
  /\ holder = [b \in Blocks |-> None]
  /\ lh = <<>> /\ outstanding = 0 /\ committing = FALSE
  /\ pc = [p \in Procs |-> IF p = FIRST THEN "read_head" ELSE "off"]
  /\ tail = [p \in Procs |-> 1]
  /\ written = [p \in Procs |-> {}]
  /\ ops = 0 /\ crashes = 0

Goto(p, l) == pc' = [pc EXCEPT ![p] = l]

(* wakeup(&log), with p going on to l.                                      *)
WakeupGoto(p, l) ==
  pc' = [q \in Procs |-> IF q = p THEN l
                         ELSE IF pc[q] = "begin_sleep" THEN "begin" ELSE pc[q]]

(* bread(): a locked buffer with the contents of the block.                 *)
BufData(b) == IF cache[b] = NoBuf THEN home[b] ELSE cache[b]

-----------------------------------------------------------------------------
Call(p) ==
  /\ pc[p] = "idle"
  /\ ops < MaxOps /\ ops' = ops + 1
  /\ written' = [written EXCEPT ![p] = {}]
  /\ Goto(p, "begin")
  /\ UNCHANGED <<disk, cache, pinned, holder, lh, outstanding, committing, tail, crashes>>

(* Mutant: the space the new call may use is not counted.                   *)
NoRoomLate == Len(lh) + outstanding * MAXOPBLOCKS > LOGSIZE

(* "this op might exhaust log space"                                        *)
NoRoom == Len(lh) + (outstanding + 1) * MAXOPBLOCKS > LOGSIZE

(* begin_op(), under log.lock.                                              *)
BeginOp(p) ==
  /\ pc[p] = "begin"
  /\ IF committing \/ NoRoom
     THEN Goto(p, "begin_sleep") /\ UNCHANGED outstanding
     ELSE Goto(p, "op") /\ outstanding' = outstanding + 1
  /\ UNCHANGED <<disk, cache, pinned, holder, lh, committing, tail, written, ops, crashes>>

(* bp = bread(...); modify bp->data[]                                       *)
Modify(p, b, v) ==
  /\ pc[p] = "op"
  /\ holder[b] = None
  /\ b \in written[p] \/ Cardinality(written[p]) < OPBLOCKS
  /\ holder' = [holder EXCEPT ![b] = p]
  /\ cache' = [cache EXCEPT ![b] = v]
  /\ written' = [written EXCEPT ![p] = @ \cup {b}]
  /\ Goto(p, "log_write")
  /\ UNCHANGED <<disk, pinned, lh, outstanding, committing, tail, ops, crashes>>

TooBig == Len(lh) >= LOGSIZE \/ Len(lh) >= NLOG - 1

Logs(b) == \E i \in DOMAIN lh : lh[i] = b

(* Mutant: the buffer is not pinned.                                        *)
LogWriteUnpinned(p, b) ==
  /\ pc[p] = "log_write" /\ holder[b] = p
  /\ IF TooBig \/ outstanding < 1
     THEN Goto(p, "panic") /\ UNCHANGED <<lh, pinned, holder>>
     ELSE /\ lh' = IF Logs(b) THEN lh ELSE Append(lh, b)
          /\ holder' = [holder EXCEPT ![b] = None]
          /\ Goto(p, "op")
          /\ UNCHANGED pinned
  /\ UNCHANGED <<disk, cache, outstanding, committing, tail, written, ops, crashes>>

(* log_write(bp); brelse(bp)                                                *)
LogWrite(p, b) ==
  /\ pc[p] = "log_write" /\ holder[b] = p
  /\ IF TooBig \/ outstanding < 1
     THEN Goto(p, "panic") /\ UNCHANGED <<lh, pinned, holder>>
     ELSE /\ lh' = IF Logs(b) THEN lh ELSE Append(lh, b)
          /\ pinned' = pinned \cup {b}
          /\ holder' = [holder EXCEPT ![b] = None]
          /\ Goto(p, "op")
  /\ UNCHANGED <<disk, cache, outstanding, committing, tail, written, ops, crashes>>

(* bget() recycles a buffer nobody holds or has pinned.                     *)
Recycle(b) ==
  /\ cache[b] # NoBuf
  /\ b \notin pinned /\ holder[b] = None
  /\ cache' = [cache EXCEPT ![b] = NoBuf]
  /\ UNCHANGED <<disk, pinned, holder, lh, outstanding, committing, pc, tail, written, ops, crashes>>

(* end_op(), up to release(&log.lock) and the test of do_commit.            *)
EndOp(p) ==
  /\ pc[p] = "op"
  /\ outstanding' = outstanding - 1
  /\ IF committing
     THEN Goto(p, "panic") /\ UNCHANGED committing
     ELSE IF outstanding = 1
          THEN committing' = TRUE /\ Goto(p, IF lh = <<>> THEN "commit_end" ELSE "write_log")
          ELSE WakeupGoto(p, "idle") /\ UNCHANGED committing
  /\ tail' = [tail EXCEPT ![p] = 1]
  /\ UNCHANGED <<disk, cache, pinned, holder, lh, written, ops, crashes>>

-----------------------------------------------------------------------------
(* The loops of commit() go on to the next entry, or to label l.            *)
Advance(p, l) ==
  IF tail[p] < Len(lh)
  THEN tail' = [tail EXCEPT ![p] = @ + 1] /\ UNCHANGED pc
  ELSE tail' = [tail EXCEPT ![p] = 1] /\ Goto(p, l)

(* write_log(): one block from the cache to the log.                        *)
WriteLog(p) ==
  /\ pc[p] = "write_log"
  /\ holder[lh[tail[p]]] = None
  /\ logged' = [logged EXCEPT ![tail[p]] = BufData(lh[tail[p]])]
  /\ Advance(p, "write_head")
  /\ UNCHANGED <<home, header, cache, pinned, holder, lh, outstanding, committing, written, ops,
                 crashes>>

(* write_head(): "This is the true point at which the current transaction   *)
(* commits."                                                                *)
WriteHead(p) ==
  /\ pc[p] = "write_head"
  /\ header' = lh
  /\ Goto(p, "install")
  /\ UNCHANGED <<home, logged, cache, pinned, holder, lh, outstanding, committing, tail, written,
                 ops, crashes>>

(* install_trans(0): one block from the log to its home; unpin.             *)
Install(p) ==
  LET b == lh[tail[p]] IN
  /\ pc[p] = "install"
  /\ holder[b] = None
  /\ home' = [home EXCEPT ![b] = logged[tail[p]]]
  /\ cache' = [cache EXCEPT ![b] = logged[tail[p]]]
  /\ pinned' = pinned \ {b}
  /\ Advance(p, "erase")
  /\ UNCHANGED <<logged, header, holder, lh, outstanding, committing, written, ops, crashes>>

(* log.lh.n = 0; write_head()                                               *)
Erase(p) ==
  /\ pc[p] = "erase"
  /\ lh' = <<>>
  /\ header' = <<>>
  /\ Goto(p, "commit_end")
  /\ UNCHANGED <<home, logged, cache, pinned, holder, outstanding, committing, tail, written, ops,
                 crashes>>

(* Mutant: nobody is told that the commit is over.                          *)
CommitEndSilent(p) ==
  /\ pc[p] = "commit_end"
  /\ committing' = FALSE
  /\ Goto(p, "idle")
  /\ UNCHANGED <<disk, cache, pinned, holder, lh, outstanding, tail, written, ops, crashes>>

(* The end of end_op().                                                     *)
CommitEnd(p) ==
  /\ pc[p] = "commit_end"
  /\ committing' = FALSE
  /\ WakeupGoto(p, "idle")
  /\ UNCHANGED <<disk, cache, pinned, holder, lh, outstanding, tail, written, ops, crashes>>

-----------------------------------------------------------------------------
(* What a crash can leave of the disk: the block being written may be junk. *)
TornLog(l) ==
  \/ l = logged
  \/ \E p \in Procs : pc[p] = "write_log" /\ l = [logged EXCEPT ![tail[p]] = Torn]

TornHome(h) ==
  \/ h = home
  \/ \E p \in Procs :
       pc[p] \in {"install", "recover"} /\ h = [home EXCEPT ![lh[tail[p]]] = Torn]

(* Power is lost, and the machine boots again.                              *)
Crash ==
  /\ crashes < MaxCrashes /\ crashes' = crashes + 1
  /\ logged' \in [1 .. LOGSIZE -> Vals \cup {Torn}] /\ TornLog(logged')
  /\ home' \in [Blocks -> Vals \cup {Torn}] /\ TornHome(home')
  /\ cache' = [b \in Blocks |-> NoBuf]
  /\ pinned' = {}
  /\ holder' = [b \in Blocks |-> None]
  /\ lh' = <<>> /\ outstanding' = 0 /\ committing' = FALSE
  /\ pc' = [p \in Procs |-> IF p = FIRST THEN "read_head" ELSE "off"]
  /\ tail' = [p \in Procs |-> 1]
  /\ written' = [p \in Procs |-> {}]
  /\ UNCHANGED <<header, ops>>

(* Mutant: log.lh.n is cleared before install_trans(1).                     *)
ReadHeadCleared(p) ==
  /\ pc[p] = "read_head"
  /\ lh' = <<>>
  /\ Goto(p, "recover_erase")
  /\ UNCHANGED <<disk, cache, pinned, holder, outstanding, committing, tail, written, ops, crashes>>

(* recover_from_log(): read_head(), install_trans(1), and erase.            *)
ReadHead(p) ==
  /\ pc[p] = "read_head"
  /\ lh' = header
  /\ Goto(p, IF header = <<>> THEN "recover_erase" ELSE "recover")
  /\ UNCHANGED <<disk, cache, pinned, holder, outstanding, committing, tail, written, ops, crashes>>

(* install_trans(1): one block from the log to its home.                    *)
Recover(p) ==
  LET b == lh[tail[p]] IN
  /\ pc[p] = "recover"
  /\ home' = [home EXCEPT ![b] = logged[tail[p]]]
  /\ cache' = [cache EXCEPT ![b] = logged[tail[p]]]
  /\ Advance(p, "recover_erase")
  /\ UNCHANGED <<logged, header, pinned, holder, lh, outstanding, committing, written, ops, crashes>>

(* The header is cleared, and the file system is open to everyone.          *)
RecoverErase(p) ==
  /\ pc[p] = "recover_erase"
  /\ lh' = <<>>
  /\ header' = <<>>
  /\ pc' = [q \in Procs |-> "idle"]
  /\ UNCHANGED <<home, logged, cache, pinned, holder, outstanding, committing, tail, written, ops,
                 crashes>>

-----------------------------------------------------------------------------
Step(p) ==
  \/ BeginOp(p) \/ EndOp(p) \/ \E b \in Blocks : LogWrite(p, b)
  \/ WriteLog(p) \/ WriteHead(p) \/ Install(p) \/ Erase(p) \/ CommitEnd(p)
  \/ ReadHead(p) \/ Recover(p) \/ RecoverErase(p)

Next ==
  \/ \E p \in Procs : Step(p) \/ Call(p) \/ \E b \in Blocks, v \in Vals : Modify(p, b, v)
  \/ \E b \in Blocks : Recycle(b)
  \/ Crash

Spec == Init /\ [][Next]_vars

(* A process in the kernel goes on; no call writes for ever.                *)
FairSpec == Spec /\ \A p \in Procs : WF_vars(Step(p)) /\ SF_vars(EndOp(p))

-----------------------------------------------------------------------------
(* The calls between begin_op() and end_op().                               *)
InOp(p) == pc[p] \in {"op", "log_write"}

(* begin_op() admits only as many calls as the log has room for: none of    *)
(* them meets the panics of log_write() and end_op().                       *)
NoPanic == \A p \in Procs : pc[p] # "panic"

(* A buffer that is neither locked nor pinned holds what the disk holds, so *)
(* that it can be recycled at any moment.                                   *)
CleanBuffers ==
  \A b \in Blocks :
    cache[b] # NoBuf /\ b \notin pinned /\ holder[b] = None => cache[b] = home[b]

(* The disk as calls see it.  While the machine is down or recovering there *)
(* is nobody to see it, and it is what recovery will make of it.            *)
Recovering == \E p \in Procs : pc[p] \in RecoveryLabels

InHeader(b) == \E i \in DOMAIN header : header[i] = b

Durable ==
  [b \in Blocks |-> IF InHeader(b)
                    THEN logged[CHOOSE i \in DOMAIN header : header[i] = b] ELSE home[b]]

Active == {p \in Procs : InOp(p)}

Seen == IF Recovering THEN Durable ELSE [b \in Blocks |-> BufData(b)]

ADisk == INSTANCE AbstractDisk
           WITH durable <- Durable, memory <- Seen, active <- Active

(* The log implements a disk whose calls commit together and survive any    *)
(* crash together or not at all.                                            *)
CrashAtomic == ADisk!DSpec

(* Whoever waits in begin_op() gets in, unless the machine crashes: every   *)
(* end of a call or of a commit tells the sleepers there may be room.       *)
BeginReturns ==
  \A p \in Procs : pc[p] \in {"begin", "begin_sleep"} ~> pc[p] \in {"op", "off", "read_head"}

-----------------------------------------------------------------------------
(* The invariants the proofs of module LogProofs rest on.                   *)
CommitLabels == {"write_log", "write_head", "install", "erase", "commit_end"}
LogLabels == RecoveryLabels \cup CommitLabels \cup
  {"off", "idle", "begin", "begin_sleep", "op", "log_write", "panic"}

TypeOK ==
  /\ home \in [Blocks -> Vals \cup {Torn}]
  /\ logged \in [1 .. LOGSIZE -> Vals \cup {Torn}]
  /\ header \in Seq(Blocks) /\ lh \in Seq(Blocks)
  /\ cache \in [Blocks -> Vals \cup {NoBuf}]
  /\ pinned \subseteq Blocks
  /\ holder \in [Blocks -> Procs \cup {None}]
  /\ outstanding \in Nat /\ committing \in BOOLEAN
  /\ pc \in [Procs -> LogLabels]
  /\ tail \in [Procs -> Nat]
  /\ written \in [Procs -> SUBSET Blocks]
  /\ ops \in Nat /\ crashes \in Nat

Commits(p) == pc[p] \in CommitLabels

(* A call that log.outstanding counts: one that met a panic never ends.     *)
Counted == {p \in Procs : pc[p] \in {"op", "log_write", "panic"}}

(* Calls and the commit exclude each other, there is one commit at a time,  *)
(* and only the first process runs while the disk is recovered.             *)
PhasesOK ==
  /\ outstanding = Cardinality(Counted)
  /\ \A p \in Procs : Commits(p) => committing /\ Counted = {}
  /\ \A p, q \in Procs : Commits(p) /\ Commits(q) => p = q
  /\ committing => \E p \in Procs : Commits(p)
  /\ Recovering => /\ pc[FIRST] \in RecoveryLabels
                   /\ \A p \in Procs \ {FIRST} : pc[p] = "off"
  /\ \A p \in Procs : pc[p] = "off" => Recovering

(* Only the process that modifies a buffer has it locked.                   *)
HoldersOK ==
  \A b \in Blocks : holder[b] # None =>
    /\ pc[holder[b]] \in {"log_write", "panic"}
    /\ b \in written[holder[b]]
    /\ cache[b] # NoBuf
    /\ \A c \in Blocks : holder[c] = holder[b] => c = b

(* No block is twice in the log, and a loop over the log stays inside.      *)
LogOK ==
  /\ Len(lh) <= LOGSIZE /\ Len(header) <= LOGSIZE
  /\ \A i, j \in DOMAIN lh : lh[i] = lh[j] => i = j
  /\ \A i, j \in DOMAIN header : header[i] = header[j] => i = j
  /\ \A p \in Procs : pc[p] \in {"write_log", "write_head", "install", "recover"} =>
                       tail[p] \in DOMAIN lh
  /\ \A p \in Procs : pc[p] \in {"write_head", "read_head"} => tail[p] = 1
  /\ \A p \in Procs : pc[p] \in {"read_head", "commit_end"} => lh = <<>>
  /\ \A p \in Procs : pc[p] \in {"idle", "begin", "begin_sleep"} /\ ~committing /\ Counted = {}
                      => lh = <<>>

(* The disk has a header exactly from the point of commit to the end of the *)
(* installation, and it is then the log in memory, once that has been read. *)
HeaderOK ==
  /\ \A p \in Procs : pc[p] \in {"install", "erase", "recover", "recover_erase"} => header = lh
  /\ header # <<>> =>
       \E p \in Procs : pc[p] \in {"install", "erase"} \cup RecoveryLabels

(* The entries of the log are pinned until they are installed.              *)
PinsOK ==
  /\ \A b \in pinned : Logs(b) /\ cache[b] # NoBuf
  /\ \A i \in DOMAIN lh :
       lh[i] \in pinned <=>
         /\ ~Recovering
         /\ \A p \in Procs : pc[p] # "erase" /\ (pc[p] = "install" => tail[p] <= i)

(* What the header names is whole in the log, and everything else is whole  *)
(* in its home.                                                             *)
DiskWhole ==
  /\ \A i \in DOMAIN header : logged[i] \in Vals
  /\ \A b \in Blocks : home[b] \in Vals \/ InHeader(b)

(* How far each loop over the log has copied.                               *)
CopiesOK ==
  \A p \in Procs : \A i \in DOMAIN lh :
    /\ pc[p] = "write_log" /\ i < tail[p] => logged[i] = cache[lh[i]]
    /\ pc[p] = "write_head" => logged[i] = cache[lh[i]]
    /\ pc[p] = "install" /\ tail[p] <= i => logged[i] = cache[lh[i]]
    /\ pc[p] \in {"install", "recover"} /\ i < tail[p] => home[lh[i]] = logged[i]
    /\ pc[p] \in {"erase", "recover_erase"} => home[lh[i]] = logged[i]

IndInv == /\ TypeOK /\ PhasesOK /\ HoldersOK /\ LogOK /\ HeaderOK /\ PinsOK
          /\ DiskWhole /\ CopiesOK /\ CleanBuffers

(* A call writes one block less than it may, and the log on disk is large   *)
(* enough: mkfs.c makes it LOGSIZE blocks, with MAXOPBLOCKS a third of that. *)
LogFits ==
  /\ OPBLOCKS < MAXOPBLOCKS /\ OPBLOCKS < NLOG - 1
  /\ LOGSIZE - 2 * (MAXOPBLOCKS - OPBLOCKS) < NLOG - 1

(* What the calls in progress have in the log.                              *)
InLog == {x \in Procs \X Blocks : x[1] \in Counted /\ x[2] \in written[x[1]] /\ Logs(x[2])}

(* The log has room for what the calls in progress may still write; and a   *)
(* call that is alone has the log to itself or came when another was there. *)
RoomOK ==
  /\ \A p \in Procs : Cardinality(written[p]) <= OPBLOCKS
  /\ outstanding > 0 =>
       /\ Len(lh) + outstanding * MAXOPBLOCKS - Cardinality(InLog) <= LOGSIZE
       /\ outstanding = 1 =>
            \/ Len(lh) + MAXOPBLOCKS - Cardinality(InLog) <= LOGSIZE - (MAXOPBLOCKS - OPBLOCKS)
            \/ \A b \in Blocks, p \in Counted : Logs(b) => b \in written[p]

SpaceInv == RoomOK /\ NoPanic
=============================================================================
