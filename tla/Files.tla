--------------------------------- MODULE Files ---------------------------------
(***************************************************************************)
(* Open files of xv6: descriptors (kernel/sysfile.c), the table of open     *)
(* files with its reference counts (kernel/file.c), and pipes               *)
(* (kernel/pipe.c), with what fork() and exit() do to them (kernel/proc.c). *)
(*                                                                          *)
(* A step is one critical section: of ftable.lock, or of the lock of a pipe *)
(* up to its release or to the sleep() that gives it up (module SleepWakeup *)
(* shows that no wakeup is lost there).  What a process does to its own     *)
(* descriptors belongs to the step next to it.                              *)
(***************************************************************************)
EXTENDS Integers, Sequences, FiniteSets, FiniteSetsExt

CONSTANTS NPROC, NFILE, NOFILE,
          PipeIds,    \* the pages kalloc() has for pipes
          PIPESIZE,
          CtrMod,     \* nread and nwrite are unsigned, modulo CtrMod (2^32)
          Byte0       \* what a fresh page holds

ASSUME FilesAssumption ==
  /\ NPROC \in Nat \ {0} /\ NFILE \in Nat \ {0} /\ NOFILE \in Nat \ {0}
  /\ PIPESIZE \in Nat \ {0} /\ CtrMod \in Nat
  /\ CtrMod % PIPESIZE = 0 /\ CtrMod > PIPESIZE
  /\ 0 \notin PipeIds /\ Byte0 \in 0 .. 255

Procs == 1 .. NPROC
FileIds == 1 .. NFILE
Fds == 0 .. (NOFILE - 1)
None == 0
Byte == 0 .. 255

VARIABLES ofile,     \* ofile[p][fd]: p->ofile[fd]
          file,      \* file[f]: ftable.file[f]
          pipe,      \* pipe[i]: the struct pipe in page i; free or not
          pc,        \* pc[p]: where p is
          fcur,      \* fcur[p]: the file its read, write or pipe call is about
          cnt,       \* cnt[p]: the bytes its read asks for
          out, in,   \* out[p], in[p]: its buffer: still to write, read
          ret,       \* ret[p]: what its last call returned
          pfd,       \* pfd[p]: the two descriptors of its last pipe()
          todo,      \* todo[p]: the files its close, pipe or exit has still to close
          pclose,    \* pclose[p]: the pipe end its fileclose() goes on to close
          after,     \* after[p]: where p goes when all that is closed
          killed

callVars == <<fcur, cnt, out, in, ret, pfd>>
closeVars == <<todo, pclose, after>>
fileVars == <<ofile, file, pipe, pc, fcur, cnt, out, in, ret, pfd, todo, pclose, after, killed>>

NoFile == [ref |-> 0, type |-> "NONE", pipe |-> None, writable |-> FALSE]
NoPipe == [live |-> FALSE, data |-> [k \in 0 .. (PIPESIZE - 1) |-> Byte0],
           nread |-> 0, nwrite |-> 0, readopen |-> FALSE, writeopen |-> FALSE,
           cut |-> FALSE]   \* cut: ghost, a killed writer has left bytes and woken nobody
NoEnd == [pipe |-> None, writable |-> FALSE]

Goto(p, l) == pc' = [pc EXCEPT ![p] = l]
Return(p, r) == ret' = [ret EXCEPT ![p] = r]
InUser(p) == pc[p] = "user" /\ ~killed[p]

-----------------------------------------------------------------------------
(* file.c and fdalloc(): the first free entry.                              *)
FreeFiles == {f \in FileIds : file[f].ref = 0}
FreeFds(p) == {fd \in Fds : ofile[p][fd] = None}

(* argfd(): the descriptor names an open file.                              *)
IsOpen(p, fd) == ofile[p][fd] # None

(* Who refers to f: descriptors, calls that have it still to close, and     *)
(* pipe() calls that have got it and no page yet.  f->ref must be their     *)
(* number.                                                                  *)
FdRefs(f) == {pf \in Procs \X Fds : ofile[pf[1]][pf[2]] = f}
TodoRefs(f) == {pk \in Procs \X (1 .. 2 * NOFILE) :
                  pk[2] \in DOMAIN todo[pk[1]] /\ todo[pk[1]][pk[2]] = f}
FreshRefs(f) == {p \in Procs : pc[p] = "pipe" /\ fcur[p] = f}

Holders(f) == Cardinality(FdRefs(f)) + Cardinality(TodoRefs(f)) + Cardinality(FreshRefs(f))

-----------------------------------------------------------------------------
(* pipe.c on one pipe.                                                      *)
Count(b) == (b.nwrite - b.nread + CtrMod) % CtrMod
Full(b) == b.nwrite = (b.nread + PIPESIZE) % CtrMod
Empty(b) == b.nread = b.nwrite

(* The bytes in the ring, oldest first.                                     *)
Contents(b) == [k \in 1 .. Count(b) |-> b.data[((b.nread + k - 1) % CtrMod) % PIPESIZE]]

(* pi->data[pi->nwrite++ % PIPESIZE] = ch, for the bytes of s.              *)
PutBytes(b, s) ==
  [b EXCEPT !.data = [k \in DOMAIN @ |->
                        LET js == {j \in 1 .. Len(s) : ((b.nwrite + j - 1) % CtrMod) % PIPESIZE = k}
                        IN  IF js = {} THEN @[k] ELSE s[Max(js)]],
            !.nwrite = (@ + Len(s)) % CtrMod]

TakeBytes(b, k) == [b EXCEPT !.nread = (@ + k) % CtrMod]

(* wakeup(&pi->nread) and wakeup(&pi->nwrite), with p going on to l: a      *)
(* sleeper goes back to its test.                                           *)
Readers(i) == {q \in Procs : pc[q] = "rsleep" /\ file[fcur[q]].pipe = i}
Writers(i) == {q \in Procs : pc[q] = "wsleep" /\ file[fcur[q]].pipe = i}

WakeGoto(S, p, l) ==
  pc' = [q \in Procs |-> IF q = p THEN l
                         ELSE IF q \notin S THEN pc[q]
                         ELSE IF pc[q] = "rsleep" THEN "read" ELSE "write"]

-----------------------------------------------------------------------------
(* sys_pipe(): pipealloc()'s first filealloc().                             *)
SysPipe(p) ==
  /\ InUser(p)
  /\ IF FreeFiles = {}
     THEN Return(p, -1) /\ UNCHANGED <<file, pc, fcur>>
     ELSE /\ file' = [file EXCEPT ![Min(FreeFiles)].ref = 1]
          /\ fcur' = [fcur EXCEPT ![p] = Min(FreeFiles)]
          /\ Goto(p, "pipe")
          /\ UNCHANGED ret
  /\ UNCHANGED <<ofile, pipe, cnt, out, in, pfd, closeVars, killed>>

(* The files of s are to be closed, and then p goes to l.                   *)
CloseAll(p, s, l) ==
  /\ todo' = [todo EXCEPT ![p] = s]
  /\ after' = [after EXCEPT ![p] = l]
  /\ Goto(p, "closing")
  /\ UNCHANGED pclose

(* pipealloc() finds no second file, or no page.                            *)
PipeNone(p) ==
  /\ pc[p] = "pipe"
  /\ \/ FreeFiles = {} /\ CloseAll(p, <<fcur[p]>>, "user") /\ UNCHANGED file
     \/ /\ FreeFiles # {}
        /\ file' = [file EXCEPT ![Min(FreeFiles)].ref = 1]
        /\ CloseAll(p, <<fcur[p], Min(FreeFiles)>>, "user")
  /\ fcur' = [fcur EXCEPT ![p] = None]
  /\ Return(p, -1)
  /\ UNCHANGED <<ofile, pipe, cnt, out, in, pfd, killed>>

(* Mutant: the write end is forgotten when descriptors run out.             *)
ReadEndOnly(r, w) == <<r>>

(* fileclose(rf); fileclose(wf)                                             *)
EndsToClose(r, w) == <<r, w>>

(* pipealloc() succeeds; sys_pipe() gives both ends descriptors, or closes  *)
(* them when there are no two (or the user's array is at a bad address).    *)
PipeMade(p) ==
  /\ pc[p] = "pipe"
  /\ FreeFiles # {}
  /\ \E i \in PipeIds :
       LET r == fcur[p]
           w == Min(FreeFiles)
           fds == FreeFds(p)
           fd0 == Min(fds)
           fd1 == Min(fds \ {fd0})
           end(b) == [ref |-> 1, type |-> "PIPE", pipe |-> i, writable |-> b]
       IN
       /\ ~pipe[i].live
       /\ pipe' = [pipe EXCEPT ![i] = [@ EXCEPT !.live = TRUE, !.readopen = TRUE, !.writeopen = TRUE,
                                               !.nread = 0, !.nwrite = 0]]
       /\ file' = [file EXCEPT ![r] = end(FALSE), ![w] = end(TRUE)]
       /\ IF Cardinality(fds) >= 2
          THEN /\ ofile' = [ofile EXCEPT ![p] = [@ EXCEPT ![fd0] = r, ![fd1] = w]]
               /\ pfd' = [pfd EXCEPT ![p] = <<fd0, fd1>>]
               /\ Return(p, 0) /\ Goto(p, "user")
               /\ UNCHANGED closeVars
          ELSE /\ CloseAll(p, EndsToClose(r, w), "user") /\ Return(p, -1)
               /\ UNCHANGED <<ofile, pfd>>
  /\ fcur' = [fcur EXCEPT ![p] = None]
  /\ UNCHANGED <<cnt, out, in, killed>>

-----------------------------------------------------------------------------
(* sys_dup(): fdalloc(), then filedup().                                    *)
SysDup(p, fd) ==
  /\ InUser(p) /\ IsOpen(p, fd)
  /\ IF FreeFds(p) = {}
     THEN Return(p, -1) /\ UNCHANGED <<ofile, file>>
     ELSE LET new == Min(FreeFds(p)) IN
          /\ ofile' = [ofile EXCEPT ![p][new] = ofile[p][fd]]
          /\ file' = [file EXCEPT ![ofile[p][fd]].ref = @ + 1]
          /\ Return(p, new)
  /\ UNCHANGED <<pipe, pc, fcur, cnt, out, in, pfd, closeVars, killed>>

(* sys_close(): the descriptor is free, and the file is to be closed.       *)
SysClose(p, fd) ==
  /\ InUser(p) /\ IsOpen(p, fd)
  /\ ofile' = [ofile EXCEPT ![p][fd] = None]
  /\ CloseAll(p, <<ofile[p][fd]>>, "user")
  /\ Return(p, 0)
  /\ UNCHANGED <<file, pipe, fcur, cnt, out, in, pfd, killed>>

(* The open files of p, by descriptor.                                      *)
OpenFiles(p) ==
  LET pos(fd) == Cardinality({e \in Fds : e <= fd /\ IsOpen(p, e)})
  IN  [k \in 1 .. Cardinality({fd \in Fds : IsOpen(p, fd)}) |->
         ofile[p][CHOOSE fd \in Fds : IsOpen(p, fd) /\ pos(fd) = k]]

(* exit(): "Close all open files."                                          *)
Exit(p) ==
  /\ pc[p] = "user"
  /\ CloseAll(p, OpenFiles(p), "zombie")
  /\ ofile' = [ofile EXCEPT ![p] = [fd \in Fds |-> None]]
  /\ UNCHANGED <<file, pipe, callVars, killed>>

(* fork(): the child gets the descriptors and the memory of its parent.     *)
Fork(p, q) ==
  /\ InUser(p) /\ pc[q] = "unborn"
  /\ pc' = [pc EXCEPT ![q] = "user"]
  /\ ofile' = [ofile EXCEPT ![q] = ofile[p]]
  /\ file' = [f \in FileIds |->
                [file[f] EXCEPT !.ref = @ + Cardinality({fd \in Fds : ofile[p][fd] = f})]]
  /\ ret' = [ret EXCEPT ![p] = q, ![q] = 0]
  /\ pfd' = [pfd EXCEPT ![q] = pfd[p]]
  /\ UNCHANGED <<pipe, fcur, cnt, out, in, closeVars, killed>>

(* fileclose() in the critical section of ftable.lock.                      *)
FileClose(p) ==
  LET f == Head(todo[p]) IN
  /\ pc[p] = "closing" /\ pclose[p] = NoEnd
  /\ todo[p] # <<>>
  /\ todo' = [todo EXCEPT ![p] = Tail(@)]
  /\ IF file[f].ref > 1
     THEN file' = [file EXCEPT ![f].ref = @ - 1] /\ UNCHANGED pclose
     ELSE /\ file' = [file EXCEPT ![f] = [@ EXCEPT !.ref = 0, !.type = "NONE"]]
          /\ pclose' = [pclose EXCEPT ![p] = IF file[f].type = "PIPE"
                                            THEN [pipe |-> file[f].pipe, writable |-> file[f].writable]
                                            ELSE NoEnd]
  /\ UNCHANGED <<ofile, pipe, pc, callVars, after, killed>>

(* All files are closed.                                                    *)
CloseDone(p) ==
  /\ pc[p] = "closing" /\ pclose[p] = NoEnd /\ todo[p] = <<>>
  /\ Goto(p, after[p])
  /\ UNCHANGED <<ofile, file, pipe, callVars, closeVars, killed>>

(* Mutant: the last writer to close does not wake the readers.              *)
WakesReadersOnly(i, writable) == IF writable THEN {} ELSE Writers(i)

(* Whom pipeclose() wakes: the other side.                                  *)
CloseWakes(i, writable) == IF writable THEN Readers(i) ELSE Writers(i)

(* pipeclose()                                                              *)
PipeClose(p) ==
  LET i == pclose[p].pipe
      b == IF pclose[p].writable THEN [pipe[i] EXCEPT !.writeopen = FALSE]
                                 ELSE [pipe[i] EXCEPT !.readopen = FALSE]
  IN
  /\ pc[p] = "closing" /\ pclose[p] # NoEnd
  /\ pipe' = [pipe EXCEPT ![i] = IF b.readopen \/ b.writeopen THEN b ELSE NoPipe]
  /\ pclose' = [pclose EXCEPT ![p] = NoEnd]
  /\ WakeGoto(CloseWakes(i, pclose[p].writable), p, "closing")
  /\ UNCHANGED <<ofile, file, callVars, todo, after, killed>>

(* sys_open() of an inode that was found: a file and a descriptor for it,   *)
(* or neither.                                                              *)
SysOpen(p) ==
  /\ InUser(p)
  /\ IF FreeFiles = {}
     THEN Return(p, -1) /\ UNCHANGED <<ofile, file, pc, closeVars>>
     ELSE LET f == Min(FreeFiles) IN
          IF FreeFds(p) = {}
          THEN /\ file' = [file EXCEPT ![f].ref = 1]
               /\ CloseAll(p, <<f>>, "user") /\ Return(p, -1)
               /\ UNCHANGED ofile
          ELSE /\ file' = [file EXCEPT ![f] = [@ EXCEPT !.ref = 1, !.type = "INODE", !.writable = TRUE]]
               /\ ofile' = [ofile EXCEPT ![p][Min(FreeFds(p))] = f]
               /\ Return(p, Min(FreeFds(p)))
               /\ UNCHANGED <<pc, closeVars>>
  /\ UNCHANGED <<pipe, fcur, cnt, out, in, pfd, killed>>

-----------------------------------------------------------------------------
(* sys_read() and sys_write(), fileread() and filewrite(), as far as the    *)
(* tests before piperead() and pipewrite().  A file or device takes all it  *)
(* is given and gives nothing here; modules Fs and Console have them.       *)
SysRead(p, fd, n) ==
  LET f == ofile[p][fd] IN
  /\ InUser(p) /\ IsOpen(p, fd)
  /\ in' = [in EXCEPT ![p] = <<>>]
  /\ IF file[f].type = "PIPE" /\ ~file[f].writable
     THEN /\ fcur' = [fcur EXCEPT ![p] = f]
          /\ cnt' = [cnt EXCEPT ![p] = n]
          /\ Goto(p, "read") /\ UNCHANGED ret
     ELSE /\ Return(p, IF file[f].type = "PIPE" THEN -1 ELSE 0)
          /\ UNCHANGED <<fcur, cnt, pc>>
  /\ UNCHANGED <<ofile, file, pipe, out, pfd, closeVars, killed>>

SysWrite(p, fd, s) ==
  LET f == ofile[p][fd] IN
  /\ InUser(p) /\ IsOpen(p, fd)
  /\ IF file[f].type = "PIPE" /\ file[f].writable
     THEN /\ fcur' = [fcur EXCEPT ![p] = f]
          /\ cnt' = [cnt EXCEPT ![p] = Len(s)]
          /\ out' = [out EXCEPT ![p] = s]
          /\ Goto(p, "write") /\ UNCHANGED ret
     ELSE /\ Return(p, IF file[f].type = "PIPE" THEN -1 ELSE Len(s))
          /\ UNCHANGED <<fcur, cnt, pc, out>>
  /\ UNCHANGED <<ofile, file, pipe, in, pfd, closeVars, killed>>

-----------------------------------------------------------------------------
(* One critical section of piperead(): to sleep on an empty pipe that is    *)
(* still written to, or what there is, and a wakeup for the writers.        *)
ReadSleep(p) ==
  LET b == pipe[file[fcur[p]].pipe] IN
  /\ pc[p] = "read"
  /\ Empty(b) /\ b.writeopen
  /\ IF killed[p] THEN Goto(p, "user") /\ Return(p, -1)
                  ELSE Goto(p, "rsleep") /\ UNCHANGED ret
  /\ UNCHANGED <<ofile, file, pipe, fcur, cnt, out, in, pfd, closeVars, killed>>

(* The read ends with k bytes for p and n of the pipe's gone.               *)
ReadEnd(p, k, n) ==
  LET i == file[fcur[p]].pipe
      b == pipe[i]
  IN
  /\ ~(Empty(b) /\ b.writeopen)
  /\ pipe' = [pipe EXCEPT ![i] = TakeBytes(b, n)]
  /\ in' = [in EXCEPT ![p] = SubSeq(Contents(b), 1, k)]
  /\ Return(p, k)
  /\ WakeGoto(Writers(i), p, "user")
  /\ UNCHANGED <<ofile, file, fcur, cnt, out, pfd, closeVars, killed>>

Available(p) == Min({cnt[p], Count(pipe[file[fcur[p]].pipe])})

PipeRead(p) == pc[p] = "read" /\ ReadEnd(p, Available(p), Available(p))

(* copyout() fails after k bytes: the next one is gone.                     *)
ReadFault(p) == pc[p] = "read" /\ \E k \in 0 .. (Available(p) - 1) : ReadEnd(p, k, k + 1)

(* One critical section of pipewrite(): k bytes are put into the pipe; then *)
(* the writer sleeps, or its call ends and returns r.                       *)
WriteSome(p, k, wake, l, r) ==
  LET i == file[fcur[p]].pipe
      b == PutBytes(pipe[i], SubSeq(out[p], 1, k))
  IN
  /\ pipe' = [pipe EXCEPT ![i] = [b EXCEPT !.cut = ~wake /\ (@ \/ (l = "user" /\ k > 0))]]
  /\ out' = [out EXCEPT ![p] = SubSeq(@, k + 1, Len(@))]
  /\ WakeGoto(IF wake THEN Readers(i) ELSE {}, p, l)
  /\ ret' = IF l = "user" THEN [ret EXCEPT ![p] = r] ELSE ret
  /\ UNCHANGED <<ofile, file, fcur, cnt, in, pfd, closeVars, killed>>

(* Mutant: one byte more than there is room for.                            *)
RoomAndOne(p) == PIPESIZE + 1 - Count(pipe[file[fcur[p]].pipe])

Room(p) == PIPESIZE - Count(pipe[file[fcur[p]].pipe])

Broken(p) == ~pipe[file[fcur[p]].pipe].readopen

(* Everything fits, or there was nothing to write.                          *)
PipeWrite(p) ==
  /\ pc[p] = "write"
  /\ out[p] = <<>> \/ ~(killed[p] \/ Broken(p))
  /\ Len(out[p]) <= Room(p)
  /\ WriteSome(p, Len(out[p]), TRUE, "user", cnt[p])

(* A full pipe: wakeup(&pi->nread), and sleep().                            *)
WriteSleep(p) ==
  /\ pc[p] = "write"
  /\ ~killed[p] /\ ~Broken(p)
  /\ Len(out[p]) > Room(p)
  /\ WriteSome(p, Room(p), TRUE, "wsleep", 0)

(* Nobody reads any more, or the process is killed: a kill may come after   *)
(* some of the bytes.                                                       *)
WriteBroken(p) ==
  /\ pc[p] = "write"
  /\ out[p] # <<>>
  /\ \/ Broken(p) /\ WriteSome(p, 0, FALSE, "user", -1)
     \/ /\ killed[p]
        /\ \E k \in 0 .. Min({Len(out[p]) - 1, Room(p)}) : WriteSome(p, k, FALSE, "user", -1)

(* copyin() fails: the call ends with the bytes written so far.             *)
WriteFault(p) ==
  /\ pc[p] = "write"
  /\ ~killed[p] /\ ~Broken(p)
  /\ out[p] # <<>>
  /\ \E k \in 0 .. Min({Len(out[p]) - 1, Room(p)}) :
       WriteSome(p, k, TRUE, "user", cnt[p] - Len(out[p]) + k)

(* kill(): the flag, and a wakeup whatever the victim waits for.  It comes  *)
(* too early for a victim that has tested killed() and is not SLEEPING yet  *)
(* (pipe.c:84 and 89, 112 and 116): then nobody is woken.                   *)
Kill(p, q) ==
  /\ InUser(p) /\ pc[q] \notin {"unborn", "zombie"}
  /\ killed' = [killed EXCEPT ![q] = TRUE]
  /\ \E S \in {{}, {q} \cap {r \in Procs : pc[r] \in {"rsleep", "wsleep"}}} : WakeGoto(S, p, pc[p])
  /\ UNCHANGED <<ofile, file, pipe, callVars, closeVars>>

(* freeproc(), for the zombie q: the entry can be used again.               *)
Reap(q) ==
  /\ pc[q] = "zombie"
  /\ pc' = [pc EXCEPT ![q] = "unborn"]
  /\ killed' = [killed EXCEPT ![q] = FALSE]
  /\ UNCHANGED <<ofile, file, pipe, callVars, closeVars>>

-----------------------------------------------------------------------------
(* One process with the console open on its first two descriptors.          *)
FilesInit ==
  /\ ofile = [p \in Procs |-> [fd \in Fds |-> IF p = 1 /\ fd < 2 THEN 1 ELSE None]]
  /\ file = [f \in FileIds |-> IF f = 1
                                THEN [NoFile EXCEPT !.ref = Cardinality({fd \in Fds : fd < 2}),
                                                    !.type = "DEVICE", !.writable = TRUE]
                                ELSE NoFile]
  /\ pipe = [i \in PipeIds |-> NoPipe]
  /\ pc = [p \in Procs |-> IF p = 1 THEN "user" ELSE "unborn"]
  /\ fcur = [p \in Procs |-> None] /\ cnt = [p \in Procs |-> 0]
  /\ out = [p \in Procs |-> <<>>] /\ in = [p \in Procs |-> <<>>]
  /\ ret = [p \in Procs |-> 0] /\ pfd = [p \in Procs |-> <<0, 0>>]
  /\ todo = [p \in Procs |-> <<>>] /\ pclose = [p \in Procs |-> NoEnd]
  /\ after = [p \in Procs |-> "user"]
  /\ killed = [p \in Procs |-> FALSE]

(* What the kernel does for p inside a call.                                *)
KernelStep(p) ==
  \/ PipeNone(p) \/ PipeMade(p) \/ FileClose(p) \/ CloseDone(p) \/ PipeClose(p)
  \/ ReadSleep(p) \/ PipeRead(p) \/ PipeWrite(p) \/ WriteSleep(p) \/ WriteBroken(p)

(* Any call that p may make, on any descriptor, of any length.              *)
FilesCall(p) ==
  \/ SysPipe(p) \/ SysOpen(p) \/ Exit(p)
  \/ \E fd \in Fds :
       \/ SysDup(p, fd) \/ SysClose(p, fd)
       \/ \E n \in Nat : SysRead(p, fd, n)
       \/ \E s \in Seq(Byte) : SysWrite(p, fd, s)
  \/ \E q \in Procs : Fork(p, q) \/ Kill(p, q) \/ Reap(q)

(* Any processes that make any calls.  Module Sh is one such program.       *)
FilesNext == \E p \in Procs : KernelStep(p) \/ FilesCall(p) \/ ReadFault(p) \/ WriteFault(p)

FilesSpec == FilesInit /\ [][FilesNext]_fileVars

-----------------------------------------------------------------------------
(* Every reference is counted, once: a file is freed by the close of its    *)
(* last descriptor and by no other, whichever processes share it; and a     *)
(* pipe end is open while a file, or a close under way, stands for it.      *)
EndsOf(i, w) ==
  {f \in FileIds : file[f].ref > 0 /\ file[f].type = "PIPE" /\ file[f].pipe = i /\ file[f].writable = w}

(* f->ref is the number of references to f.                                 *)
RefsOK == \A f \in FileIds : file[f].ref = Holders(f)

(* readopen and writeopen say whether somebody has that end.                *)
EndsOpen ==
  \A i \in PipeIds : \A w \in BOOLEAN :
    (IF w THEN pipe[i].writeopen ELSE pipe[i].readopen)
      <=> \/ EndsOf(i, w) # {}
          \/ \E p \in Procs : pclose[p] = [pipe |-> i, writable |-> w]

(* Both, in every state.                                                    *)
FilesCounted == RefsOK /\ EndsOpen

(* Nobody sleeps in a pipe with something to do: a reader sleeps only on an *)
(* empty pipe that somebody can still write, a writer only on a full one    *)
(* that somebody can still read.  The one exception is in the code:         *)
(* pipewrite() returns -1 to a process killed in the middle of a write and  *)
(* does not wake the readers of what it wrote.                              *)
NoLostPipeWakeup ==
  \A p \in Procs :
    LET b == pipe[file[fcur[p]].pipe] IN
    /\ pc[p] = "rsleep" => (Empty(b) \/ b.cut) /\ b.writeopen
    /\ pc[p] = "wsleep" => Full(b) /\ b.readopen

(* The ring, its free running counters and the partial writes implement a   *)
(* bounded queue of bytes.                                                  *)
APipe == INSTANCE AbstractPipe
           WITH Cap <- PIPESIZE, queue <- [i \in PipeIds |-> Contents(pipe[i])]

PipeIsQueue == APipe!ASpec

-----------------------------------------------------------------------------
(* The inductive invariant.  It is proved in FilesProofs for FilesSpec.     *)
FilesLabels == {"unborn", "user", "pipe", "closing", "read", "rsleep", "write", "wsleep", "zombie"}

PipeType == [live : BOOLEAN, data : [0 .. (PIPESIZE - 1) -> Byte],
             nread : 0 .. (CtrMod - 1), nwrite : 0 .. (CtrMod - 1),
             readopen : BOOLEAN, writeopen : BOOLEAN, cut : BOOLEAN]

FileType == [ref : Nat, type : {"NONE", "PIPE", "INODE", "DEVICE"},
             pipe : PipeIds \cup {None}, writable : BOOLEAN]

FilesTypeOK ==
  /\ ofile \in [Procs -> [Fds -> FileIds \cup {None}]]
  /\ file \in [FileIds -> FileType]
  /\ pipe \in [PipeIds -> PipeType]
  /\ pc \in [Procs -> FilesLabels]
  /\ fcur \in [Procs -> FileIds \cup {None}]
  /\ cnt \in [Procs -> Nat]
  /\ out \in [Procs -> Seq(Byte)] /\ in \in [Procs -> Seq(Byte)]
  /\ ret \in [Procs -> Int]
  /\ todo \in [Procs -> Seq(FileIds)]
  /\ pclose \in [Procs -> [pipe : PipeIds, writable : BOOLEAN] \cup {NoEnd}]
  /\ after \in [Procs -> {"user", "zombie"}]
  /\ killed \in [Procs -> BOOLEAN]

(* Where a process is says what it has open and what it is closing.         *)
ClosingOK ==
  \A p \in Procs :
    /\ Len(todo[p]) <= 2 * NOFILE
    /\ pc[p] # "closing" => todo[p] = <<>> /\ pclose[p] = NoEnd
    /\ pc[p] \in {"unborn", "zombie"} \/ (pc[p] = "closing" /\ after[p] = "zombie")
         => \A fd \in Fds : ~IsOpen(p, fd)

(* The first file of a pipe() call is that call's alone.                    *)
FreshOK ==
  \A p \in Procs : pc[p] = "pipe" =>
    /\ fcur[p] \in FileIds /\ file[fcur[p]].type = "NONE"
    /\ \A q \in Procs :
         /\ \A fd \in Fds : ofile[q][fd] # fcur[p]
         /\ \A k \in DOMAIN todo[q] : todo[q][k] # fcur[p]
         /\ pc[q] = "pipe" /\ fcur[q] = fcur[p] => q = p

(* A process in piperead() or pipewrite() has that end of the pipe open.    *)
CallsOK ==
  \A p \in Procs : pc[p] \in {"read", "rsleep", "write", "wsleep"} =>
    /\ fcur[p] \in FileIds
    /\ \E fd \in Fds : ofile[p][fd] = fcur[p]
    /\ file[fcur[p]].type = "PIPE"
    /\ file[fcur[p]].writable <=> pc[p] \in {"write", "wsleep"}

(* A file is in use when it has a type, and one file or one close under way *)
(* stands for each end of a pipe.                                           *)
End(i, w) == [pipe |-> i, writable |-> w]

EndsOK ==
  /\ \A f \in FileIds : file[f].ref = 0 => file[f].type = "NONE"
  /\ \A f \in FileIds : file[f].type = "PIPE" => file[f].pipe \in PipeIds
  /\ \A i \in PipeIds, w \in BOOLEAN :
       /\ \A f, g \in EndsOf(i, w) : f = g
       /\ \A p, q \in Procs : pclose[p] = End(i, w) /\ pclose[q] = End(i, w) => p = q
       /\ EndsOf(i, w) # {} => \A p \in Procs : pclose[p] # End(i, w)

(* A pipe has bytes for at most its ring, and a page that is free none.     *)
PipesOK ==
  \A i \in PipeIds :
    /\ Count(pipe[i]) <= PIPESIZE
    /\ pipe[i].live <=> pipe[i].readopen \/ pipe[i].writeopen
    /\ ~pipe[i].live => Empty(pipe[i])

(* What FilesProofs shows to hold initially and after every step.           *)
FilesInv ==
  FilesTypeOK /\ ClosingOK /\ FreshOK /\ CallsOK /\ EndsOK /\ PipesOK /\ FilesCounted /\ NoLostPipeWakeup
=============================================================================
