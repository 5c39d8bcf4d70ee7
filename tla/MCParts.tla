-------------------------------- MODULE MCParts --------------------------------
(***************************************************************************)
(* The smaller parts side by side: the memory tests, the clock on one CPU,  *)
(* pingpong on the semaphores, the shell of lab1 and the tree of lab4.  A   *)
(* behaviour is one of one part; the others stay where they begin.          *)
(***************************************************************************)
EXTENDS MemTests

VARIABLES part,    \* the part that runs
          ticks, tlock, tplock, pstate, tkilled, lastexec, tpc, n, ticks0, cpc, cproc, cscan, cw, calls, early,
          pc, lock, plock, state, chan, wk, killed, value, status, sem, val, ret, pcalls, orphan,
          upc, f, s, turn, pings, pongs,
          bproc, pipe, bearly,
          root, node, inserted

(* Two processes on one CPU, with sleeps of none, some and many ticks.      *)
MCProcs == 1 .. 2
T == INSTANCE Ticks WITH
  NPROC <- 2, NCPU <- 1, Sleeps <- {0, 2, 9}, MaxTicks <- 2, MaxCalls <- 2,
  plock <- tplock, killed <- tkilled, upc <- tpc

(* One pingpong of three rounds.                                            *)
P == INSTANCE PingPong WITH
  NPROC <- 2, MAXSEM <- 2, Locks <- {0, 1}, Chans <- {0, 1}, NoChan <- -1, OpenValues <- {0, 1}, MaxCalls <- 0,
  ForkMayFail <- TRUE, Instances <- 1, Rounds <- 3, calls <- pcalls

(* Sessions with pipelines of up to three commands, with programs that end  *)
(* before they have read everything, and with background pipelines.         *)
MCSessions ==
  {<< <<"echo", "|", "cat", "|", "cat">>, <<"yes", "|", "true">>, <<"exit">>, <<"true">> >>,
   << <<"yes", "|", "cat", "|", "true">> >>,
   << <<"cat", "|", "bad", "<", "f", "|", "true", ">", "f">>, <<"|">> >>,
   << <<"yes", "|", "cat", "<", "no">>, <<"echo", "&", "|", "cat">> >>,
   << <<"echo", "&">>, <<"echo", "|", "cat">>, <<"cd">> >>,
   << <<"cat", "&">>, <<"true">>, <<"cd", "&">>, <<"echo", "|">> >>}
MCPids == 1 .. 5

B == INSTANCE Mybash WITH
  Sessions <- MCSessions, Programs <- {"cat", "echo", "yes", "true"}, Files <- {"f"}, Pids <- MCPids,
  Pipes <- 1 .. 3, Depth <- 3, PipeSize <- 1, proc <- bproc, early <- bearly

(* Every tree of four files and a root directory.                           *)
H == INSTANCE HTree WITH Keys <- 1 .. 4, MaxKeys <- 4

ASSUME PartsAssumption == T!TicksAssumption /\ P!InstancesAssumption /\ P!RoundsAssumption

-----------------------------------------------------------------------------
ticksVars == <<ticks, tlock, tplock, pstate, tkilled, lastexec, tpc, n, ticks0, cpc, cproc, cscan, cw, calls, early>>
ppVars == <<pc, lock, plock, state, chan, wk, killed, value, status, sem, val, ret, pcalls, orphan,
            upc, f, s, turn, pings, pongs>>
bashVars == <<bproc, pipe, bearly>>
treeVars == <<root, node, inserted>>
partVars == <<part, memVars, ticksVars, ppVars, bashVars, treeVars>>

InMemory(A) == part = "memory" /\ A /\ UNCHANGED <<part, ticksVars, ppVars, bashVars, treeVars>>
InClock(A) == part = "clock" /\ A /\ UNCHANGED <<part, memVars, ppVars, bashVars, treeVars>>
InPingPong(A) == part = "pingpong" /\ A /\ UNCHANGED <<part, memVars, ticksVars, bashVars, treeVars>>
InMybash(A) == part = "mybash" /\ A /\ UNCHANGED <<part, memVars, ticksVars, ppVars, treeVars>>
InTree(A) == part = "tree" /\ A /\ UNCHANGED <<part, memVars, ticksVars, ppVars, bashVars>>

FirstScript == todo[1] = CHOOSE t \in MemScripts : TRUE
FirstSession == bproc[1].script = B!Main(CHOOSE l \in MCSessions : TRUE)

PartsInit ==
  /\ MemInit /\ T!Init /\ P!PPInit /\ B!Init /\ H!Init
  /\ \/ part = "memory" /\ FirstSession
     \/ part = "mybash" /\ FirstScript
     \/ part \in {"clock", "pingpong", "tree"} /\ FirstScript /\ FirstSession

PartsNext ==
  \/ InMemory(MemNext) \/ InClock(T!Next) \/ InPingPong(P!PPNext) \/ InMybash(B!Next) \/ InTree(H!Next)

(* The fairness of the specifications.                                      *)
PartsSpec ==
  /\ PartsInit /\ [][PartsNext]_partVars
  /\ SF_partVars(InClock(T!SchedLoop(1))) /\ WF_partVars(InClock(T!Scheduler(1)))
  /\ WF_partVars(InClock(T!Timer(1)))
  /\ \A p \in MCProcs : SF_partVars(InClock(cproc[1] = p /\ T!SleepStep(1)))
  /\ \A p \in MCProcs : WF_partVars(InPingPong((P!UserStep(p) \/ P!SysStep(p)) /\ UNCHANGED pcalls))
  /\ \A p \in MCPids : WF_partVars(InMybash(B!Step(p)))

-----------------------------------------------------------------------------
(* The properties of the parts.  See there.                                 *)
SleepsLongEnough == T!SleepsLongEnough
SleeperReturns == T!SleeperReturns
Terminates == part = "pingpong" => P!Terminates
ForegroundAwaited == B!ForegroundAwaited
ShellReturns == part = "mybash" => B!ShellReturns
SizesCount == H!SizesCount
ImplementsTree == H!ImplementsTree
================================================================================
