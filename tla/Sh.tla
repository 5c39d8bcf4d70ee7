---------------------------------- MODULE Sh ----------------------------------
(***************************************************************************)
(* user/sh.c on the open files and pipes of the kernel: the parser, and     *)
(* runcmd() as the system calls it makes.  A process executes a script, the *)
(* list of the calls it has still to make; runcmd() of a command tree is a  *)
(* script, and so are the programs echo and cat.  Beside the shell, the     *)
(* model has one process that makes any calls in any order (script Free).   *)
(***************************************************************************)
EXTENDS Files, SequencesExt

CONSTANTS Lines,      \* the lines typed, as sequences of tokens
          MAXARGS,
          Msgs,       \* what echo and the free processes write
          Lens,       \* how much a read asks for
          MaxCalls    \* bound: calls of the free processes

VARIABLES script,   \* script[p]: the calls p has still to make
          parent,   \* parent[p]: p->parent; None is init
          calls

vars == <<fileVars, script, parent, calls>>

-----------------------------------------------------------------------------
(* The parser.  gettoken() and peek() give one token at a time; a line is   *)
(* the sequence of its tokens, a word being any token that is no symbol.    *)
Symbols == {"|", "(", ")", ";", "&", "<", ">", ">>"}

(* A parser takes the rest of the line and returns a tree and the new rest, *)
(* or panics.                                                               *)
Panic == [ok |-> FALSE, cmd |-> [type |-> "NULL"], rest |-> <<>>]
Parsed(c, r) == [ok |-> TRUE, cmd |-> c, rest |-> r]

Peek(r, toks) == r # <<>> /\ Head(r) \in toks
IsWord(r) == r # <<>> /\ Head(r) \notin Symbols

RedirFd(tok) == IF tok = "<" THEN 0 ELSE 1

RECURSIVE ParseRedirs(_, _), ParseArgs(_, _, _), ParseExec(_), ParsePipe(_), ParseLine(_), Backs(_, _)

ParseRedirs(c, r) ==
  IF ~Peek(r, {"<", ">", ">>"}) THEN Parsed(c, r)
  ELSE IF ~IsWord(Tail(r)) THEN Panic
  ELSE ParseRedirs([type |-> "REDIR", cmd |-> c, file |-> r[2], fd |-> RedirFd(r[1])],
                   SubSeq(r, 3, Len(r)))

(* The argument loop of parseexec(); the redirections wrap the command with *)
(* all its arguments, because the tree points to it.                        *)
RECURSIVE AddWord(_, _)
AddWord(c, w) ==
  IF c.type = "EXEC" THEN [c EXCEPT !.argv = Append(@, w)]
  ELSE [c EXCEPT !.cmd = AddWord(@, w)]

ParseArgs(c, r, argc) ==
  IF r = <<>> \/ Peek(r, {"|", ")", "&", ";"}) THEN Parsed(c, r)
  ELSE IF ~IsWord(r) \/ argc + 1 >= MAXARGS THEN Panic
  ELSE LET d == ParseRedirs(AddWord(c, Head(r)), Tail(r))
       IN  IF d.ok THEN ParseArgs(d.cmd, d.rest, argc + 1) ELSE Panic

(* parseexec(), and parseblock() for a line in parentheses.                 *)
ParseExec(r) ==
  IF Peek(r, {"("})
  THEN LET d == ParseLine(Tail(r))
       IN  IF d.ok /\ Peek(d.rest, {")"}) THEN ParseRedirs(d.cmd, Tail(d.rest)) ELSE Panic
  ELSE LET d == ParseRedirs([type |-> "EXEC", argv |-> <<>>], r)
       IN  IF d.ok THEN ParseArgs(d.cmd, d.rest, 0) ELSE Panic

ParsePipe(r) ==
  LET d == ParseExec(r) IN
  IF ~d.ok \/ ~Peek(d.rest, {"|"}) THEN d
  ELSE LET e == ParsePipe(Tail(d.rest))
       IN  IF e.ok THEN Parsed([type |-> "PIPE", left |-> d.cmd, right |-> e.cmd], e.rest) ELSE Panic

Backs(c, r) ==
  IF Peek(r, {"&"}) THEN Backs([type |-> "BACK", cmd |-> c], Tail(r)) ELSE Parsed(c, r)

ParseLine(r) ==
  LET d == ParsePipe(r)
      b == Backs(d.cmd, d.rest)
  IN
  IF ~d.ok THEN Panic
  ELSE IF ~Peek(b.rest, {";"}) THEN b
  ELSE LET e == ParseLine(Tail(b.rest))
       IN  IF e.ok THEN Parsed([type |-> "LIST", left |-> b.cmd, right |-> e.cmd], e.rest) ELSE Panic

(* parsecmd(): leftovers are a syntax error.                                *)
ParseCmd(line) == LET d == ParseLine(line) IN IF d.ok /\ d.rest = <<>> THEN d ELSE Panic

-----------------------------------------------------------------------------
(* runcmd() as a script.  p[0] and p[1] are the ends of the process's last  *)
(* pipe().                                                                  *)
Do(what) == [do |-> what]
Close(fd) == [do |-> "close", fd |-> fd]
CloseP(k) == [do |-> "closep", end |-> k]
DupP(k) == [do |-> "dupp", end |-> k]
ForkRun(s) == [do |-> "fork", child |-> s]

(* Mutant: the shell keeps the write end of the pipe open while it waits.   *)
ClosePipeKeepWrite == <<CloseP(1)>>

(* close(p[0]); close(p[1]) in the process that made the pipe.              *)
ClosePipe == <<CloseP(1), CloseP(2)>>

(* The left and the right command of a pipe.                                *)
LeftEnd == <<Close(1), DupP(2), CloseP(1), CloseP(2)>>
RightEnd == <<Close(0), DupP(1), CloseP(1), CloseP(2)>>

RECURSIVE RunCmd(_)
RunCmd(c) ==
  CASE c.type = "EXEC" ->
         IF c.argv = <<>> THEN <<Do("exit")>> ELSE <<[do |-> "exec", prog |-> c.argv[1]], Do("exit")>>
    [] c.type = "REDIR" -> <<Close(c.fd), Do("open"), Do("check")>> \o RunCmd(c.cmd)
    [] c.type = "LIST" -> <<ForkRun(RunCmd(c.left)), Do("wait")>> \o RunCmd(c.right)
    [] c.type = "PIPE" ->
         <<Do("pipe"), Do("check"), ForkRun(LeftEnd \o RunCmd(c.left)),
           ForkRun(RightEnd \o RunCmd(c.right))>>
         \o ClosePipe \o <<Do("wait"), Do("wait"), Do("exit")>>
    [] c.type = "BACK" -> <<ForkRun(RunCmd(c.cmd)), Do("exit")>>
    [] OTHER -> <<Do("exit")>>

(* main(): "cd" is the shell's own; for any other line a child parses and   *)
(* runs it (a panic() of the parser is its exit), and the shell waits.      *)
Main(line) ==
  LET d == ParseCmd(line)
  IN  IF Peek(line, {"cd"}) THEN <<Do("prompt")>>
      ELSE <<ForkRun(IF d.ok THEN RunCmd(d.cmd) ELSE <<Do("exit")>>), Do("wait"), Do("prompt")>>

(* The programs: user/echo.c writes, user/cat.c copies until the end of its *)
(* input or an error.                                                       *)
Program(prog, m) ==
  CASE prog = "echo" -> <<[do |-> "echo", msg |-> m], Do("exit")>>
    [] prog = "cat" -> <<Do("cat")>>
    [] OTHER -> <<>>

Free == <<Do("free")>>

-----------------------------------------------------------------------------
Doing(p, what) == InUser(p) /\ script[p] # <<>> /\ Head(script[p]).do = what
Continue(p, s) == script' = [script EXCEPT ![p] = s]
Advance(p) == Continue(p, Tail(script[p]))

Simple(p) ==
  /\ \/ Doing(p, "pipe") /\ SysPipe(p)
     \/ Doing(p, "open") /\ SysOpen(p)
     \/ Doing(p, "close") /\ SysClose(p, Head(script[p]).fd)
     \/ Doing(p, "closep") /\ SysClose(p, pfd[p][Head(script[p]).end])
     \/ Doing(p, "dupp") /\ SysDup(p, pfd[p][Head(script[p]).end])
     \/ Doing(p, "echo") /\ SysWrite(p, 1, Head(script[p]).msg)
  /\ Advance(p)
  /\ UNCHANGED <<parent, calls>>

(* if(pipe(p) < 0) panic("pipe"), and the same for open().                  *)
Check(p) ==
  /\ Doing(p, "check")
  /\ Continue(p, IF ret[p] < 0 THEN <<Do("exit")>> ELSE Tail(script[p]))
  /\ UNCHANGED <<fileVars, parent, calls>>

(* exec(): the program, or the message that it failed and exit(0).          *)
Exec(p) ==
  /\ Doing(p, "exec")
  /\ \E m \in Msgs :
       Continue(p, Program(Head(script[p]).prog, m) \o Tail(script[p]))
  /\ UNCHANGED <<fileVars, parent, calls>>

(* fork1(): a child, or panic("fork") when there is no entry for one.       *)
Fork1(p) ==
  /\ Doing(p, "fork")
  /\ LET free == {q \in Procs : pc[q] = "unborn"} IN
     IF free = {}
     THEN Continue(p, <<Do("exit")>>) /\ UNCHANGED <<fileVars, parent>>
     ELSE /\ Fork(p, Min(free))
          /\ script' = [script EXCEPT ![p] = Tail(@), ![Min(free)] = Head(script[p]).child]
          /\ parent' = [parent EXCEPT ![Min(free)] = p]
  /\ UNCHANGED calls

Cat(p) ==
  /\ \/ Doing(p, "cat") /\ \E n \in Lens : SysRead(p, 0, n) /\ Continue(p, <<Do("cat_write")>>)
     \/ /\ Doing(p, "cat_write")
        /\ IF ret[p] > 0
           THEN SysWrite(p, 1, in[p]) /\ Continue(p, <<Do("cat_check")>>)
           ELSE Continue(p, <<Do("exit")>>) /\ UNCHANGED fileVars
     \/ /\ Doing(p, "cat_check")
        /\ Continue(p, IF ret[p] # Len(in[p]) THEN <<Do("exit")>> ELSE <<Do("cat")>>)
        /\ UNCHANGED fileVars
  /\ UNCHANGED <<parent, calls>>

(* exit(), of a program or of a killed process; its children go to init.    *)
ExitStep(p) ==
  /\ pc[p] = "user"
  /\ killed[p] \/ Doing(p, "exit")
  /\ Exit(p)
  /\ parent' = [q \in Procs |-> IF parent[q] = p THEN None ELSE parent[q]]
  /\ Continue(p, <<>>)
  /\ UNCHANGED calls

(* wait(): a zombie child is freed, or there is none to wait for.           *)
Kids(p) == {q \in Procs : parent[q] = p /\ pc[q] # "unborn"}

Wait(p) ==
  /\ Doing(p, "wait")
  /\ Advance(p)
  /\ \/ \E q \in Kids(p) : Reap(q)
     \/ Kids(p) = {} /\ UNCHANGED fileVars
  /\ UNCHANGED <<parent, calls>>

(* init waits for everyone who has lost its parent.                         *)
InitReaps(q) ==
  /\ q # 1 /\ parent[q] = None
  /\ Reap(q)
  /\ UNCHANGED <<script, parent, calls>>

-----------------------------------------------------------------------------
(* A process that makes any calls.                                          *)
FreeCall(p) ==
  /\ Doing(p, "free")
  /\ calls < MaxCalls /\ calls' = calls + 1
  /\ \/ SysPipe(p) /\ UNCHANGED <<script, parent>>
     \/ \E fd \in Fds :
          /\ \/ SysDup(p, fd) \/ SysClose(p, fd)
             \/ \E n \in Lens : SysRead(p, fd, n)
             \/ \E m \in Msgs : SysWrite(p, fd, m)
          /\ UNCHANGED <<script, parent>>
     \/ \E q \in Procs :
          /\ Fork(p, q) /\ \A r \in Procs : pc[r] = "unborn" => q <= r
          /\ script' = [script EXCEPT ![q] = Free]
          /\ parent' = [parent EXCEPT ![q] = p]
     \/ \E q \in Procs : Kill(p, q) /\ UNCHANGED <<script, parent>>
     \/ Continue(p, <<Do("exit")>>) /\ UNCHANGED <<fileVars, parent>>

(* Its buffers may be at bad addresses.                                     *)
FreeFault(p) ==
  /\ script[p] = Free
  /\ ReadFault(p) \/ WriteFault(p)
  /\ UNCHANGED <<script, parent, calls>>

-----------------------------------------------------------------------------
Init ==
  /\ FilesInit
  /\ \E s \in {Main(line) : line \in Lines} \cup {Free} :
       script = [p \in Procs |-> IF p = 1 THEN s ELSE <<>>]
  /\ parent = [p \in Procs |-> None]
  /\ calls = 0

Step(p) ==
  \/ KernelStep(p) /\ UNCHANGED <<script, parent, calls>>
  \/ Simple(p) \/ Check(p) \/ Exec(p) \/ Fork1(p) \/ Cat(p) \/ ExitStep(p) \/ Wait(p)

Next == \E p \in Procs : Step(p) \/ FreeCall(p) \/ FreeFault(p) \/ InitReaps(p)

Spec == Init /\ [][Next]_vars

(* A process goes on, and init reaps.  Nothing makes a free process call.   *)
FairSpec == Spec /\ \A p \in Procs : WF_vars(Step(p)) /\ WF_vars(InitReaps(p))

-----------------------------------------------------------------------------
(* Every line ends: the shell is at its prompt again.  A reader of a pipe   *)
(* ends only when every copy of the write end is closed, in the shell, in   *)
(* its child and in the other command.                                      *)
Shell == script[1] # Free /\ calls = 0
AtPrompt == Doing(1, "prompt")

LineEnds == Shell ~> (AtPrompt \/ ~Shell)
=============================================================================
