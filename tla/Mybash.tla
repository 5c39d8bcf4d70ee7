-------------------------------- MODULE Mybash --------------------------------
(***************************************************************************)
(* lab1: mybash.  The parser of a line (parsing.c), and execute.c as the    *)
(* system calls it makes: a process executes a script, the list of the      *)
(* calls it has still to make, and execute_pipeline() of a pipeline is a    *)
(* script.  The operating system is external: processes with the ends of    *)
(* pipes they hold, fork, wait, and SIGPIPE.  The programs run are cat,     *)
(* which copies its input to its output, echo, yes and true.                *)
(*                                                                          *)
(* A pipe is called by its depth in the recursion, n: p[n] is the one the   *)
(* process has there.  The words of a command are one.  A terminal or a     *)
(* file that is read is at its end.                                         *)
(***************************************************************************)
EXTENDS Integers, Sequences, FiniteSets, SequencesExt

CONSTANTS Sessions,   \* what may be typed: sequences of lines, each of tokens
          Programs,   \* the words execvp() finds
          Files,      \* the files open() finds for reading
          Pids, Pipes,
          Depth,      \* commands of a pipeline at most
          PipeSize    \* units a pipe holds

VARIABLES proc,   \* the processes; None where there is none
          pipe,   \* units in each pipe
          early   \* managers of background pipelines the shell has waited for

bvars == <<proc, pipe, early>>

None == [none |-> TRUE]
Shell == 1

-----------------------------------------------------------------------------
(* command.c and parsing.c                                                  *)
Symbols == {"|", "&", "<", ">"}
NoName == "NULL"

(* scommand_new                                                             *)
NewCommand == [word |-> NoName, in |-> NoName, out |-> NoName]

(* scommand_push_back, of which the first argument is kept: the program.    *)
PushBack(c, arg) == IF c.word = NoName THEN [c EXCEPT !.word = arg] ELSE c

(* scommand_set_redir_in and _out: a redirection of the same kind replaces  *)
(* the one before it.                                                       *)
SetRedirIn(c, f) == [c EXCEPT !.in = f]
SetRedirOut(c, f) == [c EXCEPT !.out = f]

(* scommand_is_empty.                                                       *)
IsEmpty(c) == c.word = NoName

(* parse_scommand: the command and the rest of the line.  The caller gets   *)
(* NULL for a command without a word.                                       *)
RECURSIVE ParseCommand(_, _)
ParseCommand(c, r) ==
  IF r = <<>> \/ Head(r) \in {"|", "&"} THEN [cmd |-> c, rest |-> r]
  ELSE IF Head(r) = "<" THEN ParseCommand(SetRedirIn(c, r[2]), SubSeq(r, 3, Len(r)))
  ELSE IF Head(r) = ">" THEN ParseCommand(SetRedirOut(c, r[2]), SubSeq(r, 3, Len(r)))
  ELSE ParseCommand(PushBack(c, Head(r)), Tail(r))

SyntaxError == [parsed |-> "error", cmds |-> <<>>, wait |-> TRUE]
Aborted == [parsed |-> "abort", cmds |-> <<>>, wait |-> TRUE]

Take(r, tok) == IF r # <<>> /\ Head(r) = tok THEN Tail(r) ELSE r

(* The loop of parse_pipeline.  It appends the command it has, reads & and  *)
(* |, and then the next command whether there is one or not: a pipe with    *)
(* nothing after it fails the assertion of pipeline_push_back, and what     *)
(* follows & is read and forgotten.                                         *)
RECURSIVE ParseLoop(_, _)
ParseLoop(cmds, d) ==
  LET back == d.rest # <<>> /\ Head(d.rest) = "&"
      r == Take(d.rest, "&")
      more == r # <<>> /\ Head(r) = "|"
  IN  IF IsEmpty(d.cmd) THEN Aborted
      ELSE IF more /\ back THEN SyntaxError
      ELSE IF more THEN ParseLoop(Append(cmds, d.cmd), ParseCommand(NewCommand, Tail(r)))
      ELSE [parsed |-> "ok", cmds |-> Append(cmds, d.cmd), wait |-> ~back]

(* parse_pipeline                                                           *)
ParsePipeline(line) ==
  LET first == ParseCommand(NewCommand, line)
  IN  IF IsEmpty(first.cmd) THEN SyntaxError ELSE ParseLoop(<<>>, first)

-----------------------------------------------------------------------------
(* builtin.c                                                                *)
Internal == {"cd", "exit", "help"}

BuiltinAlone(cmds) == Len(cmds) = 1 /\ cmds[1].word \in Internal

(* builtin_run: only exit ends the process; cd and help leave the rest of   *)
(* the shell as it is.                                                      *)
BuiltinRun(word) == IF word = "exit" THEN <<[do |-> "exit", status |-> "0"]>> ELSE <<>>

-----------------------------------------------------------------------------
(* execute.c, as scripts                                                    *)
Close(i, end) == [do |-> "close", pipe |-> i, end |-> end]
DupIn(i) == [do |-> "dupin", pipe |-> i]
DupOut(i) == [do |-> "dupout", pipe |-> i]
Exit(s) == [do |-> "exit", status |-> s]

(* open_file_descriptor_in and open_file_descriptor_out                     *)
Redirect(c) ==
  (IF c.in # NoName THEN <<[do |-> "openin", file |-> c.in]>> ELSE <<>>)
    \o (IF c.out # NoName THEN <<[do |-> "openout"]>> ELSE <<>>)

(* Mutant: the child keeps the read end of the pipe it writes to.           *)
ChildKeepsRead(c, in, out) ==
  (IF in # 0 THEN <<DupIn(in)>> ELSE <<>>)
    \o (IF out # 0 THEN <<DupOut(out)>> ELSE <<>>)
    \o Redirect(c) \o <<[do |-> "exec", word |-> c.word]>>

(* The child of execute_single: 0 stands for the descriptor -1.             *)
Child(c, in, out) ==
  (IF out # 0 THEN <<Close(out, "r")>> ELSE <<>>)
    \o (IF in # 0 THEN <<DupIn(in)>> ELSE <<>>)
    \o (IF out # 0 THEN <<DupOut(out)>> ELSE <<>>)
    \o Redirect(c) \o <<[do |-> "exec", word |-> c.word]>>

Fork(s, job) == [do |-> "fork", child |-> s, job |-> job]

(* execute_pipeline_recursive of the commands from the k-th on, where the   *)
(* k-th reads from pipe in and the next pipe made is pipe n.                *)
RECURSIVE ExecuteFrom(_, _, _, _)
ExecuteFrom(cmds, k, in, n) ==
  IF k = Len(cmds) THEN <<Fork(Child(cmds[k], in, 0), FALSE)>>
  ELSE <<[do |-> "pipe", n |-> n], Fork(Child(cmds[k], in, n), FALSE), Close(n, "w")>>
         \o ExecuteFrom(cmds, k + 1, n, n + 1) \o <<Close(n, "r")>>

(* Mutant: the last command of a pipeline is not waited for.                *)
ExecuteAndWaitFewer(cmds, in, signal) ==
  IF BuiltinAlone(cmds) THEN BuiltinRun(cmds[1].word)
  ELSE ExecuteFrom(cmds, 1, in, in + 1)
         \o (IF Len(cmds) = 1 THEN <<>> ELSE <<[do |-> "wait", children |-> Len(cmds) - 1, signal |-> signal]>>)

(* execute_and_wait; "13" stands for any signal but -1.                     *)
ExecuteAndWait(cmds, in, signal) ==
  IF BuiltinAlone(cmds) THEN BuiltinRun(cmds[1].word)
  ELSE ExecuteFrom(cmds, 1, in, in + 1)
         \o <<[do |-> "wait", children |-> Len(cmds), signal |-> signal]>>

(* The manager of a background pipeline: its first command reads from a     *)
(* pipe to which nobody writes.                                             *)
Manager(cmds) ==
  <<[do |-> "pipe", n |-> 1]>> \o ExecuteAndWait(cmds, 1, "-1")
    \o <<Close(1, "r"), Close(1, "w"), Exit("13")>>

(* execute_pipeline                                                         *)
ExecutePipeline(pl) ==
  IF pl.wait THEN ExecuteAndWait(pl.cmds, 0, "13") ELSE <<Fork(Manager(pl.cmds), TRUE)>>

(* A turn of main().                                                        *)
Turn(line) ==
  LET pl == ParsePipeline(line)
  IN  IF pl.parsed = "abort" THEN <<Exit("abort")>>
      ELSE IF pl.parsed = "error" THEN <<>>
      ELSE ExecutePipeline(pl)

-----------------------------------------------------------------------------
(* The system calls.                                                        *)
Live(p) == proc[p] # None
Doing(p, what) ==
  Live(p) /\ proc[p].status = "run" /\ proc[p].script # <<>> /\ Head(proc[p].script).do = what
Call(p) == Head(proc[p].script)

(* The ends of pipes a process holds; 0 is no pipe.                         *)
Held(q) ==
  IF q = None \/ q.status # "run" THEN {} ELSE q.ends \cup {<<q.in, "r">>, <<q.out, "w">>}
IsHeld(i, end) == \E p \in Pids : <<i, end>> \in Held(proc[p])

(* p has made its call and become q, which goes on with s.                  *)
GoesOn(p, q, s) == proc' = [proc EXCEPT ![p] = [q EXCEPT !.script = s]]
Returns(p, q) == GoesOn(p, q, Tail(q.script))

(* The process becomes a zombie and its descriptors are closed.             *)
Ends(p, s) == proc' = [proc EXCEPT ![p].status = s, ![p].script = <<>>]

(* pipe() and fork() take the first pipe and process that are free.         *)
FreePipes == {i \in Pipes : ~IsHeld(i, "r") /\ ~IsHeld(i, "w")}
First(S) == CHOOSE x \in S : \A y \in S : x <= y

SysPipe(p) ==
  /\ Doing(p, "pipe")
  /\ LET i == First(FreePipes)
     IN  /\ Returns(p, [proc[p] EXCEPT !.p[Call(p).n] = i,
                                       !.ends = @ \cup {<<i, "r">>, <<i, "w">>}])
         /\ pipe' = [pipe EXCEPT ![i] = 0]
  /\ UNCHANGED early

SysFork(p) ==
  /\ Doing(p, "fork")
  /\ proc' = [proc EXCEPT
       ![p].script = Tail(@),
       ![First({q \in Pids : ~Live(q)})] =
          [proc[p] EXCEPT !.script = Call(p).child, !.parent = p, !.job = Call(p).job]]
  /\ UNCHANGED <<pipe, early>>

SysClose(p) ==
  /\ Doing(p, "close")
  /\ Returns(p, [proc[p] EXCEPT !.ends = @ \ {<<proc[p].p[Call(p).pipe], Call(p).end>>}])
  /\ UNCHANGED <<pipe, early>>

(* change_file_descriptor_in and change_file_descriptor_out: dup2, close.   *)
SysDup(p) ==
  /\ \/ /\ Doing(p, "dupin")
        /\ LET i == proc[p].p[Call(p).pipe]
           IN  Returns(p, [proc[p] EXCEPT !.in = i, !.ends = @ \ {<<i, "r">>}])
     \/ /\ Doing(p, "dupout")
        /\ LET i == proc[p].p[Call(p).pipe]
           IN  Returns(p, [proc[p] EXCEPT !.out = i, !.ends = @ \ {<<i, "w">>}])
  /\ UNCHANGED <<pipe, early>>

(* open() of a file to read may fail, and the child then ends.              *)
SysOpen(p) ==
  /\ \/ /\ Doing(p, "openin")
        /\ IF Call(p).file \in Files THEN Returns(p, [proc[p] EXCEPT !.in = 0]) ELSE Ends(p, "1")
     \/ Doing(p, "openout") /\ Returns(p, [proc[p] EXCEPT !.out = 0])
  /\ UNCHANGED <<pipe, early>>

SysExec(p) ==
  /\ Doing(p, "exec")
  /\ IF Call(p).word \in Programs
     THEN GoesOn(p, proc[p], CASE Call(p).word = "echo" -> <<[do |-> "write"], Exit("0")>>
                               [] Call(p).word = "true" -> <<Exit("0")>>
                               [] OTHER -> <<[do |-> Call(p).word]>>)
     ELSE Ends(p, "1")
  /\ UNCHANGED <<pipe, early>>

SysExit(p) ==
  /\ Doing(p, "exit")
  /\ Ends(p, Call(p).status)
  /\ UNCHANGED <<pipe, early>>

(* What the waiting loop of execute_and_wait makes of a status: the raw     *)
(* status of exit(13) is not 13, that of a death by SIGPIPE is.             *)
Counts(signal, status) == signal = "-1" \/ status # "sigpipe"

Children(p) == {q \in Pids : Live(q) /\ proc[q].parent = p}

Waited(p, f, n) ==
  [f EXCEPT ![p].script = (IF n = 0 THEN <<>> ELSE <<[Call(p) EXCEPT !.children = n]>>) \o Tail(@)]

(* A wait() that fails, which counts, and one that finds a child.           *)
SysWait(p) ==
  /\ Doing(p, "wait")
  /\ LET c == Call(p)
         Left(counts) == IF counts THEN c.children - 1 ELSE c.children
     IN  \/ /\ Children(p) = {}
            /\ proc' = Waited(p, proc, Left(TRUE))
            /\ UNCHANGED early
         \/ \E q \in Children(p) :
              /\ proc[q].status # "run"
              /\ proc' = Waited(p, [proc EXCEPT ![q] = None], Left(Counts(c.signal, proc[q].status)))
              /\ early' = IF p = Shell /\ proc[q].job THEN early + 1 ELSE early
  /\ UNCHANGED pipe

(* The programs.                                                            *)
Write(p, then) ==
  LET i == proc[p].out
  IN  \/ i = 0 /\ GoesOn(p, proc[p], then) /\ UNCHANGED pipe
      \/ i # 0 /\ ~IsHeld(i, "r") /\ Ends(p, "sigpipe") /\ UNCHANGED pipe
      \/ /\ i # 0 /\ IsHeld(i, "r") /\ pipe[i] < PipeSize
         /\ pipe' = [pipe EXCEPT ![i] = @ + 1]
         /\ GoesOn(p, proc[p], then)

Program(p) ==
  /\ \/ Doing(p, "write") /\ Write(p, Tail(proc[p].script))
     \/ Doing(p, "yes") /\ Write(p, proc[p].script)
     \/ /\ Doing(p, "cat")
        /\ LET i == proc[p].in
           IN  \/ /\ i # 0 /\ pipe[i] > 0
                  /\ pipe' = [pipe EXCEPT ![i] = @ - 1]
                  /\ GoesOn(p, proc[p], <<[do |-> "write"]>> \o proc[p].script)
               \/ /\ i # 0 => pipe[i] = 0 /\ ~IsHeld(i, "w")
                  /\ Ends(p, "0") /\ UNCHANGED pipe
  /\ UNCHANGED early

(* main() reads a line.                                                     *)
ReadLine(p) ==
  /\ Doing(p, "line")
  /\ GoesOn(p, proc[p], Turn(Call(p).line) \o Tail(proc[p].script))
  /\ UNCHANGED <<pipe, early>>

Step(p) ==
  \/ ReadLine(p) \/ SysPipe(p) \/ SysFork(p) \/ SysClose(p) \/ SysDup(p) \/ SysOpen(p)
  \/ SysExec(p) \/ SysExit(p) \/ SysWait(p) \/ Program(p)

Main(lines) == [k \in 1 .. Len(lines) |-> [do |-> "line", line |-> lines[k]]] \o <<Exit("0")>>

Init ==
  /\ \E lines \in Sessions :
       proc = [p \in Pids |->
         IF p # Shell THEN None
         ELSE [script |-> Main(lines), p |-> [n \in 1 .. Depth |-> 0], ends |-> {}, in |-> 0,
               out |-> 0, parent |-> 0, job |-> FALSE, status |-> "run"]]
  /\ pipe = [i \in Pipes |-> 0]
  /\ early = 0

Next == \E p \in Pids : Step(p)

(* The operating system runs every process.                                 *)
Spec == Init /\ [][Next]_bvars /\ \A p \in Pids : WF_bvars(Step(p))

-----------------------------------------------------------------------------
AtPrompt == Doing(Shell, "line") \/ Doing(Shell, "exit")

(* When the prompt comes back all processes of the pipelines that were to   *)
(* be waited for have ended, except for one for each background pipeline    *)
(* that ended meanwhile and was counted in its place.                       *)
ForegroundAwaited ==
  AtPrompt => Cardinality({q \in Children(Shell) : ~proc[q].job}) <= early

(* A shell whose programs end by themselves reaches the end of its input:   *)
(* no command waits for the end of a pipe whose writers wait for it, or     *)
(* that some process has open and does not use.                             *)
ShellReturns == <>(proc[Shell].status # "run")
==============================================================================
