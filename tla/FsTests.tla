--------------------------------- MODULE FsTests ---------------------------------
(***************************************************************************)
(* The file system tests of user/usertests.c as scripts for module Fs: the  *)
(* calls of a test in their order, each with the results that the test      *)
(* accepts.  Loops are run a few times instead of hundreds, and amounts are *)
(* units.  A test that a single process makes is, when it is short, run     *)
(* beside a neighbour that makes and removes a directory (WithNeighbour).   *)
(***************************************************************************)
EXTENDS Fs

All == -1 .. MaxUnits
Ok == 0 .. MaxUnits
Err == {-1}

sys(op, w) == [op |-> op, path |-> <<>>, new |-> <<>>, mode |-> {}, reg |-> 1, n |-> 0, want |-> w,
               child |-> <<>>, calls |-> {}]

open(r, path, mode, w) == [sys("open", w) EXCEPT !.reg = r, !.path = path, !.mode = mode]
close(r) == [sys("close", All) EXCEPT !.reg = r]
read(r, n, w) == [sys("read", w) EXCEPT !.reg = r, !.n = n]
write(r, n, w) == [sys("write", w) EXCEPT !.reg = r, !.n = n]
mkdir(path, w) == [sys("mkdir", w) EXCEPT !.path = path]
mknod(path, w) == [sys("mknod", w) EXCEPT !.path = path]
unlink(path, w) == [sys("unlink", w) EXCEPT !.path = path]
link(old, new, w) == [sys("link", w) EXCEPT !.path = old, !.new = new]
chdir(path, w) == [sys("chdir", w) EXCEPT !.path = path]
fork(s) == [sys("fork", All) EXCEPT !.child = s]
any(n, S) == [sys("any", All) EXCEPT !.n = n, !.calls = S]
wait == sys("wait", All)
exit == sys("exit", All)

RDONLY == {}
RDWR == {"W"}
CREATE == {"W", "CREATE"}
CREAT0 == {"CREATE"}
TRUNC == {"W", "CREATE", "TRUNC"}
WTRUNC == {"W", "TRUNC"}

(* open, write n, close; open, read n, close.                               *)
Put(path, mode, n) == <<open(1, path, mode, Ok), write(1, n, {n}), close(1)>>
Touch(path, mode, w) == <<open(1, path, mode, w), close(1)>>

-----------------------------------------------------------------------------
truncate1 ==
  <<unlink(<<"t">>, All)>> \o Put(<<"t">>, TRUNC, 2)
  \o <<open(2, <<"t">>, RDONLY, Ok), read(2, 8, {2}), open(1, <<"t">>, WTRUNC, Ok),
       open(3, <<"t">>, RDONLY, Ok), read(3, 8, {0}), read(2, 8, {0}), write(1, 3, {3}),
       read(3, 8, {3}), read(2, 8, {1}), unlink(<<"t">>, All), close(1), close(2), close(3)>>

truncate2 ==
  <<unlink(<<"t">>, All), open(1, <<"t">>, TRUNC, Ok), write(1, 2, All), open(2, <<"t">>, WTRUNC, Ok),
    write(1, 1, Err), unlink(<<"t">>, All), close(1), close(2)>>

truncate3 ==
  Touch(<<"t">>, TRUNC, Ok)
  \o <<fork(Put(<<"t">>, RDWR, 2) \o <<open(1, <<"t">>, RDONLY, All), read(1, 8, All), close(1), exit>>)>>
  \o Put(<<"t">>, TRUNC, 1) \o <<wait, unlink(<<"t">>, All)>>

iputtest ==
  <<mkdir(<<"i">>, Ok), chdir(<<"i">>, Ok), unlink(<<"..", "i">>, Ok), chdir(<<"/">>, Ok)>>

exitiputtest ==
  <<fork(<<mkdir(<<"i">>, Ok), chdir(<<"i">>, Ok), unlink(<<"..", "i">>, Ok), exit>>), wait>>

(* The test has a comment that it needs a kernel that pauses in sys_open(). *)
openiputtest ==
  <<mkdir(<<"o">>, Ok), fork(<<open(1, <<"o">>, RDWR, Err), exit>>), unlink(<<"o">>, Ok), wait>>

opentest == Touch(<<"README">>, RDONLY, Ok) \o <<open(1, <<"none">>, RDONLY, Err)>>

writetest ==
  <<open(1, <<"s">>, CREATE, Ok), write(1, 2, {2}), write(1, 2, {2}), close(1), open(1, <<"s">>, RDONLY, Ok),
    read(1, 4, {4}), close(1), unlink(<<"s">>, Ok)>>

(* MAXFILE blocks: all the direct and indirect ones.                        *)
writebig ==
  <<open(1, <<"b">>, CREATE, Ok), write(1, UPB, {UPB}), write(1, UPB, {UPB}),
    write(1, MaxUnits - 2 * UPB, {MaxUnits - 2 * UPB}), close(1), open(1, <<"b">>, RDONLY, Ok),
    read(1, MaxUnits, {MaxUnits}), read(1, UPB, {0}), close(1), unlink(<<"b">>, Ok)>>

createtest ==
  Touch(<<"a0">>, CREATE, All) \o Touch(<<"a1">>, CREATE, All) \o <<unlink(<<"a0">>, All), unlink(<<"a1">>, All)>>

dirtest == <<mkdir(<<"d">>, Ok), chdir(<<"d">>, Ok), chdir(<<"..">>, Ok), unlink(<<"d">>, Ok)>>

sharedfd ==
  <<unlink(<<"s">>, All), open(1, <<"s">>, CREATE, Ok), fork(<<write(1, 1, {1}), write(1, 1, {1}), exit>>),
    write(1, 1, {1}), write(1, 1, {1}), wait, close(1), open(1, <<"s">>, RDONLY, Ok), read(1, 8, {4}), close(1),
    unlink(<<"s">>, All)>>

fourfiles ==
  LET one(f) == <<open(1, <<f>>, CREATE, Ok), write(1, 2, {2}), write(1, 1, {1})>>
      look(f) == <<open(1, <<f>>, RDONLY, All), read(1, 8, {3}), close(1), unlink(<<f>>, All)>>
  IN  <<unlink(<<"f0">>, All), fork(one("f0") \o <<exit>>)>> \o one("f1") \o <<close(1), wait>>
      \o look("f0") \o look("f1")

createdelete ==
  LET mine(f, g) == Touch(<<f>>, CREATE, Ok) \o Touch(<<g>>, CREATE, Ok) \o <<unlink(<<g>>, Ok)>>
  IN  <<fork(mine("p0", "p1") \o <<exit>>)>> \o mine("q0", "q1")
      \o <<wait>> \o Touch(<<"p0">>, RDONLY, Ok) \o Touch(<<"q0">>, RDONLY, Ok)
      \o <<open(1, <<"p1">>, RDONLY, Err), open(1, <<"q1">>, RDONLY, Err), unlink(<<"p0">>, All), unlink(<<"q0">>, All)>>

unlinkread ==
  Put(<<"u">>, CREATE, 2)
  \o <<open(1, <<"u">>, RDWR, Ok), unlink(<<"u">>, {0}), open(2, <<"u">>, CREATE, All), write(2, 1, All), close(2),
       read(1, 8, {2}), write(1, 3, {3}), close(1), unlink(<<"u">>, All)>>

linktest ==
  <<unlink(<<"l1">>, All), unlink(<<"l2">>, All)>> \o Put(<<"l1">>, CREATE, 2)
  \o <<link(<<"l1">>, <<"l2">>, Ok), unlink(<<"l1">>, All), open(1, <<"l1">>, RDONLY, Err),
       open(1, <<"l2">>, RDONLY, Ok), read(1, 8, {2}), close(1), link(<<"l2">>, <<"l2">>, Err),
       unlink(<<"l2">>, All), link(<<"l2">>, <<"l1">>, Err), link(<<".">>, <<"l1">>, Err)>>

(* Two rounds of each loop: a create against a link of one name, then opens *)
(* against unlinks.                                                         *)
concreate ==
  Touch(<<"C0">>, CREATE, Ok)
  \o <<unlink(<<"C1">>, All), fork(Touch(<<"C1">>, CREATE, Ok) \o <<exit>>), link(<<"C0">>, <<"C1">>, All), wait>>
  \o Touch(<<"C1">>, RDONLY, Ok)
  \o <<fork(Touch(<<"C1">>, RDONLY, All) \o Touch(<<"C1">>, RDONLY, All) \o <<exit>>),
       unlink(<<"C1">>, All), unlink(<<"C1">>, All), wait, unlink(<<"C0">>, All)>>

linkunlink ==
  LET calls == {<<open(1, <<"x">>, CREATE, All)>>, <<link(<<"README">>, <<"x">>, All)>>, <<unlink(<<"x">>, All)>>}
  IN  <<unlink(<<"x">>, All), fork(<<any(2, calls), close(1), exit>>), any(2, calls), close(1), wait>>

subdir ==
  <<unlink(<<"ff">>, All), mkdir(<<"dd">>, Ok)>> \o Put(<<"dd", "ff">>, CREATE, 2)
  \o <<unlink(<<"dd">>, Err), mkdir(<<"/", "dd", "dd">>, Ok)>> \o Put(<<"dd", "dd", "ff">>, CREATE, 1)
  \o <<open(1, <<"dd", "dd", "..", "ff">>, RDONLY, Ok), read(1, 8, {2}), close(1),
       link(<<"dd", "dd", "ff">>, <<"dd", "dd", "ffff">>, Ok), unlink(<<"dd", "dd", "ff">>, Ok),
       open(1, <<"dd", "dd", "ff">>, RDONLY, Err), chdir(<<"dd">>, Ok), chdir(<<"dd", "..", "..", "dd">>, Ok),
       chdir(<<"dd", "..", "..", "..", "dd">>, Ok), chdir(<<".", "..">>, Ok),
       open(1, <<"dd", "dd", "ffff">>, RDONLY, Ok), read(1, 8, {1}), close(1),
       open(1, <<"dd", "dd", "ff">>, RDONLY, Err), open(1, <<"dd", "ff", "ff">>, CREATE, Err),
       open(1, <<"dd", "xx", "ff">>, CREATE, Err), open(1, <<"dd">>, CREAT0, Err), open(1, <<"dd">>, RDWR, Err),
       link(<<"dd", "ff", "ff">>, <<"dd", "dd", "xx">>, Err), link(<<"dd", "xx", "ff">>, <<"dd", "dd", "xx">>, Err),
       link(<<"dd", "ff">>, <<"dd", "dd", "ffff">>, Err), mkdir(<<"dd", "ff", "ff">>, Err),
       mkdir(<<"dd", "xx", "ff">>, Err), mkdir(<<"dd", "dd", "ffff">>, Err), unlink(<<"dd", "xx", "ff">>, Err),
       unlink(<<"dd", "ff", "ff">>, Err), chdir(<<"dd", "ff">>, Err), chdir(<<"dd", "xx">>, Err),
       unlink(<<"dd", "dd", "ffff">>, Ok), unlink(<<"dd", "ff">>, Ok), unlink(<<"dd">>, Err),
       unlink(<<"dd", "dd">>, Ok), unlink(<<"dd">>, Ok)>>

(* More than filewrite() puts into one transaction.                         *)
bigwrite ==
  <<unlink(<<"b">>, All), open(1, <<"b">>, CREATE, Ok), write(1, MaxWrite + 1, {MaxWrite + 1}),
    write(1, MaxWrite + 1, {MaxWrite + 1}), close(1), unlink(<<"b">>, All)>>

bigfile ==
  <<unlink(<<"b">>, All), open(1, <<"b">>, CREATE, Ok), write(1, 2, {2}), write(1, 2, {2}), write(1, 2, {2}), close(1),
    open(1, <<"b">>, RDONLY, Ok), read(1, 1, {1}), read(1, 3, {3}), read(1, 2, {2}), read(1, 1, {0}), close(1),
    unlink(<<"b">>, All)>>

(* Names of fourteen and of fifteen characters.                             *)
fourteen ==
  <<mkdir(<<"n14">>, Ok), mkdir(<<"n14", "n15">>, Ok)>> \o Touch(<<"n15", "n15", "n15">>, CREAT0, Ok)
  \o Touch(<<"n14", "n14", "n14">>, RDONLY, Ok)
  \o <<mkdir(<<"n14", "n14">>, Err), mkdir(<<"n15", "n14">>, Err), unlink(<<"n15", "n14">>, All),
       unlink(<<"n14", "n14">>, All), unlink(<<"n14", "n14", "n14">>, All), unlink(<<"n15", "n15", "n15">>, All),
       unlink(<<"n14", "n15">>, All), unlink(<<"n14">>, All)>>

rmdot ==
  <<mkdir(<<"d">>, Ok), chdir(<<"d">>, Ok), unlink(<<".">>, Err), unlink(<<"..">>, Err), chdir(<<"/">>, Ok),
    unlink(<<"d", ".">>, Err), unlink(<<"d", "..">>, Err), unlink(<<"d">>, Ok)>>

dirfile ==
  Touch(<<"f">>, CREAT0, Ok)
  \o <<chdir(<<"f">>, Err), open(1, <<"f", "xx">>, RDONLY, Err), open(1, <<"f", "xx">>, CREAT0, Err),
       mkdir(<<"f", "xx">>, Err), unlink(<<"f", "xx">>, Err), link(<<"README">>, <<"f", "xx">>, Err),
       unlink(<<"f">>, Ok), open(1, <<".">>, RDWR, Err), open(1, <<".">>, RDONLY, All), write(1, 1, Err), close(1)>>

iref ==
  LET down == <<mkdir(<<"i">>, Ok), chdir(<<"i">>, Ok), mkdir(<<>>, All), link(<<"README">>, <<>>, All),
                open(1, <<>>, CREAT0, All), close(1), open(1, <<"xx">>, CREAT0, All), close(1), unlink(<<"xx">>, All)>>
      up == <<chdir(<<"..">>, All), unlink(<<"i">>, All)>>
  IN  down \o down \o up \o up \o <<chdir(<<"/">>, All)>>

bigdir ==
  <<unlink(<<"bd">>, All)>> \o Touch(<<"bd">>, CREAT0, Ok)
  \o <<link(<<"bd">>, <<"x0">>, Ok), link(<<"bd">>, <<"x1">>, Ok), unlink(<<"bd">>, All),
       unlink(<<"x0">>, Ok), unlink(<<"x1">>, Ok)>>

manywrites ==
  LET many(f) == <<unlink(<<f>>, All)>> \o Put(<<f>>, CREATE, 3) \o <<unlink(<<f>>, All)>>
  IN  <<fork(many("ba") \o <<exit>>)>> \o many("bb") \o <<wait>>

badwrite ==
  LET bad == <<open(1, <<"j">>, CREATE, Ok), sys("badwrite", All), close(1), unlink(<<"j">>, All)>>
  IN  <<unlink(<<"j">>, All)>> \o bad \o bad \o Put(<<"j">>, CREATE, 1) \o <<unlink(<<"j">>, All)>>

(* Blocks, and inodes, run out: the calls fail and nothing panics.          *)
diskfull ==
  LET fill(f) == <<open(1, <<f>>, TRUNC, All), write(1, UPB, All), write(1, MaxUnits - UPB, All), close(1)>>
  IN  fill("b0") \o fill("b1") \o fill("b2") \o Touch(<<"z0">>, TRUNC, All) \o Touch(<<"z1">>, TRUNC, All)
      \o <<mkdir(<<"dd">>, All), unlink(<<"dd">>, All), unlink(<<"z0">>, All), unlink(<<"z1">>, All),
           unlink(<<"b0">>, All), unlink(<<"b1">>, All), unlink(<<"b2">>, All)>>

outofinodes ==
  LET names == <<"z0", "z1", "z2", "z3", "z4">>
      all[k \in 0 .. 5] == IF k = 0 THEN <<>> ELSE all[k - 1] \o Touch(<<names[k]>>, TRUNC, All)
  IN  all[5] \o [k \in 1 .. 5 |-> unlink(<<names[k]>>, All)]

(* user/init.c: the device of the console, made when it is not there.       *)
console == <<open(1, <<"con">>, RDWR, Err), mknod(<<"con">>, Ok), open(1, <<"con">>, RDWR, Ok), close(1)>>

-----------------------------------------------------------------------------
(* The neighbour.                                                           *)
WithNeighbour(t) == <<fork(<<mkdir(<<"n">>, All), unlink(<<"n">>, All), exit>>)>> \o t \o <<wait>>

Sequential == {truncate1, truncate2, iputtest, opentest, writetest, writebig, createtest, dirtest,
               bigwrite, bigfile, rmdot, dirfile, console}

(* The longest ones, without a neighbour.                                   *)
Alone == {subdir, fourteen, iref, diskfull, unlinkread, linktest, bigdir, badwrite, outofinodes}

Concurrent == {truncate3, exitiputtest, openiputtest, sharedfd, fourfiles, createdelete, concreate, linkunlink,
               manywrites}

-----------------------------------------------------------------------------
(* user/grind.c: iterations of go() that are about files.  Register 2 is    *)
(* the variable fd.                                                         *)
creates ==
  {Touch(<<"g", "..", "a">>, CREATE, All), Touch(<<"g", "..", "g", "..", "b">>, CREATE, All),
   <<unlink(<<"g", "..", "a">>, All)>>,
   <<chdir(<<"g">>, Ok), unlink(<<"..", "b">>, All), chdir(<<"/">>, Ok)>>,
   <<close(2), open(2, <<"/", "g", "..", "a">>, CREATE, All)>>,
   <<close(2), open(2, <<"/", ".", "g", ".", "..", "b">>, CREATE, All)>>}

uses == {<<write(2, 1, All)>>, <<read(2, 1, All)>>}

makea ==
  <<mkdir(<<"g", "..", "a">>, All)>> \o Touch(<<"a", "..", "a", ".", "a">>, CREATE, All) \o <<unlink(<<"a", "a">>, All)>>

makeb ==
  <<mkdir(<<"/", "..", "b">>, All)>> \o Touch(<<"g", "..", "b", "b">>, CREATE, All) \o <<unlink(<<"b", "b">>, All)>>

links ==
  {<<unlink(<<"b">>, All), link(<<"..", "g", ".", "..", "a">>, <<"..", "b">>, All)>>,
   <<unlink(<<"..", "g", "..", "a">>, All), link(<<"..", ".", "b">>, <<"/", "g", "..", "a">>, All)>>}

removed ==
  <<unlink(<<"a">>, All), mkdir(<<"a">>, All), chdir(<<"a">>, All), unlink(<<"..", "a">>, All),
    open(2, <<"x">>, CREATE, All), unlink(<<"x">>, All), exit>>

checks == <<unlink(<<"c">>, All)>> \o Put(<<"c">>, CREATE, 1) \o <<unlink(<<"c">>, All)>>

(* iter(): both children do an iteration; the parent stands for the second. *)
(* What go() begins with is done once.                                      *)
iter(child, S) ==
  <<unlink(<<"a">>, All), unlink(<<"b">>, All), mkdir(<<"g">>, Ok), chdir(<<"g">>, Ok), chdir(<<"/">>, Ok),
    fork(child), any(1, S), wait>>

grind ==
  LET flat == creates \cup uses \cup links \cup {checks} IN
  {iter(<<any(1, flat), exit>>, flat), iter(<<any(1, links), exit>>, {makea, makeb}),
   iter(makeb \o <<exit>>, {makeb}), iter(removed, creates \cup links)}

(* Two processes that make and remove the same directory.                   *)
MCOrphan == {<<mkdir(<<"d">>, Ok), fork(<<mkdir(<<"d">>, All), unlink(<<"d">>, All), exit>>), unlink(<<"d">>, All), wait>>}

MCScripts == {WithNeighbour(t) : t \in Sequential} \cup Alone \cup Concurrent \cup grind

(* The calls of the scripts, down to those of a repeated sequence in a      *)
(* child.                                                                   *)
Members(S) == UNION {{t[i] : i \in DOMAIN t} : t \in S}
Inside(K) ==
  K \cup Members({k.child : k \in K}) \cup Members(UNION {k.calls : k \in K})
  \cup UNION {{[k EXCEPT !.n = m] : m \in 1 .. (k.n - 1)} : k \in {j \in K : j.op = "any"}}
MCCalls ==
  LET within[d \in 0 .. 2] == IF d = 0 THEN Members(MCScripts \cup MCOrphan) ELSE Inside(within[d - 1])
  IN  within[2]

MCLong == [n \in {"n15"} |-> "n14"]
MCFiles == <<"README">>
=============================================================================
