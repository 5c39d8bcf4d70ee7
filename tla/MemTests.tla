-------------------------------- MODULE MemTests --------------------------------
(***************************************************************************)
(* The memory tests of user/usertests.c as scripts for module Memory, with  *)
(* the results that the tests accept.  A test is process 1, which is a      *)
(* program of two pages (usertests: text, and data and bss) with a guard    *)
(* page and a stack, four pages in all.                                     *)
(***************************************************************************)
EXTENDS Memory

Either == {-1, 0}
Ok == {0}
Err == {-1}

sys(op, w) == [op |-> op, n |-> 0, va |-> 0, want |-> w, prog |-> "", nargs |-> 0, big |-> FALSE,
               bad |-> FALSE, child |-> <<>>, sees |-> ""]

sbrk(n, w) == [sys("sbrk", w) EXCEPT !.n = n]
load(va, w) == [sys("load", w) EXCEPT !.va = va]
sees(va, x) == [sys("load", Ok) EXCEPT !.va = va, !.sees = x]
store(va, w) == [sys("store", w) EXCEPT !.va = va]
write(va, n, w) == [sys("copyin", w) EXCEPT !.va = va, !.n = n]
read(va, n, w) == [sys("copyout", w) EXCEPT !.va = va, !.n = n]
exec(prog, w) == [sys("exec", w) EXCEPT !.prog = prog, !.nargs = 1]
fork(s) == [sys("fork", Either) EXCEPT !.child = s]
forked(s) == <<[sys("fork", Ok) EXCEPT !.child = s], sys("wait", Ok)>>
wait == sys("wait", Ok)
exit == sys("exit", Ok)

KERNBASE == MAXVA \div 2
PG == PGSIZE
TOOMUCH == PG * NPages
Guard == 2
Top == 4         \* the first page above the stack

-----------------------------------------------------------------------------
copyin == <<write(KERNBASE, 2, Err), write(MAXVA, 2, Err)>>
copyout == <<read(KERNBASE, 2, Err), read(MAXVA, 2, Err)>>
copyinstr1 == <<write(KERNBASE, 1, Err), write(MAXVA, 1, Err)>>

copyinstr2 == <<exec("none", Err)>> \o forked(<<[exec("echo", Err) EXCEPT !.big = TRUE, !.nargs = 3], exit>>)

(* A string that crosses the end of the last page.                          *)
copyinstr3 == <<sbrk(2 * PG, Ok), write(Top + 1, 1, Ok), write(Top + 1, 2, Err), exec("none", Err)>>

rwsbrk == <<sbrk(2 * PG, Ok), sbrk(-2 * PG, Ok), write(Top + 1, 1, Err), read(Top + 1, 1, Err)>>

mem == forked(<<sbrk(2 * PG, Ok), store(Top, Ok), sbrk(TOOMUCH, Err), sbrk(-2 * PG, Ok), sbrk(2 * PG, Ok),
                sees(Top, "zero"), exit>>)

forktest == <<fork(<<exit>>), fork(<<exit>>), wait>>

(* Children that exit at once, one after the other.                         *)
exitwait == forked(<<exit>>) \o forked(<<exit>>) \o forked(<<exit>>)

sbrkbasic ==
  forked(<<sbrk(TOOMUCH, Err), exit>>)
  \o <<sbrk(1, Ok), store(Top, Ok), sbrk(1, Ok), store(Top, Ok), sbrk(1, Ok), store(Top + 1, Ok),
       fork(<<sbrk(1, Ok), sbrk(1, Either), exit>>), sbrk(1, Either), sbrk(1, Either), wait>>

sbrkmuch ==
  <<sbrk(3 * PG, Ok), store(Top, Ok), store(Top + 1, Ok), store(Top + 2, Ok), sbrk(-PG, Ok), sbrk(PG, Ok),
    sees(Top + 2, "zero"), sbrk(-3 * PG, Ok), load(Top, Err)>>

kernmem == forked(<<load(KERNBASE, Err), exit>>)
MAXVAplus == forked(<<store(MAXVA, Err), exit>>)

(* A failed allocation of the children leaves the parent what it needs.     *)
sbrkfail ==
  forked(<<sbrk(TOOMUCH, Err), exit>>) \o <<sbrk(PG, Ok)>>
  \o forked(<<sbrk(TOOMUCH, Err), load(Top + 1, Err), exit>>)

sbrkarg == <<sbrk(PG, Ok), write(Top, 1, Ok), sbrk(PG, Ok), read(Top + 1, 1, Ok)>>

validatetest ==
  [k \in 1 .. 8 |-> write(k - 1, 1, IF k - 1 \in (0 .. (Top - 1)) \ {Guard} THEN Ok ELSE Err)]

bsstest == <<sees(1, "zero")>>

bigargtest == forked(<<[exec("echo", Err) EXCEPT !.big = TRUE, !.nargs = 2], exit>>)

argptest == <<read(Top - 1, 3, Err)>>

stacktest == forked(<<load(Guard, Err), exit>>)
textwrite == forked(<<store(0, Err), exit>>)

pgbug == <<[exec("none", Err) EXCEPT !.bad = TRUE], read(MAXVA, 1, Err)>>

sbrkbugs ==
  forked(<<sbrk(-Top * PG, Ok), load(0, Err), exit>>)
  \o forked(<<sbrk(1 - Top * PG, Ok), load(0, Ok), exit>>)
  \o forked(<<sbrk(PG + 1, Ok), sbrk(-1, Ok), exit>>)

sbrklast ==
  <<sbrk(PG, Ok), sbrk(1, Ok), sbrk(-2, Ok), store(Top, Ok), write(Top, 1, Ok), read(Top, 1, Ok),
    load(Top + 1, Err)>>

(* A negative amount beyond the size: the sum wraps around.                 *)
sbrk8000 == <<sbrk(-(Wrap \div 2), Ok), load(Top - 1, Ok), store(Top - 1, Ok)>>

badarg == <<[exec("echo", Err) EXCEPT !.bad = TRUE], [exec("echo", Err) EXCEPT !.bad = TRUE]>>

(* All of memory is taken, avail pages are given back, and exec() has to    *)
(* do with these.                                                           *)
execout ==
  LET eat(n) == [k \in 1 .. n |-> sbrk(PG, Either)]
  IN  {forked(eat(NPages) \o [k \in 1 .. avail |-> sbrk(-PG, Ok)] \o <<exec("echo", Either), exit>>) : avail \in 0 .. 5}

(* Two calls at once that want all there is.                                *)
Hungry == {sbrk(4 * PG, Either), exec("echo", Either), fork(<<exit>>)}
Races == {<<fork(<<a, exit>>), b, wait>> : a, b \in Hungry}

MCMemScripts ==
  {<<exec("usertests", Ok)>> \o t :
     t \in {copyin, copyout, copyinstr1, copyinstr2, copyinstr3, rwsbrk, mem, forktest, exitwait, sbrkbasic, sbrkmuch, kernmem,
            MAXVAplus, sbrkfail, sbrkarg, validatetest, bsstest, bigargtest, argptest, stacktest, textwrite, pgbug,
            sbrkbugs, sbrklast, sbrk8000, badarg} \cup execout \cup Races}

(* usertests: text, then data and bss; echo: text only; and two programs    *)
(* with headers that exec() refuses.                                        *)
MCPrograms ==
  "usertests" :> <<[vaddr |-> 0, memsz |-> PG, filesz |-> PG, perm |-> {"X"}],
                   [vaddr |-> PG, memsz |-> PG, filesz |-> 0, perm |-> {"W"}]>>
  @@ "echo" :> <<[vaddr |-> 0, memsz |-> PG, filesz |-> 1, perm |-> {"X"}]>>
=============================================================================
