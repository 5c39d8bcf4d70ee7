--------------------------------- MODULE Memory ---------------------------------
(***************************************************************************)
(* Memory of xv6: the page allocator (kernel/kalloc.c), page tables         *)
(* (kernel/vm.c), and the calls that use them: sbrk(), fork(), exec(),      *)
(* exit() and wait() (kernel/proc.c, kernel/exec.c), with the page faults   *)
(* of user code.  Processes run scripts; module MemTests has them.          *)
(*                                                                          *)
(* Two processes meet only at the free list.  A call that allocates takes   *)
(* one page after another (KallocStep), with the other process in between,  *)
(* and when it has what it needs, or the list is empty, it does the rest in *)
(* one step.  So a call is a function of the pages it has got.              *)
(*                                                                          *)
(* Addresses are in units, PGSIZE of them to a page; a page-table page has  *)
(* K entries instead of 512.                                                *)
(***************************************************************************)
EXTENDS Integers, Sequences, FiniteSets, FiniteSetsExt, SequencesExt, TLC

CONSTANTS MemProcs, NPages, K, PGSIZE, Programs, MemScripts

Pages == 1 .. NPages
MAXVA == K * K * K          \* in pages
TRAMPOLINE == MAXVA - 1
TRAPFRAME == MAXVA - 2
trampoline == 0             \* the kernel's page of that name
Wrap == PGSIZE * MAXVA * 2  \* addresses are modulo 2^64, here Wrap

ASSUME MemoryAssumption ==
  /\ 1 \in MemProcs /\ NPages \in Nat /\ K \in Nat \ {0, 1} /\ PGSIZE \in Nat \ {0}
  /\ NPages < TRAPFRAME   \* there is less memory than there are addresses

VARIABLES free,     \* kmem.freelist
          data,     \* data[g]: what is in page g
          proc,     \* proc[p]: state, sz, page table and trapframe
          got,      \* got[p]: the pages that p's call has got so far
          busy,     \* busy[p]: p is in a call
          todo,     \* todo[p]: the calls p has still to make
          vmpanic,  \* a panic of vm.c
          vmfailed  \* ghost: a call did not return what its test accepts

memVars == <<free, data, proc, got, busy, todo, vmpanic, vmfailed>>

NoTable == [root |-> 0, tab |-> <<>>, map |-> <<>>]
Unused == [state |-> "unused", sz |-> 0, pt |-> NoTable, tf |-> 0]

PGROUNDUP(a) == ((a + PGSIZE - 1) \div PGSIZE) * PGSIZE
PagesIn(sz) == PGROUNDUP(sz) \div PGSIZE

-----------------------------------------------------------------------------
(* A call in progress: v has the pages it has got and not used yet, the     *)
(* pages it gives back, and whether it asked for one too many; pt is the    *)
(* page table it works on and ok whether it is still going well.            *)
Kalloc(r) ==
  IF r.v.sup = <<>> THEN [r EXCEPT !.v.more = TRUE, !.ok = FALSE, !.pg = 0]
  ELSE [r EXCEPT !.v.sup = Tail(@), !.v.data[Head(r.v.sup)] = "junk", !.pg = Head(r.v.sup)]

(* kfree(), of the pages of a sequence.                                     *)
Kfree(r, s) ==
  [r EXCEPT !.v.free = Reverse(s) \o @,
            !.v.data = [g \in Pages |-> IF g \in Range(s) THEN "junk" ELSE @[g]]]

(* memset(), memmove() of the page just allocated.                          *)
Fill(r, x) == [r EXCEPT !.v.data[r.pg] = x]
Panic(r, b) == [r EXCEPT !.v.panic = @ \/ b]

(* walk(): the page-table pages on the way to va, allocated when missing.   *)
WalkKeys(va) == <<<<2, va \div (K * K)>>, <<1, va \div K>>>>

WalkTable(r, key) ==
  IF ~r.ok \/ key \in DOMAIN r.pt.tab THEN r
  ELSE LET k == Kalloc(r) IN
       IF ~k.ok THEN k ELSE [Fill(k, "table") EXCEPT !.pt.tab = (key :> k.pg) @@ @]

Walk(r, va) == WalkTable(WalkTable(Panic(r, va >= MAXVA), WalkKeys(va)[1]), WalkKeys(va)[2])

(* mappages() of one page.                                                  *)
Mappages(r, va, pa, perm) ==
  LET w == Walk(r, va) IN
  IF ~w.ok THEN w
  ELSE Panic([w EXCEPT !.pt.map = (va :> [pa |-> pa, perm |-> perm]) @@ @], va \in DOMAIN w.pt.map)

(* uvmunmap() of the pages from va on, n of them.                           *)
Uvmunmap(r, va, n, doFree) ==
  LET S == va .. (va + n - 1)
      pas == [k \in 1 .. n |-> r.pt.map[va + k - 1].pa]
  IN
  IF ~(S \subseteq DOMAIN r.pt.map) THEN Panic(r, TRUE)
  ELSE [(IF doFree THEN Kfree(r, pas) ELSE r) EXCEPT !.pt.map = [a \in DOMAIN @ \ S |-> @[a]]]

(* Mutant: a process whose size is no multiple of a page loses one page too *)
(* many.                                                                    *)
UvmdeallocRoundsDown(r, old, new) ==
  IF new >= old THEN r ELSE Uvmunmap(r, new \div PGSIZE, PagesIn(old) - (new \div PGSIZE), TRUE)

Uvmdealloc(r, old, new) ==
  IF new >= old THEN r ELSE Uvmunmap(r, PagesIn(new), PagesIn(old) - PagesIn(new), TRUE)

(* Mutant: the pages of a failed allocation are not given back.             *)
GiveUpLeaking(r, a, from) == [r EXCEPT !.ok = FALSE]

(* The end of a uvmalloc() that has got pages from .. a - 1 and no more.    *)
GiveUp(r, a, from) == [Uvmdealloc([r EXCEPT !.ok = TRUE], a * PGSIZE, from * PGSIZE) EXCEPT !.ok = FALSE]

(* uvmalloc()                                                               *)
Uvmalloc(r, old, new, perm) ==
  LET from == PagesIn(old)
      map(m, k, a) == IF m.ok THEN m ELSE GiveUp(Kfree(m, <<k.pg>>), a, from)
      page(k, a) ==
        IF ~k.ok THEN GiveUp(k, a, from)
        ELSE map(Mappages(Fill(k, "zero"), a, k.pg, perm \cup {"R", "U"}), k, a)
      next(q, a) == IF q.ok THEN page(Kalloc(q), a) ELSE q
      grown[n \in from .. PagesIn(new)] == IF n = from THEN r ELSE next(grown[n - 1], n - 1)
  IN  IF new < old THEN r ELSE grown[PagesIn(new)]

(* uvmfree(): freewalk() panics at a leaf.                                  *)
Freewalk(r) ==
  Kfree(Panic(r, r.pt.map # <<>>), SetToSeq({r.pt.tab[k] : k \in DOMAIN r.pt.tab}) \o <<r.pt.root>>)
Uvmfree(r, sz) == Freewalk(IF sz > 0 THEN Uvmunmap(r, 0, PagesIn(sz), TRUE) ELSE r)

(* proc_freepagetable()                                                     *)
FreePagetable(r, sz) ==
  Uvmfree(Uvmunmap(Uvmunmap(r, TRAMPOLINE, 1, FALSE), TRAPFRAME, 1, FALSE), sz)

(* proc_pagetable(), for the trapframe tf.                                  *)
ProcPagetable(r, tf) ==
  LET c == Kalloc([r EXCEPT !.pt = NoTable])
      a == [Fill(c, "table") EXCEPT !.pt.root = c.pg]
      b == Mappages(a, TRAMPOLINE, trampoline, {"R", "X"})
      d == Mappages(b, TRAPFRAME, tf, {"R", "W"})
  IN
  IF ~c.ok THEN c
  ELSE IF ~b.ok THEN [Uvmfree(b, 0) EXCEPT !.pt = NoTable]
  ELSE IF ~d.ok THEN [Uvmfree(Uvmunmap(d, TRAMPOLINE, 1, FALSE), 0) EXCEPT !.pt = NoTable]
  ELSE d

(* Mutant: the child gets the pages of its parent, not copies of them.      *)
UvmcopyShares(r, old, sz) ==
  LET next(q, a) == Mappages(q, a, old.map[a].pa, old.map[a].perm)
      shared[n \in 0 .. PagesIn(sz)] == IF n = 0 THEN r ELSE next(shared[n - 1], n - 1)
  IN  shared[PagesIn(sz)]

(* uvmcopy() of the pages of old into r.pt.                                 *)
Uvmcopy(r, old, sz) ==
  LET err(q, a) == [Uvmunmap(q, 0, a, TRUE) EXCEPT !.ok = FALSE]
      map(m, k, a) == IF m.ok THEN m ELSE err(Kfree(m, <<k.pg>>), a)
      page(k, a) ==
        IF ~k.ok THEN err(k, a)
        ELSE map(Mappages(Fill(k, k.v.data[old.map[a].pa]), a, k.pg, old.map[a].perm), k, a)
      next(q, a) == IF q.ok THEN page(Kalloc(q), a) ELSE q
      copied[n \in 0 .. PagesIn(sz)] == IF n = 0 THEN r ELSE next(copied[n - 1], n - 1)
  IN  IF 0 .. (PagesIn(sz) - 1) \subseteq DOMAIN old.map THEN copied[PagesIn(sz)] ELSE Panic(r, TRUE)

-----------------------------------------------------------------------------
(* The calls, as functions of the pages they have got: the state of memory  *)
(* that they leave, the processes, and what they return.                    *)
Begin(p) ==
  [v |-> [sup |-> got[p], free |-> free, data |-> data, panic |-> vmpanic, more |-> FALSE],
   pt |-> proc[p].pt, ok |-> TRUE, pg |-> 0]

Done(r, ps, ret) == [v |-> r.v, proc |-> ps, ret |-> ret]

(* growproc(); the sum of the size and a negative amount may wrap around.   *)
Sbrk(p, n) ==
  LET sz == proc[p].sz
      r == Uvmalloc(Begin(p), sz, sz + n, {"W"})
      new == (sz + n) % Wrap
      d == Uvmdealloc(Begin(p), sz, new)
  IN
  IF n > 0
  THEN Done(r, [proc EXCEPT ![p] = [@ EXCEPT !.pt = r.pt, !.sz = IF r.ok THEN sz + n ELSE sz]],
            IF r.ok THEN 0 ELSE -1)
  ELSE Done(d, [proc EXCEPT ![p] = [@ EXCEPT !.pt = d.pt, !.sz = IF new >= sz THEN sz ELSE new]], 0)

(* fork(): allocproc() and uvmcopy(); freeproc() when one of them fails.    *)
ForkProc(p, q) ==
  LET t == Kalloc(Begin(p))
      a == ProcPagetable(Fill(t, "trapframe"), t.pg)
      c == Uvmcopy(a, proc[p].pt, proc[p].sz)
  IN
  IF ~t.ok THEN Done(t, proc, -1)
  ELSE IF ~a.ok THEN Done(Kfree(a, <<t.pg>>), proc, -1)
  ELSE IF ~c.ok THEN Done(FreePagetable(Kfree(c, <<t.pg>>), 0), proc, -1)
  ELSE Done(c, [proc EXCEPT ![q] = [state |-> "user", sz |-> proc[p].sz, pt |-> c.pt, tf |-> t.pg]], 0)

(* loadseg(): the pages of a segment get the program's text.                *)
Loadseg(r, s) ==
  LET S == (s.vaddr \div PGSIZE) .. (PagesIn(s.vaddr + s.filesz) - 1) IN
  IF ~(S \subseteq DOMAIN r.pt.map) THEN Panic(r, TRUE)
  ELSE [r EXCEPT !.v.data = [g \in Pages |-> IF g \in {r.pt.map[a].pa : a \in S} THEN "text" ELSE @[g]]]

(* uvmclear(): the guard page is not the user's.                            *)
Uvmclear(r, a) == [r EXCEPT !.pt.map[a].perm = @ \ {"U"}]

(* What exec() asks of a program header.                                    *)
Sane(s) == s.memsz >= s.filesz /\ s.vaddr % PGSIZE = 0 /\ s.vaddr + s.memsz > 0

(* exec() of program k: the segments, then a guard page and the stack with  *)
(* the arguments; the old memory goes only when nothing can fail any more.  *)
ExecImage(p, r, k) ==
  LET prog == Programs[k.prog]
      a == ProcPagetable(r, proc[p].tf)
      fail(q) == [r |-> q, new |-> proc[p], ret |-> -1]
      alloc(m, q, s) ==
        IF ~m.ok THEN [r |-> m, sz |-> q.sz]
        ELSE [r |-> Loadseg(m, s), sz |-> Max({q.sz, s.vaddr + s.memsz})]
      load(q, s) ==
        IF ~q.r.ok THEN q
        ELSE IF ~Sane(s) THEN [q EXCEPT !.r.ok = FALSE]
        ELSE alloc(Uvmalloc(q.r, q.sz, s.vaddr + s.memsz, s.perm), q, s)
      loaded[n \in 0 .. Len(prog)] ==
        IF n = 0 THEN [r |-> a, sz |-> 0] ELSE load(loaded[n - 1], prog[n])
      commit(u, sz) ==
        [r |-> FreePagetable([u EXCEPT !.pt = proc[p].pt], proc[p].sz),
         new |-> [proc[p] EXCEPT !.pt = u.pt, !.sz = sz], ret |-> 0]
      stack(s, sz) ==
        IF ~s.ok THEN fail(FreePagetable(s, sz))
        ELSE IF k.big THEN fail(FreePagetable(Uvmclear(s, sz \div PGSIZE), sz + 2 * PGSIZE))
        ELSE commit([Uvmclear(s, sz \div PGSIZE) EXCEPT !.v.data[s.pt.map[1 + sz \div PGSIZE].pa] = "args"],
                    sz + 2 * PGSIZE)
      segments(l) ==
        IF ~l.r.ok THEN fail(FreePagetable(l.r, l.sz))
        ELSE stack(Uvmalloc(l.r, PGROUNDUP(l.sz), PGROUNDUP(l.sz) + 2 * PGSIZE, {"W"}), PGROUNDUP(l.sz))
  IN
  IF k.prog \notin DOMAIN Programs THEN fail(r)
  ELSE IF ~a.ok THEN fail(a)
  ELSE segments(loaded[Len(prog)])

(* sys_exec(): a page for each argument, given back at the end.             *)
Exec(p, k) ==
  LET args[n \in 0 .. k.nargs] ==
        IF n = 0 THEN [r |-> Begin(p), pgs |-> <<>>]
        ELSE LET b == args[n - 1]
                 c == Kalloc(b.r)
             IN  IF ~b.r.ok THEN b
                 ELSE [r |-> c, pgs |-> IF c.ok THEN Append(b.pgs, c.pg) ELSE b.pgs]
      a == args[k.nargs]
      e == ExecImage(p, a.r, k)
  IN
  IF ~a.r.ok \/ k.bad THEN Done(Kfree(a.r, a.pgs), proc, -1)
  ELSE Done(Kfree(e.r, a.pgs), [proc EXCEPT ![p] = e.new], e.ret)

-----------------------------------------------------------------------------
Call(p) == Head(todo[p])
Ready(p) == proc[p].state = "user" /\ ~busy[p] /\ todo[p] # <<>>

(* The entry that fork() finds.                                             *)
FreeProc == Min({q \in MemProcs : proc[q].state = "unused"} \cup {1 + Max(MemProcs)})

Result(p) ==
  CASE Call(p).op = "sbrk" -> Sbrk(p, Call(p).n)
    [] Call(p).op = "fork" -> ForkProc(p, FreeProc)
    [] Call(p).op = "exec" -> Exec(p, Call(p))

Enter(p) ==
  /\ Ready(p) /\ Call(p).op \in {"sbrk", "fork", "exec"}
  /\ Call(p).op = "fork" => FreeProc \in MemProcs
  /\ busy' = [busy EXCEPT ![p] = TRUE]
  /\ UNCHANGED <<free, data, proc, got, todo, vmpanic, vmfailed>>

(* kalloc(): the first page of the list.                                    *)
KallocStep(p) ==
  /\ busy[p] /\ Result(p).v.more /\ free # <<>>
  /\ got' = [got EXCEPT ![p] = Append(@, Head(free))]
  /\ free' = Tail(free)
  /\ UNCHANGED <<data, proc, busy, todo, vmpanic, vmfailed>>

Next1(p) == Tail(todo[p])

Finish(p) ==
  /\ busy[p]
  /\ \E d \in {Result(p)} :
       /\ d.v.more => free = <<>>
       /\ free' = d.v.free /\ data' = d.v.data /\ vmpanic' = d.v.panic
       /\ proc' = d.proc
       /\ got' = [got EXCEPT ![p] = <<>>]
       /\ busy' = [busy EXCEPT ![p] = FALSE]
       /\ todo' = [q \in MemProcs |->
                     IF q = p THEN Next1(p)
                     ELSE IF Call(p).op = "fork" /\ q = FreeProc /\ d.ret = 0 THEN Call(p).child
                     ELSE todo[q]]
       /\ vmfailed' = (vmfailed \/ d.ret \notin Call(p).want)

(* The address space of p as the hardware and the kernel see it.            *)
Has(p, va, perm) == va \in DOMAIN proc[p].pt.map /\ perm \subseteq proc[p].pt.map[va].perm

Exits(p) == proc' = [proc EXCEPT ![p].state = "zombie"] /\ todo' = [todo EXCEPT ![p] = <<>>]

(* What p writes.                                                           *)
Mark(p) == ToString(p)

(* User code loads or stores; a fault is the end of the process.  A test    *)
(* that expects the fault has no calls it could go on with.                 *)
Touch(p) ==
  LET k == Call(p) IN
  /\ Ready(p) /\ k.op \in {"load", "store"}
  /\ IF Has(p, k.va, IF k.op = "load" THEN {"U", "R"} ELSE {"U", "W"})
     THEN /\ todo' = [todo EXCEPT ![p] = Next1(p)]
          /\ data' = IF k.op = "store" THEN [data EXCEPT ![proc[p].pt.map[k.va].pa] = Mark(p)] ELSE data
          /\ vmfailed' = (vmfailed \/ 0 \notin k.want
                          \/ (k.op = "load" /\ k.sees # "" /\ data[proc[p].pt.map[k.va].pa] # k.sees))
          /\ UNCHANGED proc
     ELSE /\ Exits(p)
          /\ vmfailed' = (vmfailed \/ -1 \notin k.want)
          /\ UNCHANGED data
  /\ UNCHANGED <<free, got, busy, vmpanic>>

(* copyin() and copyinstr(): the call fails when a page is not the user's;  *)
(* copyout() writes the pages before that one, and does not ask for PTE_W.  *)
CopyUser(p) ==
  LET k == Call(p)
      S == k.va .. (k.va + k.n - 1)
      good == {a \in S : \A b \in k.va .. a : Has(p, b, {"U"})}
  IN
  /\ Ready(p) /\ k.op \in {"copyin", "copyout"}
  /\ todo' = [todo EXCEPT ![p] = Next1(p)]
  /\ vmfailed' = (vmfailed \/ (IF good = S THEN 0 ELSE -1) \notin k.want)
  /\ data' = IF k.op = "copyin" THEN data
             ELSE [g \in Pages |-> IF g \in {proc[p].pt.map[a].pa : a \in good} THEN Mark(p) ELSE data[g]]
  /\ UNCHANGED <<free, proc, got, busy, vmpanic>>

Exit(p) ==
  /\ Ready(p) /\ Call(p).op = "exit"
  /\ Exits(p)
  /\ UNCHANGED <<free, data, got, busy, vmpanic, vmfailed>>

(* wait(): freeproc() of the child.                                         *)
Wait(p) ==
  \E q \in MemProcs \ {p} :
    /\ Ready(p) /\ Call(p).op = "wait"
    /\ proc[q].state = "zombie"
    /\ \E f \in {FreePagetable(Kfree([Begin(p) EXCEPT !.pt = proc[q].pt], <<proc[q].tf>>), proc[q].sz)} :
         free' = f.v.free /\ data' = f.v.data /\ vmpanic' = f.v.panic
    /\ proc' = [proc EXCEPT ![q] = Unused]
    /\ todo' = [todo EXCEPT ![p] = Next1(p)]
    /\ UNCHANGED <<got, busy, vmfailed>>

-----------------------------------------------------------------------------
(* userinit(): the first process, with one page; uvmfirst().                *)
FirstProc ==
  LET r == [v |-> [sup |-> [k \in 1 .. NPages |-> k], free |-> <<>>, data |-> [g \in Pages |-> "junk"],
                   panic |-> FALSE, more |-> FALSE], pt |-> NoTable, ok |-> TRUE, pg |-> 0]
      t == Fill(Kalloc(r), "trapframe")
      a == ProcPagetable(t, t.pg)
      m == Kalloc(a)
  IN  [r |-> Mappages(Fill(m, "text"), 0, m.pg, {"R", "W", "X", "U"}), tf |-> t.pg]

MemInit ==
  /\ \E f \in {FirstProc} :
       /\ free = f.r.v.sup
       /\ data = f.r.v.data
       /\ proc = [p \in MemProcs |-> IF p # 1 THEN Unused
                                  ELSE [state |-> "user", sz |-> PGSIZE, pt |-> f.r.pt, tf |-> f.tf]]
  /\ got = [p \in MemProcs |-> <<>>]
  /\ busy = [p \in MemProcs |-> FALSE]
  /\ \E s \in MemScripts : todo = [p \in MemProcs |-> IF p = 1 THEN s ELSE <<>>]
  /\ vmpanic = FALSE /\ vmfailed = FALSE

MemNext ==
  \E p \in MemProcs :
    Enter(p) \/ KallocStep(p) \/ Finish(p) \/ Touch(p) \/ CopyUser(p) \/ Exit(p) \/ Wait(p)

MemSpec == MemInit /\ [][MemNext]_memVars

-----------------------------------------------------------------------------
(* Every page is in one place and in one place only: on the free list, in   *)
(* the hands of a call, or as the trapframe, a table or a page of memory of *)
(* one process.  And a process has exactly the pages its size says.         *)
Uses(g) ==
  Cardinality({k \in DOMAIN free : free[k] = g})
  + Cardinality({p \in MemProcs : proc[p].tf = g})
  + Cardinality({p \in MemProcs : proc[p].pt.root = g})
  + Cardinality({e \in UNION {{p} \X (1 .. NPages) : p \in MemProcs} : e[2] \in DOMAIN got[e[1]] /\ got[e[1]][e[2]] = g})
  + Cardinality(UNION {{<<p, k>> : k \in {x \in DOMAIN proc[p].pt.tab : proc[p].pt.tab[x] = g}} : p \in MemProcs})
  + Cardinality(UNION {{<<p, a>> : a \in {x \in DOMAIN proc[p].pt.map : x # TRAPFRAME /\ proc[p].pt.map[x].pa = g}} : p \in MemProcs})

PagesAccounted ==
  /\ \A g \in Pages : Uses(g) = 1
  /\ \A p \in MemProcs : proc[p].state # "unused" =>
       DOMAIN proc[p].pt.map = {TRAMPOLINE, TRAPFRAME} \cup 0 .. (PagesIn(proc[p].sz) - 1)

(* No panic of vm.c, and every call does what the tests expect of it.       *)
MemTestsPass == ~vmpanic /\ ~vmfailed

(* The memory of a process is its own.                                      *)
Image(p) ==
  IF proc[p].state # "user" THEN <<>>
  ELSE [a \in DOMAIN proc[p].pt.map \ {TRAMPOLINE, TRAPFRAME} |-> data[proc[p].pt.map[a].pa]]

(* What exec() makes: the text, zeroes, the guard page and the arguments.   *)
ProgramImage(prog) ==
  LET end == PagesIn(Max({s.vaddr + s.memsz : s \in Range(prog)} \cup {0}))
      text == UNION {(s.vaddr \div PGSIZE) .. (PagesIn(s.vaddr + s.filesz) - 1) : s \in Range(prog)}
  IN  [a \in 0 .. (end + 1) |-> IF a = end + 1 THEN "args" ELSE IF a \in text THEN "text" ELSE "zero"]

Private == INSTANCE AbstractMemory WITH
             Procs <- MemProcs, image <- [p \in MemProcs |-> Image(p)], Contents <- {Mark(p) : p \in MemProcs},
             Images <- {ProgramImage(Programs[x]) : x \in DOMAIN Programs}

PrivateMemory == Private!ASpec
=============================================================================
