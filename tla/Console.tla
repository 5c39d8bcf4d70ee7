------------------------------- MODULE Console -------------------------------
(***************************************************************************)
(* The console: console.c, uart.c and the external interrupts of trap.c and *)
(* plic.c.  The UART and the PLIC are external: a receive and a transmit    *)
(* FIFO, and an interrupt request that one processor can claim at a time.   *)
(*                                                                          *)
(* An actor is a processor that takes interrupts, a process that reads or   *)
(* one that writes; pc is where it is.  What runs under a spinlock is split *)
(* where the UART is looked at and where it is written to.                  *)
(***************************************************************************)
EXTENDS Integers, Sequences, FiniteSets, SequencesExt

CONSTANTS Cpus, Readers, Writers,
          Typings,   \* what may be typed: sequences of keys
          ReadSize,  \* what a read asks for
          Writes,    \* Writes[w]: the characters w writes
          INPUT_BUF_SIZE, UART_TX_BUF_SIZE,
          Fifo       \* places of the UART's transmit FIFO

(* What is written while the UART is seen idle finds room in its FIFO.      *)
FifoAssumption == Fifo >= 2 /\ UART_TX_BUF_SIZE > 0 /\ INPUT_BUF_SIZE > 0

VARIABLES typed,    \* keys still to be typed
          rx,       \* received by the UART
          thr,      \* its transmit FIFO
          sent,     \* what it has sent
          irq,      \* the PLIC has a request of the UART
          claimed,  \* ... that a processor is serving
          cons,     \* console.c's buffer
          tx,       \* uart.c's transmit buffer
          act,      \* the actors
          given,    \* what reads have returned
          written   \* what writes have put into the transmit buffer

cvars == <<typed, rx, thr, sent, irq, claimed, cons, tx, act, given, written>>

None == "none"
Echo == "echo"

Goes(a, pc) == act' = [act EXCEPT ![a].pc = pc]
At(a, pc) == act[a].pc = pc

-----------------------------------------------------------------------------
(* The devices.                                                             *)
Type ==
  /\ typed # <<>>
  /\ rx' = Append(rx, Head(typed)) /\ typed' = Tail(typed)
  /\ irq' = TRUE
  /\ UNCHANGED <<thr, sent, claimed, cons, tx, act, given, written>>

Send ==
  /\ thr # <<>>
  /\ sent' = Append(sent, Head(thr)) /\ thr' = Tail(thr)
  /\ irq' = (irq \/ Len(thr) = 1)
  /\ UNCHANGED <<typed, rx, claimed, cons, tx, act, given, written>>

(* A character written to a FIFO that is full is lost.                      *)
Put(x) == thr' = IF Len(thr) < Fifo THEN Append(thr, x) ELSE thr
Idle == thr = <<>>

-----------------------------------------------------------------------------
(* devintr: plic_claim gives the request to one processor.                  *)
Claim(c) ==
  /\ At(c, "run") /\ irq /\ ~claimed
  /\ irq' = FALSE /\ claimed' = TRUE
  /\ Goes(c, "get")
  /\ UNCHANGED <<typed, rx, thr, sent, cons, tx, given, written>>

(* plic_complete                                                            *)
Complete(c) ==
  /\ At(c, "complete")
  /\ claimed' = FALSE
  /\ Goes(c, "run")
  /\ UNCHANGED <<typed, rx, thr, sent, irq, cons, tx, given, written>>

(* Mutant: the receive loop is all there is.                                *)
GetcOnly(c) ==
  /\ At(c, "get")
  /\ IF rx = <<>> THEN Goes(c, "complete") /\ UNCHANGED rx
     ELSE /\ act' = [act EXCEPT ![c] = [pc |-> "consintr", ch |-> Head(rx)]]
          /\ rx' = Tail(rx)
  /\ UNCHANGED <<typed, thr, sent, irq, claimed, cons, tx, given, written>>

(* uartintr: the loop over uartgetc, and then the transmit side.            *)
Getc(c) ==
  /\ At(c, "get")
  /\ IF rx = <<>> THEN Goes(c, "txlock") /\ UNCHANGED rx
     ELSE /\ act' = [act EXCEPT ![c] = [pc |-> "consintr", ch |-> Head(rx)]]
          /\ rx' = Tail(rx)
  /\ UNCHANGED <<typed, thr, sent, irq, claimed, cons, tx, given, written>>

-----------------------------------------------------------------------------
(* console.c                                                                *)
Slot(k) == k % INPUT_BUF_SIZE

Erases(ch) == ch \in {"^U", "^H"}

(* Where the edit index ends up: at the start of the line, or one back.     *)
Erased(ch) ==
  IF ch = "^H" THEN cons.e - 1
  ELSE CHOOSE k \in cons.w .. cons.e :
         /\ k = cons.w \/ cons.buf[Slot(k - 1)] = "nl"
         /\ \A j \in (k + 1) .. cons.e : cons.buf[Slot(j - 1)] # "nl"

(* Mutant: the limit is the size of the line, not of what is unread.        *)
TakenPastUnread(ch) == ch # "^P" /\ cons.e - cons.w < INPUT_BUF_SIZE

(* An ordinary key is taken if there is room for it.                        *)
Taken(ch) == ch # "^P" /\ cons.e - cons.r < INPUT_BUF_SIZE

(* consoleintr, up to the echo.  Nothing is echoed for a key that has no    *)
(* effect; several backspaces are one.                                      *)
Consoleintr(c) ==
  LET ch == act[c].ch
  IN  /\ At(c, "consintr") /\ cons.lock = None
      /\ IF Erases(ch)
         THEN IF cons.e # cons.w
              THEN /\ cons' = [cons EXCEPT !.e = Erased(ch), !.lock = c]
                   /\ act' = [act EXCEPT ![c] = [pc |-> "echo", ch |-> Echo]]
              ELSE act' = [act EXCEPT ![c] = [pc |-> "get", ch |-> Echo]] /\ UNCHANGED cons
         ELSE IF Taken(ch) THEN Goes(c, "echo") /\ cons' = [cons EXCEPT !.lock = c]
         ELSE act' = [act EXCEPT ![c] = [pc |-> "get", ch |-> Echo]] /\ UNCHANGED cons
  /\ UNCHANGED <<typed, rx, thr, sent, irq, claimed, tx, given, written>>

(* uartputc_sync: it waits for the UART, and then writes to it.             *)
EchoWait(c) ==
  /\ At(c, "echo") /\ Idle
  /\ Goes(c, "echoput")
  /\ UNCHANGED <<typed, rx, thr, sent, irq, claimed, cons, tx, given, written>>

EchoPut(c) ==
  /\ At(c, "echoput")
  /\ Put(Echo)
  /\ Goes(c, "store")
  /\ UNCHANGED <<typed, rx, sent, irq, claimed, cons, tx, given, written>>

(* wakeup(&cons.r)                                                          *)
WokenReaders(f) ==
  [a \in DOMAIN f |-> IF a \in Readers /\ f[a].pc = "asleep" THEN [f[a] EXCEPT !.pc = "read"] ELSE f[a]]

(* The end of consoleintr: the key is stored, and a whole line, an end of   *)
(* file or a full buffer is given to the readers.                           *)
Store(c) ==
  LET ch == IF act[c].ch = "cr" THEN "nl" ELSE act[c].ch
      stored == [cons EXCEPT !.buf[Slot(cons.e)] = ch, !.e = @ + 1, !.lock = None]
      whole == ch \in {"nl", "^D"} \/ stored.e - cons.r = INPUT_BUF_SIZE
      back == [act EXCEPT ![c] = [pc |-> "get", ch |-> Echo]]
  IN  /\ At(c, "store")
      /\ IF ch = Echo THEN cons' = [cons EXCEPT !.lock = None] /\ act' = back
         ELSE IF whole THEN cons' = [stored EXCEPT !.w = stored.e] /\ act' = WokenReaders(back)
         ELSE cons' = stored /\ act' = back
  /\ UNCHANGED <<typed, rx, thr, sent, irq, claimed, tx, given, written>>

(* consoleread: acquire, and a turn of the loop.  n is what is still asked  *)
(* for.                                                                     *)
ReadLock(u) ==
  /\ At(u, "read") /\ cons.lock = None
  /\ cons' = [cons EXCEPT !.lock = u]
  /\ Goes(u, "loop")
  /\ UNCHANGED <<typed, rx, thr, sent, irq, claimed, tx, given, written>>

Unlocked == [cons EXCEPT !.lock = None]

(* The call returns, and the process calls again unless it has been killed. *)
ReadReturns(u) ==
  act' = [act EXCEPT ![u].pc = IF act[u].killed THEN "done" ELSE "read", ![u].n = ReadSize]

ReadTurn(u) ==
  LET k == cons.buf[Slot(cons.r)]
      taken == [cons EXCEPT !.r = @ + 1]
  IN  /\ At(u, "loop")
      /\ IF act[u].n = 0 THEN ReadReturns(u) /\ cons' = Unlocked /\ UNCHANGED given
         ELSE IF cons.r = cons.w
         THEN /\ act' = [act EXCEPT ![u].pc = IF act[u].killed THEN "done" ELSE "asleep"]
              /\ cons' = Unlocked /\ UNCHANGED given
         ELSE IF k = "^D" /\ act[u].n < ReadSize
         THEN ReadReturns(u) /\ cons' = Unlocked /\ UNCHANGED given
         ELSE IF k \in {"^D", "nl"}
         THEN /\ ReadReturns(u)
              /\ cons' = [taken EXCEPT !.lock = None] /\ given' = Append(given, k)
         ELSE /\ act' = [act EXCEPT ![u].n = @ - 1]
              /\ cons' = taken /\ given' = Append(given, k)
  /\ UNCHANGED <<typed, rx, thr, sent, irq, claimed, tx, written>>

(* kill(): the flag, and a sleeper is woken.                                *)
Kill(u) ==
  /\ ~act[u].killed /\ ~At(u, "done")
  /\ act' = [act EXCEPT ![u].killed = TRUE, ![u].pc = IF @ = "asleep" THEN "read" ELSE @]
  /\ UNCHANGED <<typed, rx, thr, sent, irq, claimed, cons, tx, given, written>>

-----------------------------------------------------------------------------
(* uart.c, the transmit side.                                               *)
TxSlot(k) == k % UART_TX_BUF_SIZE

TxLock(a) ==
  /\ At(a, "txlock") /\ tx.lock = None
  /\ tx' = [tx EXCEPT !.lock = a]
  /\ Goes(a, IF a \in Cpus THEN "start" ELSE "putc")
  /\ UNCHANGED <<typed, rx, thr, sent, irq, claimed, cons, given, written>>

(* Mutant: a full buffer is not waited for.                                 *)
UartputcOverwrites(u) ==
  /\ At(u, "putc")
  /\ LET x == Head(act[u].left)
     IN  /\ tx' = [tx EXCEPT !.buf[TxSlot(tx.w)] = x, !.w = @ + 1]
         /\ act' = [act EXCEPT ![u].pc = "start", ![u].left = Tail(@)]
         /\ written' = Append(written, x)
  /\ UNCHANGED <<typed, rx, thr, sent, irq, claimed, cons, given>>

(* uartputc: sleep while the buffer is full; consolewrite calls it for each *)
(* character.                                                               *)
Uartputc(u) ==
  /\ At(u, "putc")
  /\ IF tx.w = tx.r + UART_TX_BUF_SIZE
     THEN /\ Goes(u, "full")
          /\ tx' = [tx EXCEPT !.lock = None] /\ UNCHANGED written
     ELSE LET x == Head(act[u].left)
          IN  /\ tx' = [tx EXCEPT !.buf[TxSlot(tx.w)] = x, !.w = @ + 1]
              /\ act' = [act EXCEPT ![u].pc = "start", ![u].left = Tail(@)]
              /\ written' = Append(written, x)
  /\ UNCHANGED <<typed, rx, thr, sent, irq, claimed, cons, given>>

(* Where uartstart returns to, with the lock released.                      *)
Started(a) ==
  Goes(a, IF a \in Cpus THEN "complete" ELSE IF act[a].left = <<>> THEN "done" ELSE "txlock")

(* uartstart: a turn of the loop, which wakes the writers that wait.        *)
Uartstart(a) ==
  /\ At(a, "start")
  /\ IF tx.w = tx.r \/ ~Idle
     THEN Started(a) /\ tx' = [tx EXCEPT !.lock = None]
     ELSE /\ tx' = [tx EXCEPT !.r = @ + 1]
          /\ act' = [b \in DOMAIN act |->
               IF b = a THEN [act[a] EXCEPT !.pc = "thr"]
               ELSE IF act[b].pc = "full" THEN [act[b] EXCEPT !.pc = "txlock"] ELSE act[b]]
  /\ UNCHANGED <<typed, rx, thr, sent, irq, claimed, cons, given, written>>

(* WriteReg(THR, c)                                                         *)
WriteThr(a) ==
  /\ At(a, "thr")
  /\ Put(tx.buf[TxSlot(tx.r - 1)])
  /\ Goes(a, "start")
  /\ UNCHANGED <<typed, rx, sent, irq, claimed, cons, tx, given, written>>

-----------------------------------------------------------------------------
Init ==
  /\ typed \in Typings
  /\ rx = <<>> /\ thr = <<>> /\ sent = <<>> /\ irq = FALSE /\ claimed = FALSE
  /\ cons = [buf |-> [i \in 0 .. (INPUT_BUF_SIZE - 1) |-> None], r |-> 0, w |-> 0, e |-> 0, lock |-> None]
  /\ tx = [buf |-> [i \in 0 .. (UART_TX_BUF_SIZE - 1) |-> None], r |-> 0, w |-> 0, lock |-> None]
  /\ act = [a \in Cpus \cup Readers \cup Writers |->
       IF a \in Cpus THEN [pc |-> "run", ch |-> Echo]
       ELSE IF a \in Readers THEN [pc |-> "read", n |-> ReadSize, killed |-> FALSE]
       ELSE [pc |-> "txlock", left |-> Writes[a]]]
  /\ given = <<>> /\ written = <<>>

Interrupt(c) ==
  \/ Claim(c) \/ Complete(c) \/ Getc(c) \/ Consoleintr(c) \/ EchoWait(c) \/ EchoPut(c) \/ Store(c)
  \/ TxLock(c) \/ Uartstart(c) \/ WriteThr(c)

Reads(u) == ReadLock(u) \/ ReadTurn(u)
WriteStep(u) == TxLock(u) \/ Uartputc(u) \/ Uartstart(u) \/ WriteThr(u)

Next ==
  \/ Type \/ Send
  \/ \E c \in Cpus : Interrupt(c)
  \/ \E u \in Readers : Reads(u) \/ Kill(u)
  \/ \E u \in Writers : WriteStep(u)

(* The UART sends, and an interrupt handler and a process go on.            *)
Spec ==
  /\ Init /\ [][Next]_cvars
  /\ WF_cvars(Send)
  /\ \A c \in Cpus : WF_cvars(Interrupt(c))
  /\ \A u \in Readers : WF_cvars(Reads(u))
  /\ \A u \in Writers : WF_cvars(WriteStep(u))

-----------------------------------------------------------------------------
(* The part of the console buffer from index i up to j.                     *)
Part(i, j) == [k \in 1 .. (j - i) |-> cons.buf[Slot(i + k - 1)]]

(* The keys processors have taken from the UART and not yet stored.         *)
InHand(c) == IF c \in Cpus /\ act[c].ch # Echo THEN <<act[c].ch>> ELSE <<>>
Taking == FoldLeft(LAMBDA s, c : s \o InHand(c), <<>>, SetToSeq(Cpus))

Abstract == INSTANCE AbstractTerminal WITH
  keys <- Taking \o rx, line <- Part(cons.w, cons.e), text <- Part(cons.r, cons.w),
  Room <- INPUT_BUF_SIZE

(* Interrupts on any processor, edits and reads together do what one typist *)
(* and one reader at a terminal see: no key is lost but where the buffer is *)
(* full, none is read twice, and an entered line is not edited any more.    *)
ImplementsTerminal == Abstract!ASpec

(* The character uartstart has taken from the buffer and not yet sent.      *)
InFlight == IF \E a \in DOMAIN act : At(a, "thr") THEN <<tx.buf[TxSlot(tx.r - 1)]>> ELSE <<>>

(* What writes put into the transmit buffer comes out of the UART once and  *)
(* in order, although echoed keys are written to the UART without its lock. *)
OutputInOrder ==
  SelectSeq(sent \o thr, LAMBDA x : x # Echo) \o InFlight
    \o [k \in 1 .. (tx.w - tx.r) |-> tx.buf[TxSlot(tx.r + k - 1)]] = written

(* A write ends: a writer that sleeps on a full buffer is woken, by the     *)
(* interrupt of a UART that has become idle or by another writer.           *)
WritesEnd == <>(\A u \in Writers : At(u, "done"))
==============================================================================
