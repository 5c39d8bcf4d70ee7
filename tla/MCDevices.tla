------------------------------- MODULE MCDevices -------------------------------
(***************************************************************************)
(* The two device drivers side by side: the buffer cache with the disk, and *)
(* the console.  A behaviour is one of one part; the other stays where it   *)
(* begins.                                                                  *)
(***************************************************************************)
EXTENDS Disk, TLC

VARIABLE part    \* the part that runs

(* Console                                                                  *)
VARIABLES typed, rx, thr, sent, irq, claimed, cons, tx, act, given, written

call(o, k) == [do |-> o, block |-> k]

(* A pinned block while others are recycled; three requests with            *)
(* descriptors for two; two processes at one block.                         *)
MCWork ==
  {<<  <<call("log", 11)>>, <<call("write", 12), call("read", 13), call("read", 14), call("read", 12)>>, <<>>  >>,
   <<  <<call("read", 11)>>, <<call("read", 12)>>, <<call("read", 13)>>  >>,
   <<  <<call("write", 11)>>, <<call("log", 11), call("install", 11)>>, <<>>  >>}

(* A third key that finds the buffer full, erased keys, and a write of two  *)
(* characters to a transmit buffer of one.                                  *)
MCCpus == {"cpu0", "cpu1"}
MCReaders == {"r"}
MCWriters == {"w"}
MCTypings == {<<"a", "b", "cr">>, <<"a", "^U", "^D">>, <<"^P", "^H", "nl">>}

C == INSTANCE Console WITH
  Cpus <- MCCpus, Readers <- MCReaders, Writers <- MCWriters, Typings <- MCTypings, ReadSize <- 2,
  Writes <- "w" :> <<"x", "y">>, INPUT_BUF_SIZE <- 2, UART_TX_BUF_SIZE <- 1, Fifo <- 2

ASSUME DevicesAssumption == C!FifoAssumption

-----------------------------------------------------------------------------
consoleVars == <<typed, rx, thr, sent, irq, claimed, cons, tx, act, given, written>>
devVars == <<part, diskVars, consoleVars>>

DevInit ==
  /\ DiskInit /\ C!Init
  /\ \/ part = "disk" /\ typed = <<"a", "b", "cr">>
     \/ part = "console" /\ work = CHOOSE w \in MCWork : TRUE

InDisk(A) == part = "disk" /\ A /\ UNCHANGED <<part, consoleVars>>
InConsole(A) == part = "console" /\ A /\ UNCHANGED <<part, diskVars>>

DevNext == InDisk(DiskNext) \/ InConsole(C!Next)

(* The fairness of the two specifications.                                  *)
DevSpec ==
  /\ DevInit /\ [][DevNext]_devVars
  /\ \A p \in Users : WF_devVars(InDisk(UserStep(p)))
  /\ WF_devVars(InDisk(DevTake)) /\ WF_devVars(InDisk(DevDone))
  /\ WF_devVars(InDisk(IntrAck)) /\ WF_devVars(InDisk(IntrEntry)) /\ WF_devVars(InDisk(IntrEnd))
  /\ WF_devVars(InConsole(C!Send))
  /\ \A c \in MCCpus : WF_devVars(InConsole(C!Interrupt(c)))
  /\ \A u \in MCReaders : WF_devVars(InConsole(C!Reads(u)))
  /\ \A u \in MCWriters : WF_devVars(InConsole(C!WriteStep(u)))

-----------------------------------------------------------------------------
(* The properties of the parts.  See there.                                 *)
DiskReturnsHere == part = "disk" => DiskReturns
ImplementsTerminal == C!ImplementsTerminal
OutputInOrder == C!OutputInOrder
WritesEnd == part = "console" => C!WritesEnd
================================================================================
