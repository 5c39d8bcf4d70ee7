SPECIFICATION Spec
CONSTANTS
  Procs = {1, 2}
  NINODE = 7
  NInodes = 7
  NBlocks = 14
  UPB = 2
  NDIRECT = 1
  NINDIRECT = 3
  MaxWrite = 2
  NFILE = 4
  Regs = {1, 2, 3}
  MkfsFiles <- MCFiles
  SysCalls <- MCCalls
  Scripts <- MCScripts
  Long <- MCLong
INVARIANTS DiskConsistent RefsCounted TestsPass NoLockCycle
CHECK_DEADLOCK FALSE
