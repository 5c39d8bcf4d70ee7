SPECIFICATION FairSpec
CONSTANTS
  NPROC = 3
  MAXSEM = 2
  Locks = {0, 1}
  Chans = {0, 1}
  NoChan = NoChan
  OpenValues <- MCOpenValues
  MaxCalls = 3
INVARIANT NoLostWakeup
PROPERTIES  WaiterServed
CHECK_DEADLOCK FALSE
