SPECIFICATION FairSpec
CONSTANTS
  NPROC = 3
  Blocks = {b1, b2, b3}
  Vals = {v1, v2}
  Zero = v1
  New = v2
  Pending = {b1, b2}
  Torn = torn
  NoBuf = nobuf
  LOGSIZE = 4
  MAXOPBLOCKS = 2
  NLOG = 4
  OPBLOCKS = 1
  MaxOps = 3
  MaxCrashes = 1
INVARIANTS NoPanic CleanBuffers
PROPERTIES CrashAtomic BeginReturns
CHECK_DEADLOCK FALSE
