SPECIFICATION Spec
CONSTANTS
  NPROC = 2
  NCPU = 2
  Sleeps = {0, 2, 9}
  MaxTicks = 4
  MaxCalls = 2
INVARIANT NoWedge
CHECK_DEADLOCK FALSE
