SPECIFICATION FairSpec
CONSTANTS
  NPROC = 3
  NCPU = 2
  NPRIO = 1
  MaxPick = 0
  MaxCalls = 3
  KillPids = {2}
INVARIANTS OneCpu NoLostExit 
PROPERTIES RunnableRuns WaitReturns
