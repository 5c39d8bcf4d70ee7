SPECIFICATION FairSpec
CONSTANTS
  NPROC = 4
  NFILE = 4
  NOFILE = 4
  PipeIds = {1}
  PIPESIZE = 2
  CtrMod = 4
  Byte0 = 0
  MAXARGS = 3
  Lines <- MCLines
  Msgs <- MCMsgs
  Lens = {1, 3}
  MaxCalls = 5
INVARIANTS FilesCounted NoLostPipeWakeup
PROPERTIES PipeIsQueue LineEnds
CHECK_DEADLOCK FALSE
