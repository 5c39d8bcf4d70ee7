SPECIFICATION PartsSpec
CONSTANTS
  MemProcs = {1, 2, 3}
  NPages = 28
  K = 4
  PGSIZE = 2
  Programs <- MCPrograms
  MemScripts <- MCMemScripts
INVARIANTS PagesAccounted MemTestsPass SleepsLongEnough ForegroundAwaited 
PROPERTIES PrivateMemory    
CHECK_DEADLOCK FALSE
