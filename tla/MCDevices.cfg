SPECIFICATION DevSpec
CONSTANTS
  Users = {1, 2, 3}
  DBlocks = {11, 12, 13, 14}
  NBUF = 3
  NUM = 8
  IdxMod = 16
  Before = 15
  Work <- MCWork
INVARIANTS ReadsLatest DescriptorsCounted OutputInOrder
PROPERTIES DiskReturnsHere  WritesEnd
CHECK_DEADLOCK FALSE
