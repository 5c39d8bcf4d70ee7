SPECIFICATION MountSpec
CONSTANTS
  N = 7
  B = 2
  DirCap = 4
  Names = {"a", "b", "c", "d", "d/x", "log"}
  Dirs = {"d"}
  Parent <- MCParent
  Log = "log"
  Vals = {0, 1}
  LogVal = 1
  Image <- MCImage
  Links <- MCLinks
  Old = 0
  Offs = {0, 2, 3}
  Lens = {1, 3}
  MaxOps = 4
INVARIANT ImageHasFiles
CHECK_DEADLOCK FALSE
