SPECIFICATION Spec
CONSTANTS
  Keys = {1, 2, 3, 4, 5}
  MaxKeys = 5
INVARIANTS NothingLost
CHECK_DEADLOCK FALSE
