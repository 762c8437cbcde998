CONSTANTS
  Keys = {go, pyIp, pyUser}
  GoKeys = {go}
  Limit = 2
  Window = 3
  Second = 2
  MaxEntries = 1
  MaxTime = 4
  MaxRefused = 1
SPECIFICATION Spec
INVARIANTS LessThanTwice RetrySuffices HintsClose
CHECK_DEADLOCK FALSE
