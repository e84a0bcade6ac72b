CONSTANTS
  k1 = k1
  k2 = k2
  a1 = a1
  a2 = a2
  r1 = r1
  w1 = w1
  Keys = {k1, k2}
  Values = {a1, a2}
  NoValue = NoValue
  Freed = Freed
  CalcChecksum <- MCCalcChecksum
  Pushed <- MCPushed
  Readers = {r1}
  Writers = {w1}
  Rwlock = FALSE
SPECIFICATION ShutdownSpec
INVARIANTS NoWrongChecksum
CHECK_DEADLOCK FALSE
