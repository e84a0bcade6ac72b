CONSTANTS
  k1 = k1
  k2 = k2
  k3 = k3
  a1 = a1
  a2 = a2
  r1 = r1
  r2 = r2
  w1 = w1
  Keys = {k1, k2, k3}
  Values = {a1, a2}
  NoValue = NoValue
  Freed = Freed
  CalcChecksum <- MCCalcChecksum
  Pushed <- MCPushed
  Readers = {r1, r2}
  Writers = {w1}
  Rwlock = TRUE
SPECIFICATION MCSpec
INVARIANTS TypeOK NoWrongChecksum
PROPERTIES Linearizable WritersDoNotStarve
