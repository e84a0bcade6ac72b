CONSTANTS
  k1 = k1
  k2 = k2
  k3 = k3
  a1 = a1
  a2 = a2
  r1 = r1
  Keys = {k1, k2, k3}
  Values = {a1, a2}
  Garbage = Garbage
  CalcChecksum <- MCCalcChecksum
  Pushed <- MCPushed
  Spare = 2
  Readers = {r1}
SPECIFICATION Spec
INVARIANTS NoWrongChecksum
CHECK_DEADLOCK FALSE
