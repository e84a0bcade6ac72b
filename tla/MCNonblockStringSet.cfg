CONSTANTS
  a = a
  b = b
  c = c
  t1 = t1
  t2 = t2
  NoWord = NoWord
  Words <- MCWords
  Threads = {t1, t2}
  Survivor = t1
  BinsLength = 2
  HashCode <- MCHashCode
SPECIFICATION MCSpec
INVARIANTS TypeOK EveryNodeInItsBin NoDuplicates
PROPERTIES AppendOnly Linearizable SurvivorReturns
