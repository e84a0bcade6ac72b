CONSTANTS
  Entries = {e1, e2, e3, e4, e5, e6}
  Values = {1, 2, 3}
  InitialSize = 2
  Refused = Refused
  NoEntry = NoEntry
SYMMETRY Symmetry
CONSTRAINT FewStale
SPECIFICATION Spec
INVARIANTS TypeOK HeapInvariant
PROPERTY ImplementsHeap
