SPECIFICATION Spec
CONSTANTS
  TableSizes <- SmallSizes
  NULL = 0
  Keys = {0, 1, 5, 7, 10, 13, 15}
  Absent = {3, 20}
  MaxDirty = 4
INVARIANT ProbesEnd
INVARIANT EveryKeyReachable
