CONSTANTS
  Event = {e1, e2, e3}
  Times = {1, 4}
  Width = 4
  Reload = 1
  ArrayLen = 3
  MaxOps = 4
SPECIFICATION FairSpec
INVARIANTS NothingIsForgotten NeverEarly
PROPERTY EverySignal
CHECK_DEADLOCK FALSE
