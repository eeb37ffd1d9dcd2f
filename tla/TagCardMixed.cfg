CONSTANTS
  General = {g1}
  Config = {}
  Test = {t1}
  EnEx = {e1}
  Undefined = {}
  Node = {}
  NoId = none
  cfg_icnt = 1
  cfg_xcnt = 0
  cfg_ocnt = 0
  cfg_edpc = 2
  PoolMax = 1
SPECIFICATION FairSpec
INVARIANT EntrySession
PROPERTY ExitEnds
CHECK_DEADLOCK FALSE
