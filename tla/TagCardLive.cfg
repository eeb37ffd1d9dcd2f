CONSTANTS
  General = {g1}
  Config = {c1}
  Test = {}
  EnEx = {}
  Undefined = {}
  Node = {n1}
  NoId = none
  cfg_icnt = 1
  cfg_xcnt = 0
  cfg_ocnt = 1
  cfg_edpc = 1
  PoolMax = 1
SPECIFICATION FairSpec
PROPERTIES ListeningEnds SilenceEndsTheSession ConfigurationEnds
CHECK_DEADLOCK FALSE
