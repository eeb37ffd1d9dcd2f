CONSTANTS
  General = {g1}
  Config = {}
  Test = {}
  EnEx = {}
  Undefined = {}
  Node = {n1}
  NoId = none
  cfg_icnt = 1
  cfg_xcnt = 1
  cfg_ocnt = 1
  cfg_edpc = 1
  PoolMax = 1
SPECIFICATION ASpec
PROPERTY TrueWakeUp
CHECK_DEADLOCK FALSE
