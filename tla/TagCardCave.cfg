CONSTANTS
  General = {g1}
  Config = {}
  Test = {}
  EnEx = {}
  Undefined = {}
  Node = {n1, n2}
  NoId = none
  cfg_icnt = 2
  cfg_xcnt = 1
  cfg_ocnt = 1
  cfg_edpc = 1
  PoolMax = 1
SPECIFICATION ASpec
SYMMETRY Symmetry
INVARIANTS TypeOK CounterBounds OneRunAtATime KnowsItsNode
PROPERTY Patience
