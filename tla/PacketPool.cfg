CONSTANTS
  Size = 48
  Byte = 22
  MaxFrame = 19
  Lengths = {8, 9, 13, 19}
  Ids = {i1, i2}
SPECIFICATION Spec
INVARIANTS TypeOK CountMatchesTheRing RoomIsWhatIsLeft
PROPERTY FramesInOrder
SYMMETRY Symmetry
