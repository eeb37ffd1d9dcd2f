CONSTANTS
  a = a
  b = b
  Data = {a, b}
  Images <- MCImages
  OldImages <- MCOldImages
  Piece = 2
  Page = 3
  StorePages = 3
  BootPage = 2
  SysPage = 3
  InfoPage = 4
  Params = {p1, p2}
  Default = p1
SPECIFICATION Spec
INVARIANTS TypeOK StoreHoldsWhatIsSummed ParamsKept NoHole
PROPERTY BootsWhatWasAccepted
