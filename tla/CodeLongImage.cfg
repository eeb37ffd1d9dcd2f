CONSTANTS
  a = a
  b = b
  Data = {a, b}
  Images <- MCLongImages
  OldImages = {}
  Piece = 3
  Page = 4
  StorePages = 6
  BootPage = 4
  SysPage = 5
  InfoPage = 6
  Params = {p1, p2}
  Default = p1
SPECIFICATION Spec
PROPERTY BootsWhatWasSent
