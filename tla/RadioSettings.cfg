CONSTANTS
  Chips <- MCChips
  Bands <- MCBands
  Channels = {10, 11, 26, 27, 43, 278}
  Addresses = {4660, 60930}
  PanIds = {7}
  ResetValue <- MCResetValue
SPECIFICATION Spec
INVARIANTS TypeOK AllOrNothing
PROPERTY ChannelReadsBack
