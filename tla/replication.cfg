SPECIFICATION FairSpec
CONSTANTS
  Rings = 2
  ServerSize = 2
  ClientSize = 2
  TransmitCount = 1
  None = none
  Used = {1}
  MaxIndex = 4
  MaxStep = 2
  MaxEpoch = 2
  MaxRepeats = 2
  MaxDisconnects = 1
INVARIANTS ItemsInPlace SameItems
PROPERTIES NotThrownAway CatchesUp
