SPECIFICATION Spec
CONSTANTS
  Thread = {a, b}
  Connections = 2
  Types = {"Auto", "Direct", "Queued", "Sync"}
  None = none
  Calls = {}
  MaxEmissions = 2
  MaxFinished = 1
SYMMETRY Symmetry
INVARIANTS InUseIsLive InOrder LastCallBeforeDeletion NoCircle
CHECK_DEADLOCK FALSE
