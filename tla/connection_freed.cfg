SPECIFICATION Spec
CONSTANTS
  Thread = {a, b}
  Connections = 2
  Types = {"Auto", "Direct", "Queued", "Sync"}
  None = none
  Calls = {"disconnectInPassing"}
  MaxEmissions = 2
  MaxFinished = 1
INVARIANT InUseIsLive
CHECK_DEADLOCK FALSE
