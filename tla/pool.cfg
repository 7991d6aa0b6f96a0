SPECIFICATION FairSpec
CONSTANTS
  Worker = {w1, w2}
  Other = {o1}
  Main = main
  Job = {j1, j2}
  None = none
  Calls = {"async", "asyncOn", "create", "destroy", "quit", "exit"}
  WorkThreads = 1
  MaxDepth = 6
  MaxCalls = 3
  MaxCallbacks = 2
INVARIANTS
  UsedIsAlive
  OwnedOnce
  JobInOnePlace
PROPERTIES
  ResultsDelivered
  WorkersDeleted
  CallsReturn
