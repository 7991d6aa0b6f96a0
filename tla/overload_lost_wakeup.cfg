SPECIFICATION Spec
CONSTANTS
  Task = {t1, t2, t3}
  Client = {c1}
  Waiter = {}
  Loop = loop
  None = none
  Calls = {"invoke"}
  OverloadSize = 1
  MaxDepth = 3
  MaxCalls = 0
  MaxPolls = 0
  MaxBatch = 0
  MaxPremature = 0
SYMMETRY Symmetry
INVARIANTS
  NoLostWakeup
