SPECIFICATION Spec
CONSTANTS
  Task = {t1, t2, t3}
  Client = {c1, c2}
  Waiter = {}
  Loop = loop
  None = none
  Calls = {"invoke", "syncInvoke", "selfInvoke", "interrupt", "quit", "poll", "destroy"}
  OverloadSize = 128
  MaxDepth = 4
  MaxCalls = 1
  MaxPolls = 1
  MaxBatch = 1
  MaxPremature = 0
SYMMETRY Symmetry
INVARIANTS
  NoLostWakeup
  Fifo
  InterruptedIsDrained
  FinishedIsDrained
