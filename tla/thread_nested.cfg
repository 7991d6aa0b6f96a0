SPECIFICATION Spec
CONSTANTS
  Task = {t1, t2, t3}
  Client = {c1}
  Waiter = {w1, w2}
  Loop = loop
  None = none
  Calls = {"invoke", "selfInvoke", "wait", "interrupt", "quit", "destroy"}
  OverloadSize = 1
  MaxDepth = 6
  MaxCalls = 1
  MaxPolls = 0
  MaxBatch = 0
  MaxPremature = 1
SYMMETRY Symmetry
INVARIANTS
  TypeOK
  QueueInv
  OutermostIsAnnounced
PROPERTIES
  FinishedIsFinal
  ImplementsTaskQueue
