SPECIFICATION FairSpec
CONSTANTS
  Task = {t1, t2}
  Client = {c1}
  Waiter = {w1}
  Loop = loop
  None = none
  Calls = {"invoke", "syncInvoke", "wait", "interrupt", "quit", "selfInvoke"}
  OverloadSize = 128
  MaxDepth = 4
  MaxCalls = 1
  MaxPolls = 0
  MaxBatch = 1
  MaxPremature = 1
INVARIANTS
  SleepsOnlyWhileWaiting
PROPERTIES
  TasksRun
  QuitFinishes
  CallsReturn
  CompletedWaitReturns
