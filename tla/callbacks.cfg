SPECIFICATION FairSpec
CONSTANTS
  Callback = {o1, o2}
  Client = {c1}
  Loop = loop
  None = none
  Descriptor = {f1}
  Interval = {0, 1}
  Calls = {"appendTimer", "modifyTimer", "removeTimer", "appendPoll", "modifyPoll", "removePoll", "invoke", "wait", "selfInvoke"}
  MaxTime = 2
  MaxTimers = 2
  MaxTasks = 1
  MaxDepth = 4
  MaxCalls = 1
INVARIANTS
  OwnedOnce
  CallsLive
  DeadlineKept
  WatchedAreRegistered
PROPERTIES
  TimersRun
