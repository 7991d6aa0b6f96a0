SPECIFICATION FairSpec
CONSTANTS
  Worker = {w1, w2}
  Main = main
  Socket = {s1, s2, s3}
  Always = {s3}
  Buffer = {b1, b2}
  None = none
  MaxThreads = 1
  MaxSockets = 2
  MaxReadBuffers = 1
  Calls = {"transmit", "disconnect", "quit"}
INVARIANTS MainFindsItAlive NoneStranded BufferHeldOnce
PROPERTIES NothingStuck
CHECK_DEADLOCK FALSE
