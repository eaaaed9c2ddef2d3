\* A poll may sleep for ever, with two threads.
CONSTANTS
  Threads <- TwoThreads
  NBuf = 2
  Pool = 2
  MaxOpens = 1
  Signals = FALSE
SPECIFICATION FairSpec
PROPERTIES
  FramesKeepComing
\* The kernel stops at a fault.
CHECK_DEADLOCK FALSE
