\* Two threads of one application.
CONSTANTS
  Threads <- TwoThreads
  NBuf = 2
  Pool = 2
  MaxOpens = 1
  Signals = TRUE
SPECIFICATION FairSpec
INVARIANTS
  TypeOK
  QueuesAgree
  NoFault
PROPERTIES
  ImplementsCapture
  DqbufReturns
  PollReturns
\* The kernel stops at a fault.
CHECK_DEADLOCK FALSE
