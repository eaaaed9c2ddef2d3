\* Safety and liveness, for an application that keeps the order of the comments.
CONSTANTS
  NBuf = 2
  NUrb = 2
  NPkt = 2
  Length = 2
  MaxPayload = 2
  MaxOrphans = 0
  Orderly = TRUE
SPECIFICATION FairSpec
INVARIANTS
  TypeOK
  NoFault
  StoppedIsQuiet
  QueuesAgree
  DoneFirst
PROPERTIES
  AppBufferUntouched
  QueuedIsFilled
\* The kernel stops at a fault.
CHECK_DEADLOCK FALSE
