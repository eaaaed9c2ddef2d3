\* A buffer goes on growing after the end of its frame.
CONSTANTS
  NBuf = 2
  NUrb = 1
  NPkt = 2
  Length = 2
  MaxPayload = 1
  MaxOrphans = 1
  Orderly = TRUE
SPECIFICATION Spec
PROPERTIES
  DoneFrameClosed
\* The kernel stops at a fault.
CHECK_DEADLOCK FALSE
