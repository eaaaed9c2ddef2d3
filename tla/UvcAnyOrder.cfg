\* The ioctls in any order: the copy stays in bounds but for one overlap, and the abstract queue is implemented.
CONSTANTS
  NBuf = 2
  NUrb = 2
  NPkt = 2
  Length = 2
  MaxPayload = 2
  MaxOrphans = 1
  Orderly = FALSE
SPECIFICATION Spec
PROPERTIES
  CopyInBounds
  ImplementsCapture
\* The kernel stops at a fault.
CHECK_DEADLOCK FALSE
