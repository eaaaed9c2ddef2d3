\* Calls in any order, with failures, unplugging, suspend and resume.
CONSTANTS
  NBuf = 2
  NUrb = 2
  NPkt = 2
  Length = 2
  MaxPayload = 1
  MaxMaps = 1
SPECIFICATION Spec
INVARIANTS
  TypeOK
  QueuesAgree
  OneFrame
  DisconnectedIsDrained
  SleeperIsWoken
PROPERTIES
  ImplementsCapture
\* Nothing is said after a list is corrupted.
CHECK_DEADLOCK FALSE
