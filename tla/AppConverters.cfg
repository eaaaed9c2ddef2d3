\* The cameras README.md names, on the screen main.c selects.
CONSTANTS
  Cameras <- NamedCameras
  Displays <- CrtOnly
  NbBuffer = 2
SPECIFICATION Spec
INVARIANTS
  EndsOnlyOnFailure
CHECK_DEADLOCK FALSE
