\* The application on every camera and screen.
CONSTANTS
  Cameras <- AllCameras
  Displays <- BothDisplays
  NbBuffer = 3
SPECIFICATION FairSpec
INVARIANTS
  TypeOK
  FrameBelongsToApp
  NoOverrun
  PictureInPlace
PROPERTIES
  EveryBufferShown
\* The program ends.
CHECK_DEADLOCK FALSE
