\* A call that follows a timed-out one can report success without having sent its data.
CONSTANTS
  Transfers <- MCLong
  MaxMsgs = 3
SPECIFICATION Spec
INVARIANT SuccessAlwaysMeansAllMoved
