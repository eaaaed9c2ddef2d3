\* Two threads, three formats, memory for two REQBUFS.
CONSTANTS
  Threads <- TwoThreads
  Formats <- AllFormats
  Blocks <- EightBlocks
  Signals = TRUE
  Orderly = TRUE
SPECIFICATION FairSpec
INVARIANTS
  TypeOK
  OwnPages
  DmaInside
  NoFault
  ScalerFits
  BurstCovers
PROPERTIES
  ReadersProgress
\* The kernel stops at a fault.
CHECK_DEADLOCK FALSE
