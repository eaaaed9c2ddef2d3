\* A second session of one thread.
CONSTANTS
  Threads <- OneThread
  Formats <- AllFormats
  Blocks <- EightBlocks
  Signals = FALSE
  Orderly = FALSE
SPECIFICATION Spec
INVARIANTS
  ReadsFilledBuffers
\* The kernel stops at a fault.
CHECK_DEADLOCK FALSE
