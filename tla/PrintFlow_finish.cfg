SPECIFICATION Spec
CONSTANTS
  LineEnd <- FileEnds
  Blank <- FileBlank
  Hash <- None
  EndPos = 6
  QUEUE_MAX = 3
  BUFSIZE = 4
  BLOCK_BUFFER_SIZE = 4
  MAX_SEGMENTS = 2
  SDLEN_MOD = 65536
  Events <- PauseOnly
INVARIANT FinishedMeansPrinted
