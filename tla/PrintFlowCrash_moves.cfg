SPECIFICATION SpecCrash
CONSTANTS
  LineEnd <- FileEnds
  Blank <- None
  Hash <- None
  EndPos = 5
  QUEUE_MAX = 3
  BUFSIZE = 4
  BLOCK_BUFFER_SIZE = 3
  MAX_SEGMENTS = 1
  SDLEN_MOD = 65536
  Events <- None
PROPERTY StoppedMeansNoMoves
