SPECIFICATION Spec
CONSTANTS
  LineEnd <- FileEnds
  Blank <- FileBlank
  Hash <- FileHash
  EndPos = 6
  QUEUE_MAX = 3
  BUFSIZE = 4
  BLOCK_BUFFER_SIZE = 3
  MAX_SEGMENTS = 2
  SDLEN_MOD = 65536
  Events <- AllEvents
INVARIANTS TypeOK NoLineSkipped NoMoveRepeated NoGap SavedMeansQuiet BuflenAgrees
PROPERTY ImplementsFilePrint
