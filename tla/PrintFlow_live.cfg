SPECIFICATION FairSpec
CONSTANTS
  LineEnd <- FileEnds
  Blank <- FileBlank
  Hash <- FileHash
  EndPos = 6
  QUEUE_MAX = 3
  BUFSIZE = 4
  BLOCK_BUFFER_SIZE = 2
  MAX_SEGMENTS = 2
  SDLEN_MOD = 65536
  Events <- UserOnly
PROPERTIES PrintCompletes RunoutResumes
