SPECIFICATION UnitsSpec
CONSTANTS
  PwmLevels = 8
  FastMax = 2
  TimerW = 8
  TimerPeriod = 3
  BUFLINES = 2
  MAX_CMD_SIZE = 3
  CMDHDRSIZE = 1
  RESERVE_FRONT = 5
  FrontLens = {2}
  UiLens = {1}
  SdLens = {2}
  UiWhileReceiving = FALSE
  Fans = {0, 1}
  MaxFanErrors = 2
  ErrorCounts = 5
  PrintLines = 2
  MeshZ = 1
  PausedWithMesh = TRUE
  Z_PAUSE_LIFT = 4
  UVLO_Z_AXIS_SHIFT = 2
  UVLO_TINY_Z_AXIS_SHIFT = 1
  HostLines = 3
  HostMoves = {1, 3}
  HostQueueMax = 2
  HostBlockMax = 2
  HostWireMax = 2
  LINES_MOD = 256
  HostFaults = 1
  HostSaves = 2
  RX_BUFFER_SIZE = 3
  StartsUnacknowledged = FALSE
  MaxTemp = 4
  HeaterTargets = {2, 4}
  Hysteresis = 2
  RunawayTimeout = 3
  PreheatChecks = 2
  PreheatErrors = 2
  PreheatDelta = 2
  QueueSize = 4
  Moves <- MixedMoves
  SafeMax = 3
  JunctionSpeeds = {4}
  Units = {"panic"}
INVARIANT NozzleAtPrint
CHECK_DEADLOCK FALSE
