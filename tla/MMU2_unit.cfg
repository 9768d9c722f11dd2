SPECIFICATION FairSpec
CONSTANTS
  Regs8Count = 1
  Regs16Count = 1
  InitRegs8Count = 1
  MaxRetries = 2
  MaxOccurrences = 3
  MAX_RETRIES = 2
  UnitSupported = TRUE
  Scenarios <- Covered
INVARIANTS TypeOK OneOutstanding OperationRestores
PROPERTIES FinishedMeansDone ReadReturnsRegister OperationEnds DeadIsReported ErrorIsHandled
