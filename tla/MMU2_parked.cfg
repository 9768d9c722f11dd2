SPECIFICATION Spec
CONSTANTS
  Regs8Count = 1
  Regs16Count = 1
  InitRegs8Count = 1
  MaxRetries = 2
  MaxOccurrences = 2
  MAX_RETRIES = 2
  UnitSupported = TRUE
  Scenarios <- InterruptedChange
PROPERTY UnparkedAfterToolChange
