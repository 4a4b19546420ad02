SPECIFICATION Spec
CONSTANTS
  Backend = {"tcp", "rtu"}
  Recovery <- MCRecovery
  Request <- MCRequest
  Raw <- MCRaw
  Bits <- MCBits
  Regs <- MCRegs
  InputBits <- MCInputBits
  InputRegs <- MCInputRegs
  TidSpan = 4
  MaxCalls = 2
  MaxFaults = 1
INVARIANTS TypeOK SizesAgree AnswerOwn
PROPERTIES ServedOnce
CHECK_DEADLOCK FALSE
