SPECIFICATION Spec
CONSTANTS
  Regs <- MCRegs
  Vals <- MCVals
  SensorAddr = 120
  NoCall = NoCall
INVARIANTS ContentionOnlyWhileLow FreeBetweenCalls
PROPERTIES RegisterPort NoByteCutShort
