SPECIFICATION Spec
CONSTANTS
  UnitBits <- MCUnitBits
  limits <- MClimits
  Programs <- AllPrograms
  Registers <- MCRegisters
  Unknowns <- MCUnknowns
  Callee <- MCCallee
  rodata <- MCrodata
  MaxEpoch = 2
  MaxRefused = 1
  MaxSteps = 14
INVARIANTS
  EpochIsComplete
  ProvedValuesHold
  DispatchEdgesAreFollowed
PROPERTIES
  ProvedTargetsAreTaken
  UnreachableIsNotReached
CHECK_DEADLOCK FALSE
