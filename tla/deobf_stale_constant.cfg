SPECIFICATION Spec
CONSTANTS
  UnitBits <- MCUnitBits
  limits <- MClimits
  Programs <- PopPrograms
  Registers <- MCRegisters
  Unknowns <- MCUnknowns
  Callee <- MCCallee
  rodata <- MCrodata
  MaxEpoch = 2
  MaxRefused = 1
  MaxSteps = 14
PROPERTY ProvedTargetsAreTaken
CHECK_DEADLOCK FALSE
