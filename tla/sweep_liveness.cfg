\* Every producer on, under FairSpec.  A finished sweep stops.
CONSTANTS
    FunctionCount = 2
    WorkerCount = 1
    MaxEpochs = 2
    Configurations <- AllTogether
    Restored <- NothingRestored
    EditBound = 1
    MaxGeneration = 12
SPECIFICATION FairSpec
PROPERTIES
    SweepTerminates
CHECK_DEADLOCK FALSE
