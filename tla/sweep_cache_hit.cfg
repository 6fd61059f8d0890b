\* The entry inputs of a function change and change back while an epoch runs.
CONSTANTS
    FunctionCount = 1
    WorkerCount = 1
    MaxEpochs = 3
    Configurations <- Dynamic
    Restored <- NothingRestored
    EditBound = 3
    MaxGeneration = 12
SPECIFICATION Spec
INVARIANTS
    CacheHitKeepsEvidence
CHECK_DEADLOCK FALSE
