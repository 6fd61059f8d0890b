\* A job is rebuilt at submission, after the database has changed.
CONSTANTS
    FunctionCount = 2
    WorkerCount = 1
    MaxEpochs = 2
    Configurations <- Dynamic
    Restored <- NothingRestored
    EditBound = 2
    MaxGeneration = 12
SPECIFICATION Spec
INVARIANTS
    GenerationHasOneFingerprint
CHECK_DEADLOCK FALSE
