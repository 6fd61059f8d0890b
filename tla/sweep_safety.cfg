\* Two functions, three epochs, two database changes: with rax alone, and with
\* the native and deobfuscation providers alone.  A finished sweep stops.
CONSTANTS
    FunctionCount = 2
    WorkerCount = 1
    MaxEpochs = 3
    Configurations <- EachAlone
    Restored <- RestoredAtLimits
    EditBound = 2
    MaxGeneration = 11
SPECIFICATION Spec
INVARIANTS
    PipelineInOrder
    RestoredHasNoAuthority
    ActiveEvidenceIsCurrent
    CacheHasEvidence
CHECK_DEADLOCK FALSE
