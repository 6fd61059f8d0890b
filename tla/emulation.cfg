\* The emulation pipeline on small programs.
SPECIFICATION Spec
CONSTANTS
    Scenarios <- MCScenarios
    PtrSize = 2
    ValueBytes = 2
    EvidenceValueBytes = 2
    StackBase = 32
    StackSize = 24
    HeapLo = 36
    HeapHi = 40
    Sentinel = 34
    EntrySp = 48
    ArgumentRegisters = 2
    PageSize = 4
    MaxInsns = 8
    MaxRuntimeBytes = 6
    MaxResumptions = 2
    MaxModelBytes = 4
    MaxStringBytes = 3
    MaxStates = 2
    HeapAlign = 2
    MinimumCharacters = 2
    MaxCandidateBytes = 8
    MaxCandidatesPerWrite = 2
    MaxCommentSites = 2
    MinPointer = 4
    MinStringLength = 3
    MaxWalk = 4
    MinOutcomes = 3
    AuditBudget = 8
    AuditWindow = 2
    Runs = 2
    SeedStep = 4
    QueueBound = 1
    EditBound = 2
CHECK_DEADLOCK FALSE
INVARIANTS
    RunsAreIsolated
    RunStaysInBudget
    AccessesNameTheirInstruction
    FinalWritesReplay
PROPERTIES
    RefusedWritesLeaveNoTrace
    PatchesAreCorroborated
    UserWorkSurvives
    StringsAreExact
    FunctionsAreCorroborated
    AuditFactsAreCurrent
