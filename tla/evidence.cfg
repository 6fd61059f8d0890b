SPECIFICATION Spec
CONSTANTS
    MaxGeneration = 5
    NativeFacts <- NativeReports
    DeobfFacts <- DeobfReports
    RaxPayloads <- RaxObservations
    r1 = r1
    r2 = r2
    Runs = {r1, r2}
    SavedFacts <- EarlierSession
    MaxObservations = 3
    Executable = {4, 5}
    CodeHeads = {2, 3}
SYMMETRY RunSymmetry
INVARIANTS
    GateIsExact
    ScanIsExact
PROPERTIES
    SinkAddsNoContradiction
    MutationsAreBacked
    MutationsAreUncontested
    ApplyConverges
    HintsStandAlone
