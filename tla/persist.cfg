\* Crashes at every step, torn blobs and markers, failed read-backs and writes.
CONSTANTS
    o1 = o1
    o2 = o2
    o3 = o3
    Observations <- ThreeObservations
    DecodeLimit = 2
SPECIFICATION Spec
SYMMETRY ObservationSymmetry
INVARIANTS
    CommittedSurvives
PROPERTIES
    NeverCommitsPartial
    WriteReadsBack
    RepairRestoresAll
