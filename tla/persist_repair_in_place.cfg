\* Two crashes: one tears the marker, one falls inside the repair.
CONSTANTS
    o1 = o1
    o2 = o2
    o3 = o3
    Observations <- ThreeObservations
    DecodeLimit = 2
SPECIFICATION Spec
SYMMETRY ObservationSymmetry
INVARIANTS
    RecoveryDiscardsNothing
