\* A repair that cannot be staged, then a write.
CONSTANTS
    o1 = o1
    o2 = o2
    o3 = o3
    Observations <- ThreeObservations
    DecodeLimit = 2
SPECIFICATION Spec
SYMMETRY ObservationSymmetry
PROPERTIES
    PersistedLedgerIsAppendOnly
