---------------------- MODULE MCIdaEvidenceAdapter ----------------------
(* Instances of IdaEvidenceAdapter for TLC. *)
EXTENDS IdaEvidenceAdapter, TLC

CONSTANTS o1, o2, o3

ThreeObservations == {o1, o2, o3}
ObservationSymmetry == Permutations(ThreeObservations)
=============================================================================
