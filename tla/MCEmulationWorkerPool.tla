----------------------- MODULE MCEmulationWorkerPool -----------------------
(* Instances of EmulationWorkerPool for TLC. *)
EXTENDS EmulationWorkerPool

CONSTANTS w1, w2

TwoWorkers == {w1, w2}
=============================================================================
