----------------------- MODULE MCEvidenceApplication -----------------------
(* A function at 1 with a branch at 2, a dispatch at 3 and code up to 8.  *)
EXTENDS EvidenceApplication, TLC

CONSTANTS r1, r2

RunSymmetry == Permutations({r1, r2})

Proposed(p, proof, confidence) ==
    [payload |-> p, proof |-> proof, confidence |-> confidence]
Case(selector, target) == [selector |-> selector, target |-> target]
Value(location, bytes) == [location |-> location, bytes |-> bytes]

NativeReports ==
    {Proposed(FunctionCandidate(4, 6), "StaticProof", 8000),
     Proposed(FunctionCandidate(5, Absent), "StaticProof", 8000),
     Proposed(FunctionCandidate(4, 4), "StaticProof", 8000),
     Proposed(CodeTarget(2, "Call", 4, TRUE), "SymbolicProof", 8900),
     Proposed(CodeRegion(0, 6, "Code"), "StaticProof", 9500),
     Proposed(CodeRegion(7, 8, "Code"), "StaticProof", 9500)}

DeobfReports ==
    {Proposed(BranchReachability(2, 1, "ProvenUnreachable"), "StaticProof", 9900),
     Proposed(BranchReachability(2, 16, "ProvenUnreachable"), "StaticProof", 9900),
     Proposed(CodeRegion(1, 2, "Padding"), "Heuristic", 7000),
     Proposed(CodeRegion(4, 5, "Data"), "Heuristic", 7000),
     Proposed(DispatchMap(3, {Case(0, 4)}, Absent, TRUE), "Heuristic", 9000),
     Proposed(DispatchMap(3, {Case(0, 5), Case(1, 4)}, Absent, FALSE),
              "Heuristic", 9000),
     Proposed(DispatchMap(3, {Case(0, 4), Case(0, 5)}, Absent, FALSE),
              "Heuristic", 9000),
     Proposed(FunctionTrait(1, "NoReturn", 0), "Heuristic", 7200)}

RaxObservations ==
    {CodeTarget(2, "Call", 4, FALSE),
     CodeTarget(2, "Call", 5, FALSE),
     CfgCandidate(2, 1, "Reached"),
     CfgCandidate(2, 16, "ProvenUnreachable"),
     FunctionOutcome(1, "Returned", 8),
     FunctionOutcome(1, "Faulted", 3),
     MemoryValue(2, 9, "Read", 1),
     MemoryValue(2, 9, "Read", 2),
     CallObservation(2, 4, "Call", "Returned", {}, {Value("rax", 1)}),
     CallObservation(2, Absent, "Unknown", "Returned", {}, {Value("rax", 2)})}

(* A user assertion and a native fact of an earlier session.              *)
EarlierSession ==
    {[payload |-> FunctionTrait(1, "Returns", 0),
      evidence |-> [producer |-> "native", function |-> Function,
                    generation |-> 1, proof |-> "StaticProof",
                    confidence |-> 9500, run_id |-> Absent]],
     [payload |-> BranchReachability(2, 16, "Reached"),
      evidence |-> [producer |-> "user", function |-> NoFunction,
                    generation |-> 1, proof |-> "UserAsserted",
                    confidence |-> 10000, run_id |-> Absent]]}
=============================================================================
