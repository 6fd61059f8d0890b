--------------------------- MODULE HexRaysBridge ---------------------------
(***************************************************************************)
(* hexrays_bridge.cpp: which records of the active view become annotations *)
(* of the decompiler's output, and where they are shown.  publish builds   *)
(* all of them anew; the text of an annotation is left out.                *)
(***************************************************************************)
EXTENDS EvidenceStore, EvidenceLifecycle

\* The defaults of HexRaysBridgeOptions, which viy_t passes to start.
MinimumConfidence == 8500
MinimumDistinctRuns == 2

trusted_proof(e) ==
    /\ e.confidence >= MinimumConfidence
    /\ e.proof \in {"StaticProof", "SymbolicProof", "UserAsserted"}

\* Mutant: a payload with a competing value is shown on its own.
ContradictedOnly(records) ==
    UNION {pair \in detect_conflicts(records) :
              \E p, q \in pair : Contradicts(p, q)}

\* Variations count as much as contradictions.
conflict_digests(records) == UNION detect_conflicts(records)

function_scopes(p, observations) ==
    {e.function : e \in {o \in observations :
        o.confidence >= MinimumConfidence /\ o.function # NoFunction}}
    \cup (IF p.fact = "FunctionCandidate" THEN {p.entry}
          ELSE IF p.fact \in {"FunctionTrait", "FunctionOutcome"} THEN {p.function}
          ELSE {})

\* Records without an annotation: regions, and edges nobody saw taken, which
\* are not evidence of dead code.
Unannotated(p) ==
    p.fact = "CodeRegion" \/ (IsEdge(p) /\ p.state = "NotObserved")

AnnotationAddress(p) ==
    CASE p.fact = "CodeTarget"         -> p.from
      [] IsEdge(p)                     -> Edge(p)[1]
      [] p.fact = "MemoryValue"        -> p.instruction
      [] p.fact = "RegisterValue"      -> p.instruction
      [] p.fact = "StringCandidate"    -> p.address
      [] p.fact = "FunctionCandidate"  -> p.entry
      [] p.fact = "FunctionTrait"      -> p.function
      [] p.fact = "FunctionOutcome"    -> p.function
      [] p.fact = "DispatchMap"        -> p.site
      [] p.fact = "CallObservation"    -> p.source

\* Lower is more important when the decompiler's list must be cut.
AnnotationPriority(p) ==
    CASE p.fact = "CodeTarget"         -> IF p.unique THEN 0 ELSE 1
      [] p.fact = "BranchReachability" -> IF p.state = "ProvenUnreachable" THEN 0 ELSE 2
      [] p.fact = "FunctionTrait"      -> IF p.trait \in {"NoReturn", "ReturnConstant"}
                                          THEN 1 ELSE 3
      [] p.fact = "FunctionOutcome"    -> IF p.stop = "TerminatedProcess" THEN 1 ELSE 3
      [] p.fact = "CallObservation"    -> IF p.result = "NoReturn" THEN 1 ELSE 2
      [] p.fact = "DispatchMap"        -> 1
      [] p.fact \in {"StringCandidate", "FunctionCandidate"} -> 4
      [] OTHER                         -> 2

make_annotation(p, observations) ==
    [payload |-> p, address |-> AnnotationAddress(p), priority |-> AnnotationPriority(p),
     function_starts |-> function_scopes(p, observations)]

CorroboratedByRuns(observations) ==
    Cardinality({e.run_id : e \in {o \in observations :
        o.confidence >= MinimumConfidence /\ o.run_id # Absent}}) >= MinimumDistinctRuns

viy_build_hexrays_annotations(view) ==
    LET conflicted == conflict_digests(Records(view))
        accepted(p) == /\ p \notin conflicted
                       /\ \/ \E e \in Observations(view, p) : trusted_proof(e)
                          \/ CorroboratedByRuns(Observations(view, p))
                       /\ ~Unannotated(p)
    IN  {make_annotation(p, Observations(view, p)) : p \in {q \in Records(view) : accepted(q)}}
=============================================================================
