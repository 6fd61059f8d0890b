--------------------------- MODULE AnalysisFacts ---------------------------
(***************************************************************************)
(* analysis_facts.cpp and the comparison half of evidence_store.cpp: the   *)
(* kinds of fact producers report, which of them normalize_fact accepts,   *)
(* and how two of them conflict.                                           *)
(*                                                                         *)
(* Addresses are natural numbers, Absent stands for an empty optional, and *)
(* the set-like vectors that normalization sorts and deduplicates are      *)
(* sets.  Byte strings are numbers; only their equality matters.           *)
(***************************************************************************)
EXTENDS Integers, FiniteSets

Absent == -1

CodeTarget(from, kind, target, unique) ==
    [fact |-> "CodeTarget", from |-> from, kind |-> kind, target |-> target,
     unique |-> unique]
BranchReachability(branch, successor, state) ==
    [fact |-> "BranchReachability", branch |-> branch,
     successor |-> successor, state |-> state]
CfgCandidate(from, to, state) ==
    [fact |-> "CfgCandidate", from |-> from, to |-> to, state |-> state]
MemoryValue(instruction, address, kind, bytes) ==
    [fact |-> "MemoryValue", instruction |-> instruction,
     address |-> address, kind |-> kind, bytes |-> bytes]
StringCandidate(address, bytes) ==
    [fact |-> "StringCandidate", address |-> address, bytes |-> bytes]
FunctionCandidate(entry, end) ==
    [fact |-> "FunctionCandidate", entry |-> entry, end |-> end]
FunctionTrait(function, trait, value) ==
    [fact |-> "FunctionTrait", function |-> function, trait |-> trait,
     value |-> value]
FunctionOutcome(function, stop, stopPc) ==
    [fact |-> "FunctionOutcome", function |-> function, stop |-> stop,
     stop_pc |-> stopPc]
RegisterValue(instruction, point, register, bytes) ==
    [fact |-> "RegisterValue", instruction |-> instruction, point |-> point,
     register_id |-> register, bytes |-> bytes]
(* arguments, returns: sets of [location, bytes] *)
CallObservation(source, target, kind, result, arguments, returns) ==
    [fact |-> "CallObservation", source |-> source, target |-> target,
     kind |-> kind, result |-> result, arguments |-> arguments,
     returns |-> returns]
CodeRegion(start, end, kind) ==
    [fact |-> "CodeRegion", start |-> start, end |-> end, kind |-> kind]
(* cases: a set of [selector, target] *)
DispatchMap(site, cases, default, complete) ==
    [fact |-> "DispatchMap", site |-> site, cases |-> cases,
     default_target |-> default, complete |-> complete]

RegionKindOrder == [Unknown |-> 0, Code |-> 1, Data |-> 2, Mixed |-> 3,
                    Padding |-> 4]

(* The types of the fields that are compared by order.                    *)
WellTyped(p) ==
    /\ p.fact = "CodeRegion" =>
          p.start \in Nat /\ p.end \in Nat /\ p.kind \in DOMAIN RegionKindOrder
    /\ p.fact = "FunctionCandidate" =>
          p.entry \in Nat /\ p.end \in Nat \cup {Absent}

overlapping_call_values_differ(vs, ws) ==
    \E v \in vs, w \in ws : v.location = w.location /\ v.bytes # w.bytes

(* validate_payload *)
ValidPayload(p) ==
    CASE p.fact = "FunctionCandidate" -> p.end # Absent => p.entry < p.end
      [] p.fact = "CodeRegion" -> p.start < p.end
      [] p.fact = "CallObservation" ->
            /\ ~overlapping_call_values_differ(p.arguments, p.arguments)
            /\ ~overlapping_call_values_differ(p.returns, p.returns)
            /\ p.returns # {} => p.result = "Returned"
      [] p.fact = "DispatchMap" ->
            /\ p.cases # {} \/ p.default_target # Absent
            /\ \A c, d \in p.cases :
                  (c.selector # Absent /\ c.selector = d.selector)
                     => c.target = d.target
      [] OTHER -> TRUE

proof_can_establish_unreachable(proof) ==
    proof \in {"StaticProof", "SymbolicProof", "Imported", "UserAsserted"}

(* normalize_fact: the payload is valid, and only a proof says that an    *)
(* edge cannot be taken.  validate_evidence rejects no evidence that a    *)
(* producer of the repository builds.                                     *)
ValidFact(f) ==
    /\ ValidPayload(f.payload)
    /\ (f.payload.fact \in {"BranchReachability", "CfgCandidate"}
          /\ f.payload.state = "ProvenUnreachable")
             => proof_can_establish_unreachable(f.evidence.proof)

-----------------------------------------------------------------------------
(* compare_payloads.  Each predicate is one of its cases; all of them are *)
(* symmetric, so the canonical order of the pair does not matter.         *)

Both(p, q, fact) == p.fact = fact /\ q.fact = fact

ConflictingUniqueCodeTarget(p, q) ==
    /\ Both(p, q, "CodeTarget")
    /\ p.from = q.from /\ p.kind = q.kind
    /\ p.target # q.target
    /\ p.unique \/ q.unique

IsEdge(p) == p.fact \in {"BranchReachability", "CfgCandidate"}
Edge(p) == IF p.fact = "BranchReachability"
           THEN <<p.branch, p.successor>> ELSE <<p.from, p.to>>
opposite_reachability(s, t) == {s, t} = {"Reached", "ProvenUnreachable"}

ReachableAndUnreachable(p, q) ==
    /\ IsEdge(p) /\ IsEdge(q)
    /\ Edge(p) = Edge(q)
    /\ opposite_reachability(p.state, q.state)

IsReturned(p) == p.fact = "FunctionOutcome" /\ p.stop = "Returned"
IsTrait(p, trait) == p.fact = "FunctionTrait" /\ p.trait = trait

ReturnBehaviorContradiction(p, q) ==
    /\ {p.fact, q.fact} \subseteq {"FunctionTrait", "FunctionOutcome"}
    /\ p.function = q.function
    /\ \/ IsTrait(p, "NoReturn") /\ (IsTrait(q, "Returns") \/ IsReturned(q))
       \/ IsTrait(q, "NoReturn") /\ (IsTrait(p, "Returns") \/ IsReturned(p))

region_kinds_incompatible(k, l) ==
    \/ k = "Code" /\ l \in {"Data", "Padding"}
    \/ l = "Code" /\ k \in {"Data", "Padding"}

Overlap(p, q) == p.start < q.end /\ q.start < p.end

IncompatibleCodeRegion(p, q) ==
    /\ Both(p, q, "CodeRegion")
    /\ Overlap(p, q)
    /\ region_kinds_incompatible(p.kind, q.kind)

dispatch_targets(p) ==
    {c.target : c \in p.cases} \cup ({p.default_target} \ {Absent})

(* Two maps disagree on a selector or on the default target.              *)
DispatchCasesDiffer(p, q) ==
    \/ \E c \in p.cases, d \in q.cases :
          c.selector # Absent /\ c.selector = d.selector /\ c.target # d.target
    \/ /\ p.default_target # Absent /\ q.default_target # Absent
       /\ p.default_target # q.default_target

dispatch_maps_contradict(p, q) ==
    /\ p.site = q.site
    /\ \/ (p.complete \/ q.complete) /\ DispatchCasesDiffer(p, q)
       \/ p.complete /\ ~(dispatch_targets(q) \subseteq dispatch_targets(p))
       \/ q.complete /\ ~(dispatch_targets(p) \subseteq dispatch_targets(q))

(* compare_payloads reports a Contradiction: both cannot be true.         *)
Contradicts(p, q) ==
    \/ ConflictingUniqueCodeTarget(p, q)
    \/ ReachableAndUnreachable(p, q)
    \/ ReturnBehaviorContradiction(p, q)
    \/ IncompatibleCodeRegion(p, q)
    \/ Both(p, q, "DispatchMap") /\ dispatch_maps_contradict(p, q)

Known(a, b, unknown) == a # unknown /\ b # unknown

(* compare_payloads reports a Variation or an Ambiguity.                  *)
Diverges(p, q) ==
    \/ /\ Both(p, q, "MemoryValue")
       /\ p.instruction = q.instruction /\ p.address = q.address
       /\ p.kind = q.kind /\ p.bytes # q.bytes
    \/ /\ Both(p, q, "StringCandidate")
       /\ p.address = q.address /\ p.bytes # q.bytes
    \/ /\ Both(p, q, "FunctionCandidate")
       /\ p.entry = q.entry
       /\ Known(p.end, q.end, Absent) /\ p.end # q.end
    \/ /\ Both(p, q, "FunctionTrait")
       /\ p.function = q.function /\ p.trait = q.trait
       /\ p.trait \notin {"ArgumentRegister", "Other"}
    \/ /\ Both(p, q, "FunctionOutcome")
       /\ p.function = q.function
       /\ <<p.stop, p.stop_pc>> # <<q.stop, q.stop_pc>>
    \/ /\ Both(p, q, "RegisterValue")
       /\ p.instruction = q.instruction /\ p.point = q.point
       /\ p.register_id = q.register_id /\ p.bytes # q.bytes
    \/ /\ Both(p, q, "CallObservation")
       /\ p.source = q.source
       /\ \/ Known(p.target, q.target, Absent) /\ p.target # q.target
          \/ Known(p.kind, q.kind, "Unknown") /\ p.kind # q.kind
          \/ Known(p.result, q.result, "Unknown") /\ p.result # q.result
          \/ overlapping_call_values_differ(p.arguments, q.arguments)
          \/ overlapping_call_values_differ(p.returns, q.returns)
    \/ /\ Both(p, q, "DispatchMap")
       /\ p.site = q.site
       /\ DispatchCasesDiffer(p, q) /\ ~p.complete /\ ~q.complete
=============================================================================
