------------------------ MODULE EvidenceApplication ------------------------
(***************************************************************************)
(* From producers to the database: the native sink and the emulation       *)
(* bridge add facts to the ledger, the deobfuscation sink adds them only   *)
(* where they contradict nothing in its view (deobf_analysis_store.cpp),   *)
(* and viy_apply_evidence plans mutations from the active view             *)
(* (evidence_apply_policy.cpp) and performs them on the IDB                *)
(* (evidence_apply.cpp, viy_try_add_cref), after which the same view is    *)
(* published to the decompiler (hexrays_bridge.cpp).                       *)
(*                                                                         *)
(* The program is one function, Function.  The IDB is a record: code       *)
(* references <<from, to>>, functions [entry, end], and the unreachable    *)
(* comments <<branch, successor>>.                                         *)
(***************************************************************************)
EXTENDS HexRaysBridge

CONSTANTS
    NativeFacts,        \* [payload, proof, confidence] the native provider
    DeobfFacts,         \* and the deobfuscation provider may report
    RaxPayloads,        \* what the emulator may observe
    Runs,               \* run ids of the emulator
    SavedFacts,         \* the ledger the persistence adapter holds
    MaxObservations,    \* bound on the ledger
    Executable,         \* mapped, executable, not an item tail
    CodeHeads           \* instruction starts

Function == 1

(* A saved ledger is finite and passed validate_fact when it was made;    *)
(* the producer "user" stands for a user assertion.                       *)
ASSUME SavedFactsAssumption ==
    /\ IsFiniteSet(SavedFacts)
    /\ \A f \in SavedFacts :
          /\ ValidFact(f)
          /\ f.evidence.producer = "user" => f.evidence.proof = "UserAsserted"

VARIABLES
    evidence,                  \* the EvidenceStore
    generation_allocator,
    provider_generation,       \* also the active generation of the sink
    identity,                  \* generation of Function
    idb,
    published                  \* the HexRaysRuntimeSnapshot

vars == <<evidence, generation_allocator, provider_generation, identity, idb,
          published>>

AllPayloads == Records(NativeFacts \cup DeobfFacts \cup SavedFacts)
                  \cup RaxPayloads

ASSUME PayloadsAssumption == \A p \in AllPayloads : WellTyped(p)

(* viy_t::viy_t restores the ledger; when that fails it starts empty.     *)
Init ==
    /\ evidence \in {EmptyStore, StoreOf(SavedFacts)}
    /\ generation_allocator =
          Seed({f.evidence.generation : f \in evidence.facts})
    /\ provider_generation = 0
    /\ identity = 0
    /\ idb = [crefs |-> {}, functions |-> {}, comments |-> {}]
    /\ published = {}

-----------------------------------------------------------------------------
(* viy_t::begin_epoch: a provider generation for the new scan, and a      *)
(* generation for the function unless its identity is unchanged.          *)
BeginEpoch ==
    /\ Cardinality(generation_allocator.used) + 2 <= MaxGeneration
    /\ LET scan == Allocate(generation_allocator)
           changed == Allocate(scan)
       IN /\ provider_generation' = scan.last
          /\ \/ generation_allocator' = changed /\ identity' = changed.last
             \/ /\ identity # 0
                /\ generation_allocator' = scan /\ identity' = identity
    /\ UNCHANGED <<evidence, idb, published>>

Fact(p, producer, generation, proof, confidence, run) ==
    [payload |-> p,
     evidence |-> [producer |-> producer, function |-> Function,
                   generation |-> generation, proof |-> proof,
                   confidence |-> confidence, run_id |-> run]]

LedgerRoom == Cardinality(evidence.facts) < MaxObservations

(* NativeEvidenceStoreSink::emit_analysis_fact *)
EmitNative(n) ==
    /\ provider_generation # 0 /\ LedgerRoom
    /\ evidence' = Add(evidence, Fact(n.payload, "native",
                                      provider_generation, n.proof,
                                      n.confidence, Absent))
    /\ UNCHANGED <<generation_allocator, provider_generation, identity, idb,
                   published>>

(* viy_record_emulation_evidence, for one observed fact of a run          *)
RecordEmulation(p, run) ==
    /\ identity # 0 /\ LedgerRoom
    /\ evidence' = Add(evidence, Fact(p, "rax", identity, "Observed", 8500,
                                      run))
    /\ UNCHANGED <<generation_allocator, provider_generation, identity, idb,
                   published>>

(* Mutant: the gate is left open.                                         *)
GateOpen(f) == FALSE

(* emit_deobf_fact suppresses the fact.                                   *)
Suppressed(f) ==
    /\ InView(f.evidence, provider_generation)
    /\ new_contradiction(evidence, f.payload, provider_generation)

(* DeobfEvidenceStoreSink::emit_deobf_fact.  Asking builds the index      *)
(* whether or not the fact is then added.                                 *)
EmitDeobf(d) ==
    /\ provider_generation # 0 /\ LedgerRoom
    /\ LET f == Fact(d.payload, "deobf", provider_generation, d.proof,
                     d.confidence, Absent)
           queried == Queried(evidence, d.payload, provider_generation)
       IN evidence' = IF ~ValidFact(f) THEN evidence
                      ELSE IF Suppressed(f) THEN queried
                      ELSE Add(queried, f)
    /\ UNCHANGED <<generation_allocator, provider_generation, identity, idb,
                   published>>

-----------------------------------------------------------------------------
(* Mutant: the whole history counts as active.                            *)
WholeHistory == evidence.facts

(* viy_t::active_evidence_view *)
ActiveView ==
    {f \in evidence.facts :
        IsActive(f.evidence, provider_generation, {Function},
                 [fn \in {Function} |-> identity])}

StrongProof(e) ==
    /\ e.proof \in {"StaticProof", "SymbolicProof", "UserAsserted"}
    /\ e.confidence >= 9000

(* is_corroborated with the floors of the policy                          *)
Corroborated(observations) ==
    Cardinality({e.run_id : e \in {o \in observations :
        o.confidence >= 8000 /\ o.run_id # Absent}}) >= 2

evidence_is_automatically_actionable(observations) ==
    \/ \E e \in observations : StrongProof(e)
    \/ Corroborated(observations)

function_candidate_is_actionable(observations) ==
    \/ \E e \in observations : e.proof = "StaticProof" /\ e.confidence >= 7500
    \/ Corroborated(observations)

(* Mutant: contradictions do not hold a mutation back.                    *)
TrustedAnyway(view, contradicted, p) ==
    evidence_is_automatically_actionable(Observations(view, p))

(* classify_record for targets and branches                               *)
Trusted(view, contradicted, p) ==
    /\ p \notin contradicted
    /\ evidence_is_automatically_actionable(Observations(view, p))

(* The records of the plan whose decision is Actionable, function         *)
(* recovery and comments being enabled.                                   *)
Actionable(view) ==
    LET records == Records(view)
        contradicted == contradicted_payload_digests(records)
    IN {p \in records :
          \/ /\ p.fact = "CodeTarget"
             /\ p.kind \in {"Call", "Jump", "TableEntry"}
             /\ Trusted(view, contradicted, p)
          \/ /\ p.fact = "FunctionCandidate" /\ p \notin contradicted
             /\ function_candidate_is_actionable(Observations(view, p))
          \/ /\ p.fact = "BranchReachability"
             /\ p.state = "ProvenUnreachable"
             /\ Trusted(view, contradicted, p)}

(* Mutant: a known reference is added again.                              *)
AddsCrefAgain(p) ==
    p.fact = "CodeTarget" /\ p.target \in Executable /\ p.from \in CodeHeads

(* viy_try_add_cref.  Queueing an unexplored target for autoanalysis is   *)
(* IDA's business.                                                        *)
AddsCref(p) ==
    /\ p.fact = "CodeTarget"
    /\ p.target \in Executable /\ p.from \in CodeHeads
    /\ <<p.from, p.target>> \notin idb.crefs

(* The function add_func makes of a candidate; without an end IDA finds   *)
(* one, here the shortest.                                                *)
CandidateFunction(p) ==
    [entry |-> p.entry, end |-> IF p.end = Absent THEN p.entry + 1 ELSE p.end]
FunctionsOverlap(f, g) == f.entry < g.end /\ g.entry < f.end

(* The candidates viy_apply_evidence hands to add_func: executable, and   *)
(* owned by no function.                                                  *)
AddableFunctions(actionable) ==
    {CandidateFunction(p) : p \in {c \in actionable :
        /\ c.fact = "FunctionCandidate" /\ c.entry \in Executable
        /\ ~\E f \in idb.functions : f.entry <= c.entry /\ c.entry < f.end}}

(* add_func refuses to overlap a function, so of candidates that overlap  *)
(* one is made: some maximal set without overlaps.                        *)
add_func(candidates, created) ==
    LET free == {c \in candidates :
                    ~\E f \in idb.functions : FunctionsOverlap(c, f)}
    IN /\ created \subseteq free
       /\ \A f, g \in created : f # g => ~FunctionsOverlap(f, g)
       /\ \A c \in free \ created : \E f \in created : FunctionsOverlap(c, f)

(* The text of the comment on successor s, which ends in its hexadecimal  *)
(* digits, occurs in the text of the comment on t.                        *)
TextOccurs(s, t) == s \in {t, t \div 16, t \div 256}

(* append_comment.  Records are applied in address order, so the text of  *)
(* one of them never occurs in one applied before it in the same pass.    *)
AddsComment(p) ==
    /\ p.fact = "BranchReachability"
    /\ ~\E c \in idb.comments : c[1] = p.branch /\ TextOccurs(p.successor, c[2])

NewCrefs(actionable) ==
    {<<p.from, p.target>> : p \in {q \in actionable : AddsCref(q)}}
NewComments(actionable) ==
    {<<p.branch, p.successor>> :
        p \in {q \in actionable : AddsComment(q)}}

(* HexRaysEvidenceBridge::publish replaces the whole snapshot.            *)
PublishAnnotations == published' = viy_build_hexrays_annotations(ActiveView)

(* The end of an epoch: viy_apply_evidence on the active view, and the    *)
(* bridge's publish.                                                      *)
ApplyEvidence ==
    /\ provider_generation # 0
    /\ LET actionable == Actionable(ActiveView)
           candidates == AddableFunctions(actionable)
       IN \E created \in SUBSET candidates :
            /\ add_func(candidates, created)
            /\ idb' = [crefs |-> idb.crefs \cup NewCrefs(actionable),
                       functions |-> idb.functions \cup created,
                       comments |-> idb.comments \cup NewComments(actionable)]
    /\ PublishAnnotations
    /\ UNCHANGED <<evidence, generation_allocator, provider_generation,
                   identity>>

Next ==
    \/ BeginEpoch
    \/ \E n \in NativeFacts : EmitNative(n)
    \/ \E d \in DeobfFacts : EmitDeobf(d)
    \/ \E p \in RaxPayloads, run \in Runs : RecordEmulation(p, run)
    \/ ApplyEvidence

Spec == Init /\ [][Next]_vars

-----------------------------------------------------------------------------
ViewRecords(generation) ==
    {p \in Records(evidence.facts) : ActiveIn(evidence.facts, p, generation)}
ContradictoryPairs(records) ==
    UNION {{{p, q} : q \in {r \in records : Contradicts(p, r)}} : p \in records}

QueryPayloads == {p \in AllPayloads : ValidPayload(p)}

(* new_contradiction, which only visits one bucket or a window of regions *)
(* of an index kept up to date by add, answers as a comparison with every *)
(* payload of the view would: for each payload, in the view of the active *)
(* generation and in that of 0 (all observations).                        *)
GateIsExact ==
    \A g \in {0, provider_generation} : \E view \in {ViewRecords(g)} :
       \A p \in QueryPayloads :
          new_contradiction(evidence, p, g)
             <=> p \notin view /\ \E q \in view : Contradicts(p, q)

(* The buckets and the region sweep of detect_conflicts lose no pair of   *)
(* payloads that compare_payloads calls conflicting, and the fast scan    *)
(* automatic application relies on finds exactly the payloads that take   *)
(* part in a contradiction among them, in the whole ledger and in the     *)
(* active view.                                                           *)
ScanIsExact ==
    \A facts \in {evidence.facts, ActiveView} :
       LET conflicts == detect_conflicts(Records(facts))
       IN  /\ conflicts =
                UNION {{{p, q} : q \in {r \in Records(facts) :
                                          p # r /\ (Contradicts(p, r) \/ Diverges(p, r))}}
                         : p \in Records(facts)}
           /\ contradicted_payload_digests(Records(facts)) =
                UNION {pair \in conflicts : \E p, q \in pair : Contradicts(p, q)}

GatedStep ==
    (\E f \in evidence'.facts \ evidence.facts : f.evidence.producer = "deobf")
       => ContradictoryPairs(ViewRecords(provider_generation)')
             = ContradictoryPairs(ViewRecords(provider_generation))

(* emit_deobf_fact never adds a contradiction to the view of the active   *)
(* generation, whatever the other producers put there before.             *)
SinkAddsNoContradiction == [][GatedStep]_vars

(* Evidence of a generation in force, or of the user.                     *)
Current(e) ==
    \/ e.proof = "UserAsserted"
    \/ e.generation = IF e.producer \in {"rax", "static"}
                      THEN identity ELSE provider_generation
TrustedProofs == {"StaticProof", "SymbolicProof", "UserAsserted"}

(* Among the current evidence of a payload is a proof of one of the kinds *)
(* with the first confidence, or are two runs with the second.            *)
Backed(p, proofs, proved, seen) ==
    LET current == {e \in Observations(evidence.facts, p) : Current(e)} IN
    \/ \E e \in current : e.proof \in proofs /\ e.confidence >= proved
    \/ \E e1, e2 \in current :
          /\ e1.run_id # Absent /\ e1.confidence >= seen
          /\ e2.run_id # Absent /\ e2.confidence >= seen
          /\ e1.run_id # e2.run_id

BackedMutation(p) == Backed(p, TrustedProofs, 9000, 8000)
BackedFunction(p) == Backed(p, {"StaticProof"}, 7500, 8000)
BackedHint(p)     == Backed(p, TrustedProofs, 8500, 8500)

BackedStep ==
    /\ \A f \in evidence'.facts : ValidFact(f)
    /\ \A r \in idb'.crefs \ idb.crefs :
          \E p \in Records(evidence.facts) :
             p.fact = "CodeTarget" /\ <<p.from, p.target>> = r /\ BackedMutation(p)
    /\ \A f \in idb'.functions \ idb.functions :
          \E p \in Records(evidence.facts) :
             p.fact = "FunctionCandidate" /\ CandidateFunction(p) = f /\ BackedFunction(p)
    /\ \A c \in idb'.comments \ idb.comments :
          \E p \in Records(evidence.facts) :
             /\ p.fact = "BranchReachability" /\ <<p.branch, p.successor>> = c
             /\ BackedMutation(p)

(* The ledger holds facts that pass validate_fact only, and every         *)
(* mutation of viy_apply_evidence rests on evidence of the current        *)
(* generations (or the user): a static, symbolic or user proof of         *)
(* confidence 9000 (for a function: a static one of 7500), or two runs of *)
(* the current function identity of confidence 8000.  Runs of a           *)
(* superseded generation do not add up with runs of the current one.      *)
MutationsAreBacked == [][BackedStep]_vars

UncontestedStep ==
    /\ \A c \in idb'.comments \ idb.comments :
          ~\E p \in Records(ActiveView) :
             IsEdge(p) /\ Edge(p) = c /\ p.state = "Reached"
    /\ \A r \in idb'.crefs \ idb.crefs :
          \E p \in Records(ActiveView) :
             /\ p.fact = "CodeTarget" /\ <<p.from, p.target>> = r
             /\ ~\E q \in Records(ActiveView) :
                   /\ q.fact = "CodeTarget" /\ q.unique
                   /\ q.from = p.from /\ q.kind = p.kind /\ q.target # p.target

(* viy_apply_evidence contradicts no active evidence: it marks no edge as *)
(* unreachable that a branch or a CFG fact says was reached, and adds no  *)
(* reference whose every source disputes it with a sole-target claim of   *)
(* the same kind.                                                         *)
MutationsAreUncontested == [][UncontestedStep]_vars

StandsAloneStep ==
    published' # published =>
       \A a \in published' :
          /\ BackedHint(a.payload)
          /\ ~\E q \in Records(ActiveView) \ {a.payload} :
                Contradicts(a.payload, q) \/ Diverges(a.payload, q)

(* The decompiler shows a record only on its own merits: no other record  *)
(* of the view it was published from competes with it, not even as a      *)
(* variation, and evidence in force backs it.  Nothing of an earlier      *)
(* publication, and no value that two runs disagree on, survives a        *)
(* publish.                                                               *)
HintsStandAlone == [][StandsAloneStep]_vars

(* Nothing that change_count would count is left to apply.                *)
NothingPending ==
    LET actionable == Actionable(ActiveView)
        candidates == AddableFunctions(actionable)
    IN /\ NewCrefs(actionable) = {} /\ NewComments(actionable) = {}
       /\ \A created \in SUBSET candidates :
             add_func(candidates, created) => created = {}

(* Applying the same evidence again changes nothing that change_count     *)
(* counts, so the evidence pass alone never keeps the epochs going.       *)
ApplyConverges == [][idb' # idb => NothingPending']_vars
=============================================================================
