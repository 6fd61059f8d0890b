------------------------- MODULE EvidenceLifecycle -------------------------
(***************************************************************************)
(* evidence_lifecycle.cpp: the allocator of evidence generations and the   *)
(* policy that decides which observations of the history are active.       *)
(*                                                                         *)
(* An allocator is a record of the generations in use, the cursor, and     *)
(* the generation it handed out last.  An observation is a record          *)
(*   producer    "user" for a user assertion, "native" / "deobf" for the   *)
(*               complete providers, "rax" / "static" for the rest;        *)
(*   function    scope.function_start, or NoFunction;                      *)
(*   generation  scope.generation.                                         *)
(***************************************************************************)
EXTENDS Integers, FiniteSets

CONSTANTS MaxGeneration   \* numeric_limits<uint64_t>::max()

ASSUME MaxGenerationAssumption == MaxGeneration \in Nat \ {0}

Generations == 1..MaxGeneration
NoFunction == 0

Least(S) == CHOOSE n \in S : \A m \in S : n <= m
Greatest(S) == CHOOSE n \in S : \A m \in S : n >= m

(* Mutant: the restored generations are forgotten.                        *)
SeedAfresh(used) == [used |-> {}, cursor |-> 1, last |-> 0]

(* EvidenceGenerationAllocator::seed *)
Seed(used) ==
    [used |-> used,
     cursor |-> IF used = {} \/ Greatest(used) = MaxGeneration
                THEN 1 ELSE Greatest(used) + 1,
     last |-> 0]

(* The first unused generation at or after the cursor, wrapping from the  *)
(* maximum to 1 and never 0.                                              *)
Candidate(allocator) ==
    LET unused == Generations \ allocator.used
        ahead == {g \in unused : g >= allocator.cursor}
    IN Least(IF ahead # {} THEN ahead ELSE unused)

(* EvidenceGenerationAllocator::allocate.  It does not return when every  *)
(* generation is in use.                                                  *)
Allocate(allocator) ==
    LET candidate == Candidate(allocator) IN
    [used |-> allocator.used \cup {candidate},
     cursor |-> IF candidate = MaxGeneration THEN 1 ELSE candidate + 1,
     last |-> candidate]

(* ActiveEvidencePolicy::is_active; identities maps the functions of the  *)
(* current snapshot to their generations.                                 *)
IsActive(observation, providerGeneration, providerFunctions, identities) ==
    \/ observation.producer = "user"
    \/ /\ observation.producer \in {"native", "deobf"}
       /\ providerGeneration # 0
       /\ observation.generation = providerGeneration
       /\ observation.function \in providerFunctions \cup {NoFunction}
    \/ /\ observation.producer \in {"rax", "static"}
       /\ observation.function \in DOMAIN identities
       /\ observation.generation = identities[observation.function]

(* ActiveEvidencePolicy::view *)
View(history, providerGeneration, providerFunctions, identities) ==
    {o \in history :
        IsActive(o, providerGeneration, providerFunctions, identities)}
=============================================================================
