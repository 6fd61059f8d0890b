--------------------- MODULE EvidenceApplicationProofs ---------------------
(***************************************************************************)
(* Proofs about the ledger's searches for conflicts and the application of *)
(* evidence, for every set of reports, runs and saved facts.               *)
(***************************************************************************)
EXTENDS EvidenceApplication, FiniteSetTheorems, WellFoundedInduction, TLAPS

(* The subject under which the index files a payload, kind by kind.       *)
LEMMA SubjectCases ==
    ASSUME NEW p
    PROVE  /\ p.fact = "CodeTarget" => Subject(p) = <<"target", p.from, p.kind>>
           /\ IsEdge(p) => Subject(p) = <<"edge", Edge(p)>>
           /\ IsReturnFact(p) => Subject(p) = <<"function", p.function>>
           /\ p.fact = "DispatchMap" => Subject(p) = <<"dispatch", p.site>>
           /\ p.fact = "CodeRegion" => Subject(p) = <<>>
  <1>1. /\ IsEdge(p) => p.fact # "CodeTarget"
        /\ IsReturnFact(p) => p.fact # "CodeTarget" /\ ~IsEdge(p)
        /\ p.fact = "DispatchMap" =>
              p.fact # "CodeTarget" /\ ~IsEdge(p) /\ ~IsReturnFact(p)
        /\ p.fact = "CodeRegion" =>
              /\ p.fact # "CodeTarget" /\ ~IsEdge(p) /\ ~IsReturnFact(p)
              /\ p.fact # "DispatchMap"
    BY DEF IsEdge, IsReturnFact, IsTrait, IsReturned
  <1>2. p.fact = "CodeTarget" => Subject(p) = <<"target", p.from, p.kind>>
    BY <1>1, Zenon DEF Subject
  <1>3. IsEdge(p) => Subject(p) = <<"edge", Edge(p)>>
    BY <1>1, Zenon DEF Subject
  <1>4. IsReturnFact(p) => Subject(p) = <<"function", p.function>>
    BY <1>1, Zenon DEF Subject
  <1>5. p.fact = "DispatchMap" => Subject(p) = <<"dispatch", p.site>>
    BY <1>1, Zenon DEF Subject
  <1>6. p.fact = "CodeRegion" => Subject(p) = <<>>
    BY <1>1, Zenon DEF Subject
  <1> QED BY <1>2, <1>3, <1>4, <1>5, <1>6

(* Payloads that contradict each other have the same subject, or are      *)
(* regions that overlap.                                                  *)
LEMMA ContradictionSubject ==
    ASSUME NEW p, NEW q, Contradicts(p, q)
    PROVE  /\ CanContradict(p) /\ CanContradict(q)
           /\ \/ Subject(p) # <<>> /\ Subject(q) = Subject(p)
              \/ /\ Subject(p) = <<>> /\ p.fact = "CodeRegion" /\ q.fact = "CodeRegion"
                 /\ Overlap(p, q)
  <1>1. CASE ConflictingUniqueCodeTarget(p, q)
    <2>1. p.fact = "CodeTarget" /\ q.fact = "CodeTarget" /\ p.from = q.from /\ p.kind = q.kind
      BY <1>1 DEF ConflictingUniqueCodeTarget, Both
    <2>2. Subject(p) = <<"target", p.from, p.kind>> /\ Subject(q) = Subject(p)
      BY <2>1, SubjectCases
    <2> QED BY <2>2 DEF CanContradict
  <1>2. CASE ReachableAndUnreachable(p, q)
    <2>1. IsEdge(p) /\ IsEdge(q) /\ Edge(p) = Edge(q)
      BY <1>2 DEF ReachableAndUnreachable
    <2>2. Subject(p) = <<"edge", Edge(p)>> /\ Subject(q) = <<"edge", Edge(q)>>
      BY <2>1, SubjectCases, Zenon
    <2> QED BY <2>1, <2>2 DEF CanContradict
  <1>3. CASE ReturnBehaviorContradiction(p, q)
    <2>1. IsReturnFact(p) /\ IsReturnFact(q) /\ p.function = q.function
      BY <1>3 DEF ReturnBehaviorContradiction, IsReturnFact
    <2>2. Subject(p) = <<"function", p.function>> /\ Subject(q) = <<"function", q.function>>
      BY <2>1, SubjectCases, Zenon
    <2> QED BY <2>1, <2>2 DEF CanContradict
  <1>4. CASE IncompatibleCodeRegion(p, q)
    BY <1>4, SubjectCases DEF IncompatibleCodeRegion, Both, CanContradict
  <1>5. CASE Both(p, q, "DispatchMap") /\ dispatch_maps_contradict(p, q)
    <2>1. p.fact = "DispatchMap" /\ q.fact = "DispatchMap" /\ p.site = q.site
      BY <1>5 DEF dispatch_maps_contradict, Both
    <2>2. Subject(p) = <<"dispatch", p.site>> /\ Subject(q) = <<"dispatch", q.site>>
      BY <2>1, SubjectCases, Zenon
    <2> QED BY <2>1, <2>2 DEF CanContradict
  <1> QED BY <1>1, <1>2, <1>3, <1>4, <1>5 DEF Contradicts

(* The order of a pair does not matter to compare_payloads.               *)
LEMMA ContradictsIsSymmetric ==
    ASSUME NEW p, NEW q, Contradicts(p, q)
    PROVE  Contradicts(q, p)
  <1>1. CASE ConflictingUniqueCodeTarget(p, q)
    BY <1>1 DEF Contradicts, ConflictingUniqueCodeTarget, Both
  <1>2. CASE ReachableAndUnreachable(p, q)
    <2>1. opposite_reachability(q.state, p.state)
      BY <1>2 DEF ReachableAndUnreachable, opposite_reachability
    <2> QED BY <1>2, <2>1 DEF Contradicts, ReachableAndUnreachable
  <1>3. CASE ReturnBehaviorContradiction(p, q)
    BY <1>3 DEF Contradicts, ReturnBehaviorContradiction
  <1>4. CASE IncompatibleCodeRegion(p, q)
    BY <1>4 DEF Contradicts, IncompatibleCodeRegion, Both, Overlap, region_kinds_incompatible
  <1>5. CASE Both(p, q, "DispatchMap") /\ dispatch_maps_contradict(p, q)
    <2>1. DispatchCasesDiffer(p, q) => DispatchCasesDiffer(q, p)
      BY DEF DispatchCasesDiffer
    <2>2. dispatch_maps_contradict(q, p)
      BY <1>5, <2>1 DEF dispatch_maps_contradict
    <2> QED BY <1>5, <2>2 DEF Contradicts, Both
  <1> QED BY <1>1, <1>2, <1>3, <1>4, <1>5 DEF Contradicts

(* A valid payload does not contradict itself.                            *)
LEMMA ContradictsIsIrreflexive ==
    ASSUME NEW p, ValidPayload(p)
    PROVE  ~Contradicts(p, p)
  <1>1. ~ConflictingUniqueCodeTarget(p, p)
    BY DEF ConflictingUniqueCodeTarget
  <1>2. ~ReachableAndUnreachable(p, p)
    BY DEF ReachableAndUnreachable, opposite_reachability
  <1>3. ~ReturnBehaviorContradiction(p, p)
    BY DEF ReturnBehaviorContradiction, IsTrait, IsReturned
  <1>4. ~IncompatibleCodeRegion(p, p)
    BY DEF IncompatibleCodeRegion, region_kinds_incompatible
  <1>5. ASSUME p.fact = "DispatchMap" PROVE ~dispatch_maps_contradict(p, p)
    <2>1. /\ p.fact # "FunctionCandidate" /\ p.fact # "CodeRegion"
          /\ p.fact # "CallObservation"
      BY <1>5
    <2>2. \A c, d \in p.cases :
             (c.selector # Absent /\ c.selector = d.selector) => c.target = d.target
      BY <1>5, <2>1, Zenon DEF ValidPayload
    <2>3. ~DispatchCasesDiffer(p, p)
      BY <2>2 DEF DispatchCasesDiffer
    <2> QED BY <2>3 DEF dispatch_maps_contradict
  <1> QED BY <1>1, <1>2, <1>3, <1>4, <1>5 DEF Contradicts, Both

-----------------------------------------------------------------------------
(* The contradiction index *)

(* A function with a finite domain has finitely many values.              *)
LEMMA FiniteRange ==
    ASSUME NEW S, IsFiniteSet(S), NEW g, DOMAIN g = S, g = [x \in S |-> g[x]]
    PROVE  IsFiniteSet({g[x] : x \in S})
  <1>1. PICK T : T = {g[x] : x \in S}
    BY Zenon
  <1>2. g \in Surjection(S, T)
    BY <1>1 DEF Surjection
  <1>3. IsFiniteSet(T)
    BY <1>2, FS_Surjection
  <1> QED BY <1>1, <1>3

(* A finite nonempty set of naturals has a greatest element.              *)
LEMMA FiniteSetHasGreatest ==
    ASSUME NEW S \in SUBSET Nat, IsFiniteSet(S), S # {}
    PROVE  \E n \in S : \A m \in S : m <= n
  <1> DEFINE HasGreatest(T) == \E n \in T : \A m \in T : m <= n
             bad == {T \in FiniteSubsetsOf(Nat) : T # {} /\ ~HasGreatest(T)}
             R == StrictSubsetOrdering(Nat)
  <1>1. IsWellFoundedOn(R, FiniteSubsetsOf(Nat))
    BY FS_StrictSubsetOrderingWellFounded
  <1>2. bad \subseteq FiniteSubsetsOf(Nat)
    OBVIOUS
  <1>3. ASSUME bad # {} PROVE FALSE
    <2>1. PICK T \in bad : \A U \in bad : ~(<<U, T>> \in R)
      <3> HIDE DEF bad, R
      <3> QED BY <1>1, <1>2, <1>3, WFMin
    <2>2. T \in SUBSET Nat /\ IsFiniteSet(T) /\ T # {} /\ ~HasGreatest(T)
      BY <2>1 DEF FiniteSubsetsOf
    <2>3. PICK x \in T : TRUE
      BY <2>2, Zenon
    <2>4. PICK U : U = T \ {x}
      BY Zenon
    <2>5. U \in SUBSET Nat /\ IsFiniteSet(U) /\ U \subseteq T /\ U # T
      BY <2>2, <2>3, <2>4, FS_RemoveElement
    <2>6. <<U, T>> \in R
      BY <2>2, <2>5, Zenon DEF StrictSubsetOrdering
    <2>7. U = {} \/ HasGreatest(U)
      BY <2>1, <2>5, <2>6 DEF FiniteSubsetsOf
    <2>8. CASE U = {}
      <3>1. T = {x}
        BY <2>3, <2>4, <2>8
      <3> QED BY <2>2, <3>1
    <2>9. CASE HasGreatest(U)
      <3>1. PICK n \in U : \A m \in U : m <= n
        BY <2>9
      <3>2. \A m \in T : m = x \/ m \in U
        BY <2>4
      <3>3. CASE x <= n
        BY <2>2, <2>5, <3>1, <3>2, <3>3
      <3>4. CASE n <= x
        BY <2>2, <2>3, <2>5, <3>1, <3>2, <3>4
      <3> QED BY <2>2, <2>3, <2>5, <3>1, <3>3, <3>4
    <2> QED BY <2>7, <2>8, <2>9
  <1>4. S \in FiniteSubsetsOf(Nat)
    BY DEF FiniteSubsetsOf
  <1> QED BY <1>3, <1>4

(* A ledger of valid facts, whose index, when it is built, holds every    *)
(* payload that can contradict and the size of the largest region.        *)
Ledger(facts) ==
    /\ IsFiniteSet(facts)
    /\ \A f \in facts : ValidFact(f) /\ WellTyped(f.payload)

IndexExact(index, records) ==
    /\ index.entries = {p \in records : CanContradict(p)}
    /\ index.maximum_region_size \in Nat
    /\ \A p \in index.entries : RegionSize(p) <= index.maximum_region_size

SoundStore(store) ==
    /\ store = [facts |-> store.facts, index |-> store.index]
    /\ store.index = [built |-> store.index.built, entries |-> store.index.entries,
                      maximum_region_size |-> store.index.maximum_region_size]
    /\ Ledger(store.facts)
    /\ store.index.built => IndexExact(store.index, Records(store.facts))

(* The size of a valid region is a natural number.                        *)
LEMMA RegionSizeType ==
    ASSUME NEW p, ValidPayload(p), WellTyped(p)
    PROVE  RegionSize(p) \in Nat
  <1>1. CASE p.fact = "CodeRegion"
    <2>1. p.fact # "FunctionCandidate"
      BY <1>1
    <2>2. p.start < p.end
      BY <1>1, <2>1, Zenon DEF ValidPayload
    <2> QED BY <1>1, <2>2 DEF WellTyped, RegionSize
  <1>2. CASE p.fact # "CodeRegion"
    BY <1>2 DEF RegionSize
  <1> QED BY <1>1, <1>2

(* The index built on first use is exact.                                 *)
LEMMA IndexOfExact ==
    ASSUME NEW facts, Ledger(facts)
    PROVE  IndexExact(IndexOf(Records(facts)), Records(facts))
  <1> DEFINE records == Records(facts)
             indexed == {p \in records : CanContradict(p)}
             sizes == {RegionSize(p) : p \in indexed} \cup {0}
             largest == CHOOSE n \in sizes : \A m \in sizes : m <= n
  <1>1. IsFiniteSet(records)
    <2>1. IsFiniteSet(facts)
      BY DEF Ledger
    <2>2. PICK g : g = [f \in facts |-> f.payload]
      BY Zenon
    <2>3. IsFiniteSet({g[f] : f \in facts})
      BY <2>1, <2>2, FiniteRange
    <2>4. {g[f] : f \in facts} = {f.payload : f \in facts}
      BY <2>2
    <2> QED BY <2>3, <2>4 DEF Records
  <1>2. \A p \in records : RegionSize(p) \in Nat
    BY RegionSizeType DEF Records, Ledger, ValidFact
  <1>3. IsFiniteSet(indexed)
    <2>1. indexed \subseteq records
      OBVIOUS
    <2> HIDE DEF indexed, records
    <2> QED BY <1>1, <2>1, FS_Subset
  <1>4. IsFiniteSet(sizes) /\ sizes # {} /\ sizes \in SUBSET Nat
    <2>1. IsFiniteSet({RegionSize(p) : p \in indexed})
      <3> HIDE DEF indexed
      <3>1. PICK g : g = [p \in indexed |-> RegionSize(p)]
        BY Zenon
      <3>2. IsFiniteSet({g[p] : p \in indexed})
        BY <1>3, <3>1, FiniteRange
      <3>3. {g[p] : p \in indexed} = {RegionSize(p) : p \in indexed}
        BY <3>1
      <3> QED BY <3>2, <3>3
    <2>2. IsFiniteSet(sizes)
      BY <2>1, FS_AddElement
    <2> QED BY <1>2, <2>2
  <1>5. \E n \in sizes : \A m \in sizes : m <= n
    <2> HIDE DEF sizes
    <2> QED BY <1>4, FiniteSetHasGreatest
  <1>6. largest \in sizes /\ \A m \in sizes : m <= largest
    <2> HIDE DEF sizes
    <2> QED BY <1>5
  <1>7. IndexOf(records) = [built |-> TRUE, entries |-> indexed,
                            maximum_region_size |-> largest]
    BY DEF IndexOf
  <1>8. largest \in Nat /\ \A p \in indexed : RegionSize(p) <= largest
    <2> HIDE DEF largest
    <2> QED BY <1>4, <1>6
  <1> HIDE DEF largest
  <1> QED BY <1>7, <1>8 DEF IndexExact

(* Building the index keeps a store sound.                                *)
LEMMA IndexedSound ==
    ASSUME NEW store, SoundStore(store)
    PROVE  /\ SoundStore(Indexed(store)) /\ Indexed(store).facts = store.facts
           /\ IndexExact(Indexed(store).index, Records(store.facts))
  <1>1. CASE store.index.built
    BY <1>1 DEF Indexed, SoundStore
  <1>2. CASE ~store.index.built
    <2>1. PICK index : index = IndexOf(Records(store.facts))
      OBVIOUS
    <2>2. Indexed(store) = [facts |-> store.facts, index |-> index]
      BY <1>2, <2>1 DEF Indexed, SoundStore
    <2>3. IndexExact(index, Records(store.facts))
      BY <2>1, IndexOfExact DEF SoundStore
    <2>4. index = [built |-> index.built, entries |-> index.entries,
                   maximum_region_size |-> index.maximum_region_size]
      BY <2>1 DEF IndexOf
    <2> QED BY <2>2, <2>3, <2>4 DEF SoundStore
  <1> QED BY <1>1, <1>2

(* ContradictionIndex::insert keeps the index exact.                      *)
LEMMA InsertExact ==
    ASSUME NEW index, NEW records, NEW p,
           index = [built |-> index.built, entries |-> index.entries,
                    maximum_region_size |-> index.maximum_region_size],
           IndexExact(index, records), \A q \in records : RegionSize(q) \in Nat,
           RegionSize(p) \in Nat
    PROVE  /\ IndexExact(IndexInsert(index, p), records \cup {p})
           /\ IndexInsert(index, p) =
                [built |-> index.built, entries |-> IndexInsert(index, p).entries,
                 maximum_region_size |-> IndexInsert(index, p).maximum_region_size]
  <1>1. CASE CanContradict(p)
    <2>1. PICK size : size = Widen(index.maximum_region_size, p)
      OBVIOUS
    <2>2. /\ size \in Nat /\ RegionSize(p) <= size
          /\ index.maximum_region_size <= size
      BY <2>1 DEF Widen, Larger, IndexExact
    <2>3. IndexInsert(index, p) = [built |-> index.built, entries |-> index.entries \cup {p},
                                   maximum_region_size |-> size]
      BY <1>1, <2>1, Zenon DEF IndexInsert
    <2>4. \A q \in index.entries \cup {p} : RegionSize(q) <= size
      BY <2>2 DEF IndexExact
    <2>5. index.entries \cup {p} = {q \in records \cup {p} : CanContradict(q)}
      BY <1>1 DEF IndexExact
    <2> QED BY <2>2, <2>3, <2>4, <2>5 DEF IndexExact
  <1>2. CASE ~CanContradict(p)
    BY <1>2 DEF IndexInsert, IndexExact
  <1> QED BY <1>1, <1>2

(* EvidenceStore::add keeps a store sound.                                *)
LEMMA AddSound ==
    ASSUME NEW store, SoundStore(store), NEW f, WellTyped(f.payload)
    PROVE  /\ SoundStore(Add(store, f))
           /\ Add(store, f).facts = IF ValidFact(f) THEN store.facts \cup {f}
                                    ELSE store.facts
  <1>1. CASE ~ValidFact(f)
    BY <1>1 DEF Add
  <1>2. CASE ValidFact(f)
    <2>1. PICK facts : facts = store.facts \cup {f}
      BY Zenon
    <2>2. Ledger(facts)
      BY <1>2, <2>1, FS_AddElement DEF SoundStore, Ledger
    <2>3. Records(facts) = Records(store.facts) \cup {f.payload}
      BY <2>1 DEF Records
    <2>4. /\ \A q \in Records(store.facts) : RegionSize(q) \in Nat
          /\ RegionSize(f.payload) \in Nat
      BY <1>2, RegionSizeType DEF Records, SoundStore, Ledger, ValidFact
    <2>5. CASE store.index.built /\ f.payload \notin Records(store.facts)
      <3>1. Add(store, f) = [facts |-> facts, index |-> IndexInsert(store.index, f.payload)]
        BY <1>2, <2>1, <2>5 DEF Add
      <3>2. /\ IndexExact(IndexInsert(store.index, f.payload), Records(facts))
            /\ IndexInsert(store.index, f.payload) =
                 [built |-> store.index.built,
                  entries |-> IndexInsert(store.index, f.payload).entries,
                  maximum_region_size |->
                     IndexInsert(store.index, f.payload).maximum_region_size]
        <4>1. PICK index, records, p :
                 index = store.index /\ records = Records(store.facts) /\ p = f.payload
          OBVIOUS
        <4>2. /\ index = [built |-> index.built, entries |-> index.entries,
                          maximum_region_size |-> index.maximum_region_size]
              /\ IndexExact(index, records)
          BY <2>5, <4>1 DEF SoundStore
        <4>3. /\ \A q \in records : RegionSize(q) \in Nat
              /\ RegionSize(p) \in Nat
          BY <2>4, <4>1
        <4>4. /\ IndexExact(IndexInsert(index, p), records \cup {p})
              /\ IndexInsert(index, p) =
                   [built |-> index.built, entries |-> IndexInsert(index, p).entries,
                    maximum_region_size |-> IndexInsert(index, p).maximum_region_size]
          BY <4>2, <4>3, InsertExact
        <4> QED BY <2>3, <4>1, <4>4
      <3>3. PICK index : index = IndexInsert(store.index, f.payload)
        OBVIOUS
      <3>4. index = [built |-> index.built, entries |-> index.entries,
                     maximum_region_size |-> index.maximum_region_size]
        BY <3>2, <3>3
      <3> QED BY <1>2, <2>1, <2>2, <3>1, <3>2, <3>3, <3>4 DEF SoundStore
    <2>6. CASE ~(store.index.built /\ f.payload \notin Records(store.facts))
      <3>1. Add(store, f) = [facts |-> facts, index |-> store.index]
        BY <1>2, <2>1, <2>6 DEF Add
      <3>2. store.index.built => Records(facts) = Records(store.facts)
        BY <2>3, <2>6
      <3> QED BY <1>2, <2>1, <2>2, <3>1, <3>2 DEF SoundStore
    <2> QED BY <2>5, <2>6
  <1> QED BY <1>1, <1>2

(* The records of a store that are in the view of a generation.           *)
InViewOf(facts, generation) ==
    {p \in Records(facts) : ActiveIn(facts, p, generation)}

(* A payload with an observation in a view is a record.                   *)
LEMMA ActiveIsRecorded ==
    ASSUME NEW facts, NEW p, NEW generation, ActiveIn(facts, p, generation)
    PROVE  p \in Records(facts)
  BY DEF ActiveIn, Observations, Records

(* new_contradiction visits every payload that can contradict the query.  *)
LEMMA GateExact ==
    ASSUME NEW store, SoundStore(store), NEW p, WellTyped(p), NEW generation
    PROVE  new_contradiction(store, p, generation)
             <=> /\ p \notin InViewOf(store.facts, generation)
                 /\ \E q \in InViewOf(store.facts, generation) : Contradicts(p, q)
  <1>1. PICK index : index = Indexed(store).index
    OBVIOUS
  <1>2. IndexExact(index, Records(store.facts))
    BY <1>1, IndexedSound
  <1>3. ActiveIn(store.facts, p, generation) <=> p \in InViewOf(store.facts, generation)
    BY ActiveIsRecorded DEF InViewOf
  <1>4. ASSUME NEW q \in InViewOf(store.facts, generation), Contradicts(p, q)
        PROVE  q \in Visited(index, p) /\ ActiveIn(store.facts, q, generation)
               /\ CanContradict(p)
    <2>1. q \in index.entries /\ ActiveIn(store.facts, q, generation)
      BY <1>2, <1>4, ContradictionSubject DEF InViewOf, IndexExact
    <2>2. CASE Subject(p) # <<>> /\ Subject(q) = Subject(p)
      BY <1>4, <2>1, <2>2, ContradictionSubject DEF Visited
    <2>3. CASE /\ Subject(p) = <<>> /\ p.fact = "CodeRegion" /\ q.fact = "CodeRegion"
               /\ Overlap(p, q)
      <3>1. WellTyped(q)
        BY <1>4 DEF InViewOf, Records, SoundStore, Ledger
      <3>2. /\ p.start \in Nat /\ p.end \in Nat /\ q.start \in Nat /\ q.end \in Nat
            /\ q.start < p.end /\ p.start < q.end
        BY <2>3, <3>1 DEF WellTyped, Overlap
      <3>3. q.end - q.start <= index.maximum_region_size /\ index.maximum_region_size \in Nat
        BY <1>2, <2>1, <2>3 DEF IndexExact, RegionSize
      <3>4. q.start >= LowerBound(index, p)
        BY <3>2, <3>3 DEF LowerBound
      <3>5. q \in Visited(index, p)
        BY <2>1, <2>3, <3>2, <3>4 DEF Visited
      <3> QED BY <1>4, <2>1, <3>5, ContradictionSubject
    <2> QED BY <1>4, <2>2, <2>3, ContradictionSubject
  <1>5. ASSUME NEW q \in Visited(index, p), ActiveIn(store.facts, q, generation)
        PROVE  q \in InViewOf(store.facts, generation)
    BY <1>5, ActiveIsRecorded DEF InViewOf
  <1> QED BY <1>1, <1>3, <1>4, <1>5 DEF new_contradiction, AnswersEarly

-----------------------------------------------------------------------------
(* The scans for conflicts *)

ReturnKinds == {"FunctionTrait", "FunctionOutcome"}

(* The map of detect_conflicts that files a payload, kind by kind.        *)
LEMMA BucketCases ==
    ASSUME NEW p
    PROVE  /\ p.fact = "CodeTarget" => Bucket(p) = <<"target", p.from, p.kind>>
           /\ IsEdge(p) => Bucket(p) = <<"edge", Edge(p)>>
           /\ p.fact = "MemoryValue" =>
                 Bucket(p) = <<"memory", p.instruction, p.address, p.kind>>
           /\ p.fact = "StringCandidate" => Bucket(p) = <<"string", p.address>>
           /\ p.fact = "FunctionCandidate" => Bucket(p) = <<"candidate", p.entry>>
           /\ p.fact \in ReturnKinds => Bucket(p) = <<"function", p.function>>
           /\ p.fact = "DispatchMap" => Bucket(p) = <<"dispatch", p.site>>
           /\ p.fact = "RegisterValue" =>
                 Bucket(p) = <<"register", p.instruction, p.point, p.register_id>>
           /\ p.fact = "CallObservation" => Bucket(p) = <<"call", p.source>>
           /\ ~(\/ p.fact \in {"CodeTarget", "MemoryValue", "StringCandidate",
                               "FunctionCandidate", "DispatchMap", "RegisterValue",
                               "CallObservation"}
                \/ IsEdge(p) \/ p.fact \in ReturnKinds) => Bucket(p) = <<>>
  <1>0. /\ IsEdge(p) <=> (p.fact = "BranchReachability" \/ p.fact = "CfgCandidate")
        /\ p.fact \in ReturnKinds <=> (p.fact = "FunctionTrait" \/ p.fact = "FunctionOutcome")
        /\ p.fact \in {"FunctionTrait", "FunctionOutcome"} <=> p.fact \in ReturnKinds
    BY DEF IsEdge, ReturnKinds
  <1>1. p.fact = "CodeTarget" => Bucket(p) = <<"target", p.from, p.kind>>
    <2>1. p.fact = "CodeTarget" =>
            ~IsEdge(p) /\ ~(p.fact \in {"FunctionTrait", "FunctionOutcome"})
      BY DEF IsEdge
    <2> QED BY <2>1, Zenon DEF Bucket
  <1>2. IsEdge(p) => Bucket(p) = <<"edge", Edge(p)>>
    <2>1. IsEdge(p) =>
            /\ p.fact # "CodeTarget" /\ p.fact # "MemoryValue"
            /\ p.fact # "StringCandidate" /\ p.fact # "FunctionCandidate"
            /\ ~(p.fact \in {"FunctionTrait", "FunctionOutcome"})
            /\ p.fact # "DispatchMap" /\ p.fact # "RegisterValue"
            /\ p.fact # "CallObservation"
      BY DEF IsEdge
    <2> QED BY <2>1, Zenon DEF Bucket
  <1>3. /\ p.fact = "MemoryValue" => p.fact # "CodeTarget" /\ ~IsEdge(p)
        /\ p.fact = "StringCandidate" =>
              p.fact # "CodeTarget" /\ ~IsEdge(p) /\ p.fact # "MemoryValue"
        /\ p.fact = "FunctionCandidate" =>
              /\ p.fact # "CodeTarget" /\ ~IsEdge(p) /\ p.fact # "MemoryValue"
              /\ p.fact # "StringCandidate"
        /\ p.fact \in ReturnKinds =>
              /\ p.fact # "CodeTarget" /\ ~IsEdge(p) /\ p.fact # "MemoryValue"
              /\ p.fact # "StringCandidate" /\ p.fact # "FunctionCandidate"
        /\ p.fact \in {"DispatchMap", "RegisterValue", "CallObservation"} =>
              /\ p.fact # "CodeTarget" /\ ~IsEdge(p) /\ p.fact # "MemoryValue"
              /\ p.fact # "StringCandidate" /\ p.fact # "FunctionCandidate"
              /\ ~(p.fact \in {"FunctionTrait", "FunctionOutcome"})
        /\ p.fact = "RegisterValue" => p.fact # "DispatchMap"
        /\ p.fact = "CallObservation" => p.fact # "DispatchMap" /\ p.fact # "RegisterValue"
    BY DEF IsEdge, ReturnKinds
  <1>4. p.fact = "MemoryValue" =>
          Bucket(p) = <<"memory", p.instruction, p.address, p.kind>>
    BY <1>3, Zenon DEF Bucket
  <1>5. p.fact = "StringCandidate" => Bucket(p) = <<"string", p.address>>
    BY <1>3, Zenon DEF Bucket
  <1>6. p.fact = "FunctionCandidate" => Bucket(p) = <<"candidate", p.entry>>
    BY <1>3, Zenon DEF Bucket
  <1>7. p.fact \in ReturnKinds => Bucket(p) = <<"function", p.function>>
    BY <1>0, <1>3, Zenon DEF Bucket
  <1>8. p.fact = "DispatchMap" => Bucket(p) = <<"dispatch", p.site>>
    BY <1>3, Zenon DEF Bucket
  <1>9. p.fact = "RegisterValue" =>
          Bucket(p) = <<"register", p.instruction, p.point, p.register_id>>
    BY <1>3, Zenon DEF Bucket
  <1>10. p.fact = "CallObservation" => Bucket(p) = <<"call", p.source>>
    BY <1>3, Zenon DEF Bucket
  <1>11. ASSUME ~(\/ p.fact \in {"CodeTarget", "MemoryValue", "StringCandidate",
                                 "FunctionCandidate", "DispatchMap", "RegisterValue",
                                 "CallObservation"}
                  \/ IsEdge(p) \/ p.fact \in ReturnKinds)
         PROVE  Bucket(p) = <<>>
    <2>1. /\ p.fact # "CodeTarget" /\ ~IsEdge(p) /\ p.fact # "MemoryValue"
          /\ p.fact # "StringCandidate" /\ p.fact # "FunctionCandidate"
          /\ ~(p.fact \in {"FunctionTrait", "FunctionOutcome"})
          /\ p.fact # "DispatchMap" /\ p.fact # "RegisterValue" /\ p.fact # "CallObservation"
      BY <1>11 DEF ReturnKinds
    <2> QED BY <2>1, Zenon DEF Bucket
  <1> QED BY <1>1, <1>2, <1>4, <1>5, <1>6, <1>7, <1>8, <1>9, <1>10, <1>11

(* A bucket holds payloads about the same thing.                          *)
LEMMA BucketTags ==
    ASSUME NEW p, NEW q, Bucket(p) = Bucket(q)
    PROVE  /\ p.fact = "CodeTarget" =>
                 q.fact = "CodeTarget" /\ p.from = q.from /\ p.kind = q.kind
           /\ IsEdge(p) => IsEdge(q) /\ Edge(p) = Edge(q)
           /\ p.fact \in ReturnKinds => q.fact \in ReturnKinds /\ p.function = q.function
           /\ p.fact = "DispatchMap" => q.fact = "DispatchMap" /\ p.site = q.site
  <1>0. \/ q.fact = "CodeTarget" /\ Bucket(q) = <<"target", q.from, q.kind>>
        \/ IsEdge(q) /\ Bucket(q) = <<"edge", Edge(q)>>
        \/ Bucket(q) = <<"memory", q.instruction, q.address, q.kind>>
        \/ Bucket(q) = <<"string", q.address>>
        \/ Bucket(q) = <<"candidate", q.entry>>
        \/ q.fact \in ReturnKinds /\ Bucket(q) = <<"function", q.function>>
        \/ q.fact = "DispatchMap" /\ Bucket(q) = <<"dispatch", q.site>>
        \/ Bucket(q) = <<"register", q.instruction, q.point, q.register_id>>
        \/ Bucket(q) = <<"call", q.source>>
        \/ Bucket(q) = <<>>
    BY BucketCases
  <1>1. ASSUME p.fact = "CodeTarget"
        PROVE  q.fact = "CodeTarget" /\ p.from = q.from /\ p.kind = q.kind
    <2>1. Bucket(q) = <<"target", p.from, p.kind>>
      BY <1>1, BucketCases
    <2> QED BY <1>0, <2>1
  <1>2. ASSUME IsEdge(p) PROVE IsEdge(q) /\ Edge(p) = Edge(q)
    <2>1. Bucket(q) = <<"edge", Edge(p)>>
      BY <1>2, BucketCases
    <2> QED BY <1>0, <2>1
  <1>3. ASSUME p.fact \in ReturnKinds PROVE q.fact \in ReturnKinds /\ p.function = q.function
    <2>1. Bucket(q) = <<"function", p.function>>
      BY <1>3, BucketCases
    <2> QED BY <1>0, <2>1
  <1>4. ASSUME p.fact = "DispatchMap" PROVE q.fact = "DispatchMap" /\ p.site = q.site
    <2>1. Bucket(q) = <<"dispatch", p.site>>
      BY <1>4, BucketCases
    <2> QED BY <1>0, <2>1
  <1> QED BY <1>1, <1>2, <1>3, <1>4

(* Records that normalization accepted.                                   *)
Accepted(records) == \A p \in records : ValidPayload(p) /\ WellTyped(p)

(* The region sweep compares any two regions of incompatible kinds that   *)
(* overlap, in one order or the other, although it stops at the first     *)
(* region that starts too late.                                           *)
LEMMA SweepReachesOverlaps ==
    ASSUME NEW records, Accepted(records), NEW p \in records, NEW q \in records,
           IncompatibleCodeRegion(p, q)
    PROVE  SweepCompares(records, p, q) \/ SweepCompares(records, q, p)
  <1>1. /\ p.fact = "CodeRegion" /\ q.fact = "CodeRegion"
        /\ p.start < q.end /\ q.start < p.end
        /\ region_kinds_incompatible(p.kind, q.kind)
    BY DEF IncompatibleCodeRegion, Both, Overlap
  <1>2. /\ p.start \in Nat /\ p.end \in Nat /\ q.start \in Nat /\ q.end \in Nat
        /\ \A m \in records : m.fact = "CodeRegion" => m.start \in Nat
    BY <1>1 DEF Accepted, WellTyped
  <1>3. \/ RegionKindOrder[p.kind] < RegionKindOrder[q.kind]
        \/ RegionKindOrder[q.kind] < RegionKindOrder[p.kind]
    BY <1>1 DEF region_kinds_incompatible, RegionKindOrder
  <1>4. RegionBefore(p, q) \/ RegionBefore(q, p)
    BY <1>2, <1>3 DEF RegionBefore
  <1>5. ASSUME RegionBefore(p, q) PROVE SweepCompares(records, p, q)
    <2>1. ASSUME NEW m \in records, m.fact = "CodeRegion", ~RegionBefore(q, m)
          PROVE  m.start < p.end
      BY <1>1, <1>2, <2>1 DEF RegionBefore
    <2> QED BY <1>1, <1>5, <2>1 DEF SweepCompares, Both
  <1>6. ASSUME RegionBefore(q, p) PROVE SweepCompares(records, q, p)
    <2>1. ASSUME NEW m \in records, m.fact = "CodeRegion", ~RegionBefore(p, m)
          PROVE  m.start < q.end
      BY <1>1, <1>2, <2>1 DEF RegionBefore
    <2> QED BY <1>1, <1>6, <2>1 DEF SweepCompares, Both
  <1> QED BY <1>4, <1>5, <1>6

(* Regions that the sweep compares are distinct and overlap.              *)
LEMMA SweepComparesOverlaps ==
    ASSUME NEW records, Accepted(records), NEW p \in records, NEW q \in records,
           SweepCompares(records, p, q)
    PROVE  Both(p, q, "CodeRegion") /\ p # q /\ Overlap(p, q)
  <1>1. p.fact = "CodeRegion" /\ q.fact = "CodeRegion" /\ RegionBefore(p, q)
    BY DEF SweepCompares, Both
  <1>2. /\ p.start \in Nat /\ p.end \in Nat /\ q.start \in Nat /\ q.end \in Nat
        /\ p.kind \in DOMAIN RegionKindOrder /\ q.kind \in DOMAIN RegionKindOrder
    BY <1>1 DEF Accepted, WellTyped
  <1>3. /\ RegionKindOrder[p.kind] \in Nat /\ RegionKindOrder[q.kind] \in Nat
    BY <1>2 DEF RegionKindOrder
  <1>4. q.start < q.end
    <2>1. q.fact # "FunctionCandidate" /\ ValidPayload(q)
      BY <1>1 DEF Accepted
    <2> QED BY <1>1, <2>1, Zenon DEF ValidPayload
  <1>5. ~RegionBefore(q, q) /\ p # q
    BY <1>1, <1>2, <1>3 DEF RegionBefore
  <1>6. q.start < p.end
    BY <1>1, <1>5 DEF SweepCompares
  <1>7. p.start <= q.start
    BY <1>1, <1>2 DEF RegionBefore
  <1> QED BY <1>1, <1>2, <1>4, <1>5, <1>6, <1>7 DEF Both, Overlap

(* Conflicting payloads, but for regions, are in the same bucket.         *)
LEMMA ConflictBucket ==
    ASSUME NEW p, NEW q, Contradicts(p, q) \/ Diverges(p, q)
    PROVE  (Bucket(p) # <<>> /\ Bucket(p) = Bucket(q)) \/ IncompatibleCodeRegion(p, q)
  <1>1. CASE Both(p, q, "CodeTarget") /\ p.from = q.from /\ p.kind = q.kind
    BY <1>1, BucketCases DEF Both
  <1>2. CASE IsEdge(p) /\ IsEdge(q) /\ Edge(p) = Edge(q)
    <2>1. Bucket(p) = <<"edge", Edge(p)>> /\ Bucket(q) = <<"edge", Edge(q)>>
      BY <1>2, BucketCases, Zenon
    <2> QED BY <1>2, <2>1
  <1>3. CASE p.fact \in ReturnKinds /\ q.fact \in ReturnKinds /\ p.function = q.function
    <2>1. Bucket(p) = <<"function", p.function>> /\ Bucket(q) = <<"function", q.function>>
      BY <1>3, BucketCases, Zenon
    <2> QED BY <1>3, <2>1
  <1>4. CASE Both(p, q, "DispatchMap") /\ p.site = q.site
    BY <1>4, BucketCases DEF Both
  <1>5. CASE /\ Both(p, q, "MemoryValue")
             /\ p.instruction = q.instruction /\ p.address = q.address /\ p.kind = q.kind
    BY <1>5, BucketCases DEF Both
  <1>6. CASE Both(p, q, "StringCandidate") /\ p.address = q.address
    BY <1>6, BucketCases DEF Both
  <1>7. CASE Both(p, q, "FunctionCandidate") /\ p.entry = q.entry
    BY <1>7, BucketCases DEF Both
  <1>8. CASE /\ Both(p, q, "RegisterValue")
             /\ p.instruction = q.instruction /\ p.point = q.point
             /\ p.register_id = q.register_id
    BY <1>8, BucketCases DEF Both
  <1>9. CASE Both(p, q, "CallObservation") /\ p.source = q.source
    BY <1>9, BucketCases DEF Both
  <1>10. CASE Contradicts(p, q)
    <2>1. CASE ConflictingUniqueCodeTarget(p, q)
      BY <1>1, <2>1 DEF ConflictingUniqueCodeTarget
    <2>2. CASE ReachableAndUnreachable(p, q)
      BY <1>2, <2>2 DEF ReachableAndUnreachable
    <2>3. CASE ReturnBehaviorContradiction(p, q)
      BY <1>3, <2>3 DEF ReturnBehaviorContradiction, ReturnKinds
    <2>4. CASE IncompatibleCodeRegion(p, q)
      BY <2>4
    <2>5. CASE Both(p, q, "DispatchMap") /\ dispatch_maps_contradict(p, q)
      BY <1>4, <2>5, SMTT(30) DEF dispatch_maps_contradict
    <2> QED BY <1>10, <2>1, <2>2, <2>3, <2>4, <2>5 DEF Contradicts
  <1>11. CASE Diverges(p, q)
    <2>1. Both(p, q, "FunctionTrait") \/ Both(p, q, "FunctionOutcome")
            => p.fact \in ReturnKinds /\ q.fact \in ReturnKinds
      BY DEF Both, ReturnKinds
    <2> QED BY <1>3, <1>4, <1>5, <1>6, <1>7, <1>8, <1>9, <1>11, <2>1 DEF Diverges
  <1> QED BY <1>10, <1>11

(* detect_conflicts reports a pair, in one order or the other, exactly    *)
(* when its payloads conflict.                                            *)
LEMMA ReportsAreExact ==
    ASSUME NEW records, Accepted(records), NEW p \in records, NEW q \in records
    PROVE  /\ p # q /\ (Contradicts(p, q) \/ Diverges(p, q)) =>
                ReportsConflict(records, p, q) \/ ReportsConflict(records, q, p)
           /\ ReportsConflict(records, p, q) =>
                p # q /\ (Contradicts(p, q) \/ Diverges(p, q))
  <1>1. ASSUME p # q, Contradicts(p, q) \/ Diverges(p, q)
        PROVE  ReportsConflict(records, p, q) \/ ReportsConflict(records, q, p)
    <2>1. CASE Bucket(p) # <<>> /\ Bucket(p) = Bucket(q)
      BY <1>1, <2>1 DEF ReportsConflict, SameBucket
    <2>2. CASE IncompatibleCodeRegion(p, q)
      <3>1. Contradicts(p, q) /\ Contradicts(q, p)
        BY <2>2, ContradictsIsSymmetric DEF Contradicts
      <3> QED BY <2>2, <3>1, SweepReachesOverlaps DEF ReportsConflict
    <2> QED BY <1>1, <2>1, <2>2, ConflictBucket
  <1>2. ASSUME ReportsConflict(records, p, q)
        PROVE  p # q /\ (Contradicts(p, q) \/ Diverges(p, q))
    BY <1>2, SweepComparesOverlaps DEF ReportsConflict, SameBucket
  <1> QED BY <1>1, <1>2

(* The pairs detect_conflicts returns.                                    *)
LEMMA ConflictPairs ==
    ASSUME NEW records, NEW pair
    PROVE  pair \in detect_conflicts(records) <=>
             \E p, q \in records : pair = {p, q} /\ ReportsConflict(records, p, q)
  BY DEF detect_conflicts

(* detect_conflicts loses no pair that compare_payloads calls conflicting *)
(* and reports no other.                                                  *)
LEMMA DetectExact ==
    ASSUME NEW records, Accepted(records)
    PROVE  detect_conflicts(records) =
             UNION {{{p, q} : q \in {r \in records :
                                       p # r /\ (Contradicts(p, r) \/ Diverges(p, r))}}
                      : p \in records}
  <1> DEFINE all == UNION {{{p, q} : q \in {r \in records :
                                       p # r /\ (Contradicts(p, r) \/ Diverges(p, r))}}
                             : p \in records}
  <1>1. ASSUME NEW pair
        PROVE  pair \in all <=> \E p, q \in records :
                  pair = {p, q} /\ p # q /\ (Contradicts(p, q) \/ Diverges(p, q))
    OBVIOUS
  <1> HIDE DEF all
  <1>2. ASSUME NEW pair \in all PROVE pair \in detect_conflicts(records)
    <2>1. PICK p \in records, q \in records :
             pair = {p, q} /\ p # q /\ (Contradicts(p, q) \/ Diverges(p, q))
      BY <1>1, <1>2
    <2>2. ReportsConflict(records, p, q) \/ ReportsConflict(records, q, p)
      BY <2>1, ReportsAreExact
    <2>3. pair = {q, p}
      BY <2>1
    <2> QED BY <2>1, <2>2, <2>3, ConflictPairs
  <1>3. ASSUME NEW pair \in detect_conflicts(records) PROVE pair \in all
    <2>1. PICK p \in records, q \in records : pair = {p, q} /\ ReportsConflict(records, p, q)
      BY <1>3, ConflictPairs
    <2> QED BY <1>1, <2>1, ReportsAreExact
  <1>4. detect_conflicts(records) = all
    BY <1>2, <1>3
  <1> QED BY <1>4 DEF all

(* What the fast scan marks in one bucket takes part in a contradiction.  *)
LEMMA BucketParticipantsExact ==
    ASSUME NEW bucket, NEW p \in bucket, \A q \in bucket : Bucket(q) = Bucket(p)
    PROVE  p \in BucketParticipants(bucket) <=>
             \E q \in bucket :
                \/ ConflictingUniqueCodeTarget(p, q) \/ ReachableAndUnreachable(p, q)
                \/ Both(p, q, "DispatchMap") /\ dispatch_maps_contradict(p, q)
  <1>1. ASSUME NEW q \in bucket
        PROVE  (\/ p.fact = "CodeTarget" /\ p.target # q.target /\ (p.unique \/ q.unique)
                \/ IsEdge(p) /\ opposite_reachability(p.state, q.state)
                \/ p.fact = "DispatchMap" /\ dispatch_maps_contradict(p, q)) <=>
               (\/ ConflictingUniqueCodeTarget(p, q) \/ ReachableAndUnreachable(p, q)
                \/ Both(p, q, "DispatchMap") /\ dispatch_maps_contradict(p, q))
    <2>1. Bucket(p) = Bucket(q)
      BY <1>1
    <2>2. /\ p.fact = "CodeTarget" =>
                q.fact = "CodeTarget" /\ p.from = q.from /\ p.kind = q.kind
          /\ IsEdge(p) => IsEdge(q) /\ Edge(p) = Edge(q)
          /\ p.fact = "DispatchMap" => q.fact = "DispatchMap"
      BY <2>1, BucketTags
    <2> QED BY <2>2 DEF ConflictingUniqueCodeTarget, ReachableAndUnreachable, Both
  <1> QED BY <1>1 DEF BucketParticipants

(* The same for the return facts of one function, marked by groups.       *)
LEMMA ReturnParticipantsExact ==
    ASSUME NEW bucket, NEW p \in bucket, \A q \in bucket : Bucket(q) = Bucket(p)
    PROVE  p \in ReturnParticipants(bucket) <=>
             \E q \in bucket : ReturnBehaviorContradiction(p, q)
  <1>1. p \in ReturnParticipants(bucket) <=>
          \/ /\ IsTrait(p, "Returns") \/ IsTrait(p, "NoReturn")
             /\ \E q \in bucket : IsTrait(q, "Returns")
             /\ \E q \in bucket : IsTrait(q, "NoReturn")
          \/ /\ IsTrait(p, "NoReturn") \/ IsReturned(p)
             /\ \E q \in bucket : IsTrait(q, "NoReturn")
             /\ \E q \in bucket : IsReturned(q)
    BY DEF ReturnParticipants
  <1>2. ASSUME NEW q \in bucket
        PROVE  ReturnBehaviorContradiction(p, q) <=>
                 \/ IsTrait(p, "NoReturn") /\ (IsTrait(q, "Returns") \/ IsReturned(q))
                 \/ IsTrait(q, "NoReturn") /\ (IsTrait(p, "Returns") \/ IsReturned(p))
    <2>1. p.fact \in ReturnKinds => q.fact \in ReturnKinds /\ p.function = q.function
      BY BucketTags
    <2> QED BY <2>1 DEF ReturnBehaviorContradiction, IsTrait, IsReturned, ReturnKinds
  <1> QED BY <1>1, <1>2

(* contradicted_payload_digests finds exactly the payloads that           *)
(* contradict another one.                                                *)
LEMMA DigestsExact ==
    ASSUME NEW records, Accepted(records)
    PROVE  contradicted_payload_digests(records) =
             {p \in records : \E q \in records : Contradicts(p, q)}
  <1> DEFINE inBucket(b) == {p \in records : Bucket(p) = b}
             buckets == {Bucket(p) : p \in
                           {q \in records : q.fact \in {"CodeTarget",
                               "BranchReachability", "CfgCandidate", "DispatchMap"}}}
             functions == {Bucket(p) : p \in
                           {q \in records : q.fact \in {"FunctionTrait",
                                                        "FunctionOutcome"}}}
             participants == (UNION {BucketParticipants(inBucket(b)) : b \in buckets})
             returning == (UNION {ReturnParticipants(inBucket(b)) : b \in functions})
             swept == {p \in records : \E q \in records :
                         /\ SweepCompares(records, p, q) \/ SweepCompares(records, q, p)
                         /\ region_kinds_incompatible(p.kind, q.kind)}
  <1>1. contradicted_payload_digests(records) = participants \cup returning \cup swept
    BY DEF contradicted_payload_digests
  <1>2. ASSUME NEW p \in records
        PROVE  p \in swept <=> \E q \in records : IncompatibleCodeRegion(p, q)
    <2>1. ASSUME NEW q \in records, IncompatibleCodeRegion(p, q)
          PROVE  /\ SweepCompares(records, p, q) \/ SweepCompares(records, q, p)
                 /\ region_kinds_incompatible(p.kind, q.kind)
      BY <2>1, SweepReachesOverlaps DEF IncompatibleCodeRegion
    <2>2. ASSUME NEW q \in records, region_kinds_incompatible(p.kind, q.kind),
                 SweepCompares(records, p, q) \/ SweepCompares(records, q, p)
          PROVE  IncompatibleCodeRegion(p, q)
      BY <2>2, SweepComparesOverlaps DEF IncompatibleCodeRegion, Both, Overlap
    <2> QED BY <2>1, <2>2
  <1>3. ASSUME NEW p \in records
        PROVE  p \in participants <=>
                 \E q \in records :
                    \/ ConflictingUniqueCodeTarget(p, q) \/ ReachableAndUnreachable(p, q)
                    \/ Both(p, q, "DispatchMap") /\ dispatch_maps_contradict(p, q)
    <2>1. PICK own : own = inBucket(Bucket(p))
      BY Zenon
    <2>2. p \in own /\ own \subseteq records /\ \A q \in own : Bucket(q) = Bucket(p)
      BY <2>1
    <2>3. p \in BucketParticipants(own) <=>
            \E q \in own :
               \/ ConflictingUniqueCodeTarget(p, q) \/ ReachableAndUnreachable(p, q)
               \/ Both(p, q, "DispatchMap") /\ dispatch_maps_contradict(p, q)
      BY <2>2, BucketParticipantsExact
    <2>4. ASSUME NEW b \in buckets, p \in BucketParticipants(inBucket(b))
          PROVE  inBucket(b) = own
      BY <2>1, <2>4 DEF BucketParticipants
    <2>5. ASSUME NEW q \in records,
                 \/ ConflictingUniqueCodeTarget(p, q) \/ ReachableAndUnreachable(p, q)
                 \/ Both(p, q, "DispatchMap") /\ dispatch_maps_contradict(p, q)
          PROVE  q \in own /\ Bucket(p) \in buckets
      <3>1. Bucket(q) = Bucket(p)
        <4>1. Contradicts(p, q) /\ ~IncompatibleCodeRegion(p, q)
          BY <2>5 DEF Contradicts, ConflictingUniqueCodeTarget, ReachableAndUnreachable,
                      IncompatibleCodeRegion, Both, IsEdge
        <4> QED BY <4>1, ConflictBucket
      <3>2. p.fact \in {"CodeTarget", "BranchReachability", "CfgCandidate", "DispatchMap"}
        BY <2>5 DEF ConflictingUniqueCodeTarget, ReachableAndUnreachable, Both, IsEdge
      <3> QED BY <2>1, <3>1, <3>2
    <2>6. ASSUME p \in participants PROVE p \in BucketParticipants(own)
      BY <2>4, <2>6, Zenon
    <2>7. ASSUME p \in BucketParticipants(own), Bucket(p) \in buckets PROVE p \in participants
      BY <2>1, <2>7, Zenon
    <2> HIDE DEF participants, buckets, inBucket
    <2> QED BY <2>2, <2>3, <2>5, <2>6, <2>7
  <1>4. ASSUME NEW p \in records
        PROVE  p \in returning <=> \E q \in records : ReturnBehaviorContradiction(p, q)
    <2>1. PICK own : own = inBucket(Bucket(p))
      BY Zenon
    <2>2. p \in own /\ own \subseteq records /\ \A q \in own : Bucket(q) = Bucket(p)
      BY <2>1
    <2>3. p \in ReturnParticipants(own) <=> \E q \in own : ReturnBehaviorContradiction(p, q)
      BY <2>2, ReturnParticipantsExact
    <2>4. ASSUME NEW b \in functions, p \in ReturnParticipants(inBucket(b))
          PROVE  inBucket(b) = own
      BY <2>1, <2>4 DEF ReturnParticipants
    <2>5. ASSUME NEW q \in records, ReturnBehaviorContradiction(p, q)
          PROVE  q \in own /\ Bucket(p) \in functions
      <3>1. Bucket(q) = Bucket(p)
        <4>1. Contradicts(p, q) /\ ~IncompatibleCodeRegion(p, q)
          BY <2>5 DEF Contradicts, ReturnBehaviorContradiction, IncompatibleCodeRegion, Both
        <4> QED BY <4>1, ConflictBucket
      <3>2. p.fact \in {"FunctionTrait", "FunctionOutcome"}
        BY <2>5 DEF ReturnBehaviorContradiction
      <3> QED BY <2>1, <3>1, <3>2
    <2>6. ASSUME p \in returning PROVE p \in ReturnParticipants(own)
      BY <2>4, <2>6, Zenon
    <2>7. ASSUME p \in ReturnParticipants(own), Bucket(p) \in functions PROVE p \in returning
      BY <2>1, <2>7
    <2> HIDE DEF returning, functions, inBucket
    <2> QED BY <2>2, <2>3, <2>5, <2>6, <2>7
  <1>5. participants \subseteq records /\ returning \subseteq records /\ swept \subseteq records
    BY DEF BucketParticipants, ReturnParticipants
  <1> HIDE DEF participants, returning, swept
  <1>6. \A p \in records : p \in participants \cup returning \cup swept <=>
                              \E q \in records : Contradicts(p, q)
    BY <1>2, <1>3, <1>4 DEF Contradicts
  <1> QED BY <1>1, <1>5, <1>6

-----------------------------------------------------------------------------
(* The ledger while the plugin runs *)

EvidenceInv ==
    /\ SoundStore(evidence)
    /\ \A f \in evidence.facts :
          f.evidence.producer = "user" => f.evidence.proof = "UserAsserted"

(* Reports are built from well-typed payloads.                            *)
LEMMA ReportTypes ==
    /\ \A n \in NativeFacts : WellTyped(n.payload)
    /\ \A d \in DeobfFacts : WellTyped(d.payload)
    /\ \A f \in SavedFacts : WellTyped(f.payload)
    /\ \A p \in RaxPayloads : WellTyped(p)
  BY PayloadsAssumption DEF AllPayloads, Records

(* viy_t::viy_t: the restored ledger is sound, and so is the empty one.   *)
LEMMA InitEvidence == Init => EvidenceInv
  <1> SUFFICES ASSUME Init PROVE EvidenceInv
    OBVIOUS
  <1>1. PICK facts : facts \in {{}, SavedFacts} /\ evidence = [facts |-> facts, index |-> NoIndex]
    BY DEF Init, EmptyStore, StoreOf
  <1>2. IsFiniteSet(facts)
    BY <1>1, SavedFactsAssumption, FS_EmptySet
  <1>3. Ledger(facts)
    BY <1>1, <1>2, SavedFactsAssumption, ReportTypes DEF Ledger
  <1>4. SoundStore(evidence)
    BY <1>1, <1>3 DEF SoundStore, NoIndex
  <1> QED BY <1>1, <1>4, SavedFactsAssumption DEF EvidenceInv

(* A fact that a producer of the plugin adds.                             *)
LEMMA ProducerAdds ==
    ASSUME EvidenceInv, NEW store, SoundStore(store), store.facts = evidence.facts,
           NEW f, WellTyped(f.payload), f.evidence.producer # "user",
           evidence' = Add(store, f)
    PROVE  EvidenceInv'
  <1>1. SoundStore(evidence)'
    BY AddSound, Zenon
  <1>2. evidence'.facts \subseteq evidence.facts \cup {f}
    BY AddSound, Zenon
  <1> QED BY <1>1, <1>2 DEF EvidenceInv

(* The fact a report becomes.                                             *)
LEMMA FactFields ==
    ASSUME NEW p, NEW producer, NEW generation, NEW proof, NEW confidence, NEW run
    PROVE  /\ Fact(p, producer, generation, proof, confidence, run).payload = p
           /\ Fact(p, producer, generation, proof, confidence, run).evidence.producer = producer
           /\ Fact(p, producer, generation, proof, confidence, run).evidence.generation
                = generation
  BY DEF Fact

(* Every step keeps the ledger sound, the index in step with it.          *)
LEMMA NextEvidence ==
    ASSUME EvidenceInv, [Next]_vars
    PROVE  EvidenceInv'
  <1>1. CASE UNCHANGED evidence
    BY <1>1 DEF EvidenceInv
  <1>2. ASSUME NEW n \in NativeFacts, EmitNative(n) PROVE EvidenceInv'
    <2>1. PICK f : f = Fact(n.payload, "native", provider_generation, n.proof, n.confidence,
                            Absent)
      OBVIOUS
    <2>2. f.payload = n.payload /\ f.evidence.producer = "native"
      BY <2>1, FactFields
    <2>3. evidence' = Add(evidence, f)
      BY <1>2, <2>1 DEF EmitNative
    <2> QED BY <2>2, <2>3, ReportTypes, ProducerAdds DEF EvidenceInv
  <1>3. ASSUME NEW p \in RaxPayloads, NEW run \in Runs, RecordEmulation(p, run)
        PROVE  EvidenceInv'
    <2>1. PICK f : f = Fact(p, "rax", identity, "Observed", 8500, run)
      OBVIOUS
    <2>2. f.payload = p /\ f.evidence.producer = "rax"
      BY <2>1, FactFields
    <2>3. evidence' = Add(evidence, f)
      BY <1>3, <2>1 DEF RecordEmulation
    <2> QED BY <2>2, <2>3, ReportTypes, ProducerAdds DEF EvidenceInv
  <1>4. ASSUME NEW d \in DeobfFacts, EmitDeobf(d) PROVE EvidenceInv'
    <2>1. PICK f : f = Fact(d.payload, "deobf", provider_generation, d.proof, d.confidence,
                            Absent)
      OBVIOUS
    <2>2. f.payload = d.payload /\ f.evidence.producer = "deobf"
      BY <2>1, FactFields
    <2>3. PICK queried : queried = Queried(evidence, d.payload, provider_generation)
      OBVIOUS
    <2>4. SoundStore(queried) /\ queried.facts = evidence.facts
      BY <2>3, IndexedSound DEF Queried, EvidenceInv
    <2>5. evidence' = evidence \/ evidence' = queried \/ evidence' = Add(queried, f)
      BY <1>4, <2>1, <2>3 DEF EmitDeobf
    <2>6. CASE evidence' = Add(queried, f)
      BY <2>2, <2>4, <2>6, ReportTypes, ProducerAdds
    <2> QED BY <1>1, <2>4, <2>5, <2>6 DEF EvidenceInv
  <1> QED BY <1>1, <1>2, <1>3, <1>4 DEF Next, vars, BeginEpoch, ApplyEvidence

(* The ledger and its index are sound throughout.                         *)
LEMMA EvidenceInvariant == Spec => []EvidenceInv
  <1>1. EvidenceInv /\ [Next]_vars => EvidenceInv'
    BY NextEvidence
  <1> QED BY <1>1, InitEvidence, PTL DEF Spec

-----------------------------------------------------------------------------
(* The gate and the scans *)

(* EvidenceStore::new_contradiction answers, for every payload a producer *)
(* may report and in both views, as a comparison with the whole view      *)
(* would: the index it consults is never out of step with the ledger.     *)
THEOREM GateAnswersExactly == Spec => []GateIsExact
  <1>1. EvidenceInv => GateIsExact
    <2> SUFFICES ASSUME EvidenceInv, NEW g, NEW p \in QueryPayloads
                 PROVE  new_contradiction(evidence, p, g)
                          <=> /\ p \notin ViewRecords(g)
                              /\ \E q \in ViewRecords(g) : Contradicts(p, q)
      BY DEF GateIsExact
    <2>1. ViewRecords(g) = InViewOf(evidence.facts, g)
      BY DEF ViewRecords, InViewOf
    <2>2. WellTyped(p)
      BY PayloadsAssumption DEF QueryPayloads
    <2>3. SoundStore(evidence)
      BY DEF EvidenceInv
    <2> QED BY <2>1, <2>2, <2>3, GateExact
  <1> QED BY <1>1, EvidenceInvariant, PTL

(* The records of a part of the ledger are accepted payloads.             *)
LEMMA RecordsAccepted ==
    ASSUME EvidenceInv, NEW facts, facts \subseteq evidence.facts
    PROVE  Accepted(Records(facts))
  BY DEF EvidenceInv, SoundStore, Ledger, Accepted, Records, ValidFact

(* The participants of the contradicting pairs are the payloads that      *)
(* contradict another one.                                                *)
LEMMA PairParticipants ==
    ASSUME NEW records, Accepted(records)
    PROVE  UNION {pair \in detect_conflicts(records) : \E p, q \in pair : Contradicts(p, q)}
             = {p \in records : \E q \in records : Contradicts(p, q)}
  <1> DEFINE pairs == {pair \in detect_conflicts(records) :
                          \E p, q \in pair : Contradicts(p, q)}
             all == {p \in records : \E q \in records : Contradicts(p, q)}
  <1>1. ASSUME NEW pair \in pairs, NEW x \in pair PROVE x \in all
    <2>1. PICK a \in records, b \in records : pair = {a, b}
      BY ConflictPairs
    <2>2. PICK p \in pair, q \in pair : Contradicts(p, q)
      OBVIOUS
    <2>3. p # q
      BY <2>1, <2>2, ContradictsIsIrreflexive DEF Accepted
    <2>4. Contradicts(q, p)
      BY <2>2, ContradictsIsSymmetric
    <2> QED BY <2>1, <2>2, <2>3, <2>4
  <1>2. ASSUME NEW p \in all PROVE p \in UNION pairs
    <2>1. PICK q \in records : Contradicts(p, q)
      OBVIOUS
    <2>2. p # q
      BY <2>1, ContradictsIsIrreflexive DEF Accepted
    <2>3. ReportsConflict(records, p, q) \/ ReportsConflict(records, q, p)
      BY <2>1, <2>2, ReportsAreExact
    <2>4. PICK pair : pair = {p, q}
      BY Zenon
    <2>5. pair = {q, p}
      BY <2>4
    <2>6. pair \in detect_conflicts(records)
      BY <2>3, <2>4, <2>5, ConflictPairs
    <2> QED BY <2>1, <2>4, <2>6
  <1>3. UNION pairs \subseteq all /\ all \subseteq UNION pairs
    BY <1>1, <1>2
  <1> QED BY <1>3

(* EvidenceStore::detect_conflicts and contradicted_payload_digests, each *)
(* with buckets and a sweep of its own, agree with the comparison of all  *)
(* pairs, and so with each other, on the ledger and on the active view.   *)
THEOREM ScansAgree == Spec => []ScanIsExact
  <1>1. EvidenceInv => ScanIsExact
    <2> SUFFICES ASSUME EvidenceInv, NEW facts \in {evidence.facts, ActiveView}
                 PROVE  /\ detect_conflicts(Records(facts)) =
                             UNION {{{p, q} : q \in {r \in Records(facts) :
                                       p # r /\ (Contradicts(p, r) \/ Diverges(p, r))}}
                                      : p \in Records(facts)}
                        /\ contradicted_payload_digests(Records(facts)) =
                             UNION {pair \in detect_conflicts(Records(facts)) :
                                      \E p, q \in pair : Contradicts(p, q)}
      BY DEF ScanIsExact
    <2>1. facts \subseteq evidence.facts
      BY DEF ActiveView
    <2>2. PICK records : records = Records(facts)
      OBVIOUS
    <2>3. Accepted(records)
      BY <2>1, <2>2, RecordsAccepted
    <2> QED BY <2>2, <2>3, DetectExact, DigestsExact, PairParticipants
  <1> QED BY <1>1, EvidenceInvariant, PTL

(* A payload that contradicts nothing of a view adds no pair to it.       *)
LEMMA HarmlessAddition ==
    ASSUME NEW view, NEW p, ValidPayload(p),
           p \in view \/ \A q \in view : ~Contradicts(p, q)
    PROVE  ContradictoryPairs(view \cup {p}) = ContradictoryPairs(view)
  <1>1. CASE p \in view
    <2>1. view \cup {p} = view
      BY <1>1
    <2> QED BY <2>1
  <1>2. CASE \A q \in view : ~Contradicts(p, q)
    <2>1. ~Contradicts(p, p)
      BY ContradictsIsIrreflexive
    <2>2. \A q \in view : ~Contradicts(q, p)
      BY <1>2, ContradictsIsSymmetric
    <2>3. \A q, r \in view \cup {p} : Contradicts(q, r) => q \in view /\ r \in view
      BY <1>2, <2>1, <2>2
    <2>4. PICK wider : wider = view \cup {p}
      BY Zenon
    <2>5. ASSUME NEW pair
          PROVE  /\ pair \in ContradictoryPairs(wider) <=>
                      \E q, r \in wider : pair = {q, r} /\ Contradicts(q, r)
                 /\ pair \in ContradictoryPairs(view) <=>
                      \E q, r \in view : pair = {q, r} /\ Contradicts(q, r)
      BY DEF ContradictoryPairs
    <2>6. ASSUME NEW pair
          PROVE  pair \in ContradictoryPairs(wider) <=> pair \in ContradictoryPairs(view)
      BY <2>3, <2>4, <2>5, Zenon
    <2>7. ContradictoryPairs(wider) = ContradictoryPairs(view)
      <3>1. /\ ContradictoryPairs(wider) \subseteq ContradictoryPairs(view)
            /\ ContradictoryPairs(view) \subseteq ContradictoryPairs(wider)
        BY <2>6
      <3> QED BY <3>1
    <2> QED BY <2>4, <2>7
  <1> QED BY <1>1, <1>2

(* The view of a generation after a fact of that generation was added.    *)
LEMMA ViewGrows ==
    ASSUME NEW facts, NEW f, NEW g, InView(f.evidence, g)
    PROVE  InViewOf(facts \cup {f}, g) = InViewOf(facts, g) \cup {f.payload}
  <1>1. PICK wider : wider = facts \cup {f}
    BY Zenon
  <1>2. ASSUME NEW some, NEW p
        PROVE  p \in InViewOf(some, g) <=>
                 \E h \in some : h.payload = p /\ InView(h.evidence, g)
    BY DEF InViewOf, ActiveIn, Observations, Records
  <1>3. ASSUME NEW p
        PROVE  p \in InViewOf(wider, g) <=> p \in InViewOf(facts, g) \/ p = f.payload
    BY <1>1, <1>2
  <1>4. InViewOf(wider, g) = InViewOf(facts, g) \cup {f.payload}
    BY <1>3
  <1> QED BY <1>1, <1>4

(* DeobfEvidenceStoreSink::emit_deobf_fact adds no contradiction to the   *)
(* view of its generation, whatever other producers put there before.     *)
THEOREM SinkIsGated == Spec => SinkAddsNoContradiction
  <1>1. ASSUME EvidenceInv, [Next]_vars PROVE GatedStep
    <2> SUFFICES ASSUME NEW f \in evidence'.facts \ evidence.facts,
                        f.evidence.producer = "deobf"
                 PROVE  ContradictoryPairs(ViewRecords(provider_generation)')
                          = ContradictoryPairs(ViewRecords(provider_generation))
      BY DEF GatedStep
    <2>1. ASSUME NEW n \in NativeFacts, EmitNative(n) PROVE FALSE
      <3>1. PICK h : h = Fact(n.payload, "native", provider_generation, n.proof,
                              n.confidence, Absent)
        OBVIOUS
      <3>2. evidence' = Add(evidence, h) /\ h.payload = n.payload
            /\ h.evidence.producer = "native"
        BY <2>1, <3>1, FactFields DEF EmitNative
      <3>3. f = h
        BY <1>1, <3>2, ReportTypes, AddSound, Zenon DEF EvidenceInv
      <3> QED BY <3>2, <3>3
    <2>2. ASSUME NEW p \in RaxPayloads, NEW run \in Runs, RecordEmulation(p, run) PROVE FALSE
      <3>1. PICK h : h = Fact(p, "rax", identity, "Observed", 8500, run)
        OBVIOUS
      <3>2. evidence' = Add(evidence, h) /\ h.payload = p /\ h.evidence.producer = "rax"
        BY <2>2, <3>1, FactFields DEF RecordEmulation
      <3>3. f = h
        BY <1>1, <3>2, ReportTypes, AddSound, Zenon DEF EvidenceInv
      <3> QED BY <3>2, <3>3
    <2>3. PICK d \in DeobfFacts : EmitDeobf(d)
      BY <1>1, <2>1, <2>2 DEF Next, vars, BeginEpoch, ApplyEvidence
    <2>4. PICK h : h = Fact(d.payload, "deobf", provider_generation, d.proof, d.confidence,
                            Absent)
      OBVIOUS
    <2>5. h.payload = d.payload /\ h.evidence.generation = provider_generation
      BY <2>4, FactFields
    <2>6. PICK queried : queried = Queried(evidence, d.payload, provider_generation)
      OBVIOUS
    <2>7. SoundStore(queried) /\ queried.facts = evidence.facts
      BY <1>1, <2>6, IndexedSound, SMTT(30) DEF Queried, EvidenceInv
    <2>8. evidence' = IF ~ValidFact(h) THEN evidence
                      ELSE IF Suppressed(h) THEN queried ELSE Add(queried, h)
      BY <2>3, <2>4, <2>6 DEF EmitDeobf
    <2>9. ValidFact(h) /\ ~Suppressed(h) /\ evidence' = Add(queried, h)
      BY <2>7, <2>8
    <2>10. evidence'.facts = evidence.facts \cup {h}
      BY <2>5, <2>7, <2>9, ReportTypes, AddSound, Zenon
    <2>11. PICK view, g : view = InViewOf(evidence.facts, g) /\ g = provider_generation
      OBVIOUS
    <2>12. InView(h.evidence, g)
      BY <2>5, <2>11, SMTT(30) DEF InView
    <2>13. d.payload \in view \/ \A q \in view : ~Contradicts(d.payload, q)
      <3>1. ~new_contradiction(evidence, d.payload, g)
        BY <2>5, <2>9, <2>11, <2>12 DEF Suppressed
      <3> QED BY <1>1, <2>11, <3>1, GateExact, ReportTypes DEF EvidenceInv
    <2>14. ViewRecords(provider_generation) = view
      BY <2>11 DEF ViewRecords, InViewOf
    <2>15. ViewRecords(provider_generation)' = view \cup {d.payload}
      <3>1. provider_generation' = provider_generation
        BY <2>3 DEF EmitDeobf
      <3>2. ViewRecords(provider_generation)' = InViewOf(evidence'.facts, g)
        BY <2>11, <3>1 DEF ViewRecords, InViewOf
      <3> QED BY <2>5, <2>10, <2>11, <2>12, <3>2, ViewGrows, SMTT(30)
    <2>16. ValidPayload(d.payload)
      BY <2>5, <2>9 DEF ValidFact
    <2> QED BY <2>13, <2>14, <2>15, <2>16, HarmlessAddition
  <1>2. EvidenceInv /\ [Next]_vars => [GatedStep]_vars
    BY <1>1, SMTT(30)
  <1> QED BY <1>2, EvidenceInvariant, PTL DEF Spec, SinkAddsNoContradiction

-----------------------------------------------------------------------------
(* Applying the evidence *)

(* Only viy_apply_evidence and the publication that follows it change the *)
(* database and the decompiler's snapshot.                                *)
LEMMA OnlyApplyMutates ==
    ASSUME [Next]_vars, idb' # idb \/ published' # published
    PROVE  ApplyEvidence
  BY DEF Next, vars, BeginEpoch, EmitNative, EmitDeobf, RecordEmulation

(* What ApplyEvidence leaves in the database.                             *)
LEMMA ApplyEffects ==
    ASSUME ApplyEvidence
    PROVE  \E created \in SUBSET AddableFunctions(Actionable(ActiveView)) :
              /\ add_func(AddableFunctions(Actionable(ActiveView)), created)
              /\ idb'.crefs = idb.crefs \cup NewCrefs(Actionable(ActiveView))
              /\ idb'.functions = idb.functions \cup created
              /\ idb'.comments = idb.comments \cup NewComments(Actionable(ActiveView))
  <1>1. PICK actionable : actionable = Actionable(ActiveView)
    OBVIOUS
  <1>2. PICK created \in SUBSET AddableFunctions(actionable) :
           /\ add_func(AddableFunctions(actionable), created)
           /\ idb' = [crefs |-> idb.crefs \cup NewCrefs(actionable),
                      functions |-> idb.functions \cup created,
                      comments |-> idb.comments \cup NewComments(actionable)]
    BY <1>1, Zenon DEF ApplyEvidence
  <1> QED BY <1>1, <1>2, Zenon

(* Two runs or more are two different ones.                               *)
LEMMA TwoRuns ==
    ASSUME NEW S, IsFiniteSet(S), Cardinality(S) >= 2
    PROVE  \E a, b \in S : a # b
  <1>1. S # {}
    BY FS_EmptySet
  <1>2. PICK a \in S : TRUE
    BY <1>1
  <1>3. CASE S = {a}
    BY <1>3, FS_Singleton
  <1> QED BY <1>2, <1>3

(* is_corroborated, with either floor of confidence: two runs saw it.     *)
LEMMA CorroboratedByTwo ==
    ASSUME NEW observations, IsFiniteSet(observations), NEW floor,
           Cardinality({e.run_id : e \in {o \in observations :
              o.confidence >= floor /\ o.run_id # Absent}}) >= 2
    PROVE  \E e1, e2 \in observations :
              /\ e1.run_id # Absent /\ e1.confidence >= floor
              /\ e2.run_id # Absent /\ e2.confidence >= floor
              /\ e1.run_id # e2.run_id
  <1>1. PICK counted : counted = {o \in observations :
                                    o.confidence >= floor /\ o.run_id # Absent}
    BY Zenon
  <1>2. counted \subseteq observations /\ IsFiniteSet(counted)
    BY <1>1, FS_Subset
  <1>3. PICK run : run = [e \in counted |-> e.run_id]
    BY Zenon
  <1>4. PICK runs : runs = {run[e] : e \in counted}
    BY Zenon
  <1>5. runs = {e.run_id : e \in counted}
    BY <1>3, <1>4
  <1>6. IsFiniteSet(runs)
    BY <1>2, <1>3, <1>4, FiniteRange
  <1>7. Cardinality(runs) >= 2
    BY <1>1, <1>5
  <1>8. PICK a \in runs, b \in runs : a # b
    BY <1>6, <1>7, TwoRuns
  <1> QED BY <1>1, <1>5, <1>8

(* ActiveEvidencePolicy::view: an active observation is a current one.    *)
LEMMA ActiveIsCurrent ==
    ASSUME EvidenceInv, NEW p
    PROVE  /\ Observations(ActiveView, p)
                \subseteq {e \in Observations(evidence.facts, p) : Current(e)}
           /\ IsFiniteSet(Observations(ActiveView, p))
  <1>1. ASSUME NEW f \in ActiveView PROVE f \in evidence.facts /\ Current(f.evidence)
    <2>1. f \in evidence.facts /\ IsActive(f.evidence, provider_generation, {Function},
                                           [fn \in {Function} |-> identity])
      BY DEF ActiveView
    <2>2. f.evidence.producer = "user" => f.evidence.proof = "UserAsserted"
      BY <2>1 DEF EvidenceInv
    <2> QED BY <2>1, <2>2 DEF IsActive, Current
  <1>2. PICK held : held = {f \in ActiveView : f.payload = p}
    BY Zenon
  <1>3. IsFiniteSet(held)
    BY <1>1, <1>2, FS_Subset DEF EvidenceInv, SoundStore, Ledger
  <1>4. PICK seen : seen = [f \in held |-> f.evidence]
    BY Zenon
  <1>5. PICK observed : observed = {seen[f] : f \in held}
    BY Zenon
  <1>6. IsFiniteSet(observed)
    BY <1>3, <1>4, <1>5, FiniteRange
  <1>7. observed = Observations(ActiveView, p)
    BY <1>2, <1>4, <1>5 DEF Observations
  <1> QED BY <1>1, <1>6, <1>7 DEF Observations

(* Evidence in force that carries a proof, or two runs, backs a payload.  *)
LEMMA CurrentEvidenceBacks ==
    ASSUME EvidenceInv, NEW p, NEW proofs, NEW proved, NEW seen, NEW observations,
           observations = Observations(ActiveView, p),
           \/ \E e \in observations : e.proof \in proofs /\ e.confidence >= proved
           \/ Cardinality({e.run_id : e \in {o \in observations :
                 o.confidence >= seen /\ o.run_id # Absent}}) >= 2
    PROVE  Backed(p, proofs, proved, seen)
  <1>1. /\ observations \subseteq {e \in Observations(evidence.facts, p) : Current(e)}
        /\ IsFiniteSet(observations)
    BY ActiveIsCurrent
  <1>2. CASE \E e \in observations : e.proof \in proofs /\ e.confidence >= proved
    BY <1>1, <1>2, Zenon DEF Backed
  <1>3. CASE Cardinality({e.run_id : e \in {o \in observations :
                o.confidence >= seen /\ o.run_id # Absent}}) >= 2
    <2>1. PICK e1 \in observations, e2 \in observations :
             /\ e1.run_id # Absent /\ e1.confidence >= seen
             /\ e2.run_id # Absent /\ e2.confidence >= seen
             /\ e1.run_id # e2.run_id
      BY <1>1, <1>3, CorroboratedByTwo, Zenon
    <2> QED BY <1>1, <2>1, Zenon DEF Backed
  <1> QED BY <1>2, <1>3

(* The gates of evidence_apply_policy.cpp: what is actionable rests on a  *)
(* proof or on two runs, all of them current, and is not contradicted.    *)
LEMMA ActionableIsBacked ==
    ASSUME EvidenceInv, NEW p \in Actionable(ActiveView)
    PROVE  /\ p \in Records(ActiveView) /\ p \in Records(evidence.facts)
           /\ IF p.fact = "FunctionCandidate" THEN BackedFunction(p) ELSE BackedMutation(p)
           /\ \A q \in Records(ActiveView) : ~Contradicts(p, q)
           /\ p.fact = "BranchReachability" => p.state = "ProvenUnreachable"
  <1>1. PICK records, contradicted :
           /\ records = Records(ActiveView)
           /\ contradicted = contradicted_payload_digests(records)
    OBVIOUS
  <1>2. PICK observations : observations = Observations(ActiveView, p)
    OBVIOUS
  <1>3. /\ p \in records /\ p \notin contradicted
        /\ IF p.fact = "FunctionCandidate" THEN function_candidate_is_actionable(observations)
           ELSE evidence_is_automatically_actionable(observations)
        /\ p.fact = "BranchReachability" => p.state = "ProvenUnreachable"
    BY <1>1, <1>2 DEF Actionable, Trusted
  <1>4. p \in Records(evidence.facts)
    BY <1>1, <1>3 DEF Records, ActiveView
  <1>5. \A q \in records : ~Contradicts(p, q)
    <2>1. Accepted(records)
      BY <1>1, RecordsAccepted DEF ActiveView
    <2> QED BY <1>1, <1>3, <2>1, DigestsExact
  <1>6. CASE p.fact = "FunctionCandidate"
    <2>1. \/ \E e \in observations : e.proof \in {"StaticProof"} /\ e.confidence >= 7500
          \/ Cardinality({e.run_id : e \in {o \in observations :
                o.confidence >= 8000 /\ o.run_id # Absent}}) >= 2
      BY <1>3, <1>6 DEF function_candidate_is_actionable, Corroborated
    <2>2. BackedFunction(p)
      BY <1>2, <2>1, CurrentEvidenceBacks DEF BackedFunction
    <2> QED BY <1>1, <1>3, <1>4, <1>5, <1>6, <2>2
  <1>7. CASE p.fact # "FunctionCandidate"
    <2>1. \/ \E e \in observations : e.proof \in TrustedProofs /\ e.confidence >= 9000
          \/ Cardinality({e.run_id : e \in {o \in observations :
                o.confidence >= 8000 /\ o.run_id # Absent}}) >= 2
      BY <1>3, <1>7
         DEF evidence_is_automatically_actionable, StrongProof, TrustedProofs, Corroborated
    <2>2. BackedMutation(p)
      BY <1>2, <2>1, CurrentEvidenceBacks DEF BackedMutation
    <2> QED BY <1>1, <1>3, <1>4, <1>5, <1>7, <2>2
  <1> QED BY <1>6, <1>7

(* viy_apply_evidence changes the database only on the strength of        *)
(* current evidence that a proof or two runs stand behind.                *)
THEOREM MutationsRestOnEvidence == Spec => MutationsAreBacked
  <1>1. ASSUME EvidenceInv, [Next]_vars PROVE BackedStep
    <2>1. \A f \in evidence'.facts : ValidFact(f)
      <3>1. EvidenceInv'
        BY <1>1, NextEvidence
      <3> QED BY <3>1 DEF EvidenceInv, SoundStore, Ledger
    <2>2. CASE idb' = idb
      BY <2>1, <2>2 DEF BackedStep
    <2>3. CASE idb' # idb
      <3>1. ApplyEvidence
        BY <1>1, <2>3, OnlyApplyMutates
      <3>2. PICK actionable : actionable = Actionable(ActiveView)
        OBVIOUS
      <3>3. \A p \in actionable :
               /\ p \in Records(evidence.facts)
               /\ IF p.fact = "FunctionCandidate" THEN BackedFunction(p)
                  ELSE BackedMutation(p)
        BY <1>1, <3>2, ActionableIsBacked, SMTT(30)
      <3>4. PICK created \in SUBSET AddableFunctions(actionable) :
               /\ idb'.crefs = idb.crefs \cup NewCrefs(actionable)
               /\ idb'.functions = idb.functions \cup created
               /\ idb'.comments = idb.comments \cup NewComments(actionable)
        BY <3>1, <3>2, ApplyEffects
      <3>5. \A r \in NewCrefs(actionable) :
               \E p \in actionable : p.fact = "CodeTarget" /\ <<p.from, p.target>> = r
        BY Zenon DEF NewCrefs, AddsCref
      <3>6. \A f \in created :
               \E p \in actionable : p.fact = "FunctionCandidate" /\ CandidateFunction(p) = f
        BY <3>4 DEF AddableFunctions
      <3>7. \A c \in NewComments(actionable) :
               \E p \in actionable :
                  p.fact = "BranchReachability" /\ <<p.branch, p.successor>> = c
        BY DEF NewComments, AddsComment
      <3> QED BY <2>1, <3>3, <3>4, <3>5, <3>6, <3>7 DEF BackedStep
    <2> QED BY <2>2, <2>3
  <1>2. EvidenceInv /\ [Next]_vars => [BackedStep]_vars
    BY <1>1
  <1> QED BY <1>2, EvidenceInvariant, PTL DEF Spec, MutationsAreBacked

(* viy_apply_evidence marks no edge unreachable that active evidence says *)
(* was reached, and adds no reference that all its sources dispute.       *)
THEOREM MutationsContradictNothing == Spec => MutationsAreUncontested
  <1>1. ASSUME EvidenceInv, [Next]_vars PROVE UncontestedStep
    <2>1. CASE idb' = idb
      BY <2>1 DEF UncontestedStep
    <2>2. CASE idb' # idb
      <3>1. ApplyEvidence
        BY <1>1, <2>2, OnlyApplyMutates
      <3>2. PICK actionable, records :
               actionable = Actionable(ActiveView) /\ records = Records(ActiveView)
        OBVIOUS
      <3>3. \A p \in actionable :
               /\ p \in records /\ \A q \in records : ~Contradicts(p, q)
               /\ p.fact = "BranchReachability" => p.state = "ProvenUnreachable"
        BY <1>1, <3>2, ActionableIsBacked, SMTT(30)
      <3>4. /\ idb'.crefs = idb.crefs \cup NewCrefs(actionable)
            /\ idb'.comments = idb.comments \cup NewComments(actionable)
        BY <3>1, <3>2, ApplyEffects
      <3>5. ASSUME NEW c \in NewComments(actionable)
            PROVE  ~\E q \in records : IsEdge(q) /\ Edge(q) = c /\ q.state = "Reached"
        <4>1. PICK p \in actionable :
                 p.fact = "BranchReachability" /\ <<p.branch, p.successor>> = c
          BY DEF NewComments, AddsComment
        <4>2. IsEdge(p) /\ Edge(p) = c /\ p.state = "ProvenUnreachable"
          BY <3>3, <4>1 DEF IsEdge, Edge
        <4> QED BY <3>3, <4>2
               DEF Contradicts, ReachableAndUnreachable, opposite_reachability
      <3>6. ASSUME NEW r \in NewCrefs(actionable)
            PROVE  \E p \in records :
                      /\ p.fact = "CodeTarget" /\ <<p.from, p.target>> = r
                      /\ ~\E q \in records :
                            /\ q.fact = "CodeTarget" /\ q.unique
                            /\ q.from = p.from /\ q.kind = p.kind /\ q.target # p.target
        <4>1. PICK p \in actionable : p.fact = "CodeTarget" /\ <<p.from, p.target>> = r
          BY Zenon DEF NewCrefs, AddsCref
        <4>2. \A q \in records : ~ConflictingUniqueCodeTarget(p, q)
          BY <3>3 DEF Contradicts
        <4> QED BY <3>3, <4>1, <4>2 DEF ConflictingUniqueCodeTarget, Both
      <3> QED BY <3>2, <3>4, <3>5, <3>6 DEF UncontestedStep
    <2> QED BY <2>1, <2>2
  <1>2. EvidenceInv /\ [Next]_vars => [UncontestedStep]_vars
    BY <1>1
  <1> QED BY <1>2, EvidenceInvariant, PTL DEF Spec, MutationsAreUncontested

(* viy_build_hexrays_annotations: what a published annotation shows.      *)
LEMMA AnnotationSource ==
    ASSUME NEW view, NEW a \in viy_build_hexrays_annotations(view)
    PROVE  /\ a.payload \in Records(view)
           /\ a.payload \notin UNION detect_conflicts(Records(view))
           /\ \/ \E e \in Observations(view, a.payload) : trusted_proof(e)
              \/ CorroboratedByRuns(Observations(view, a.payload))
  <1>1. PICK p \in Records(view) :
           /\ a = make_annotation(p, Observations(view, p))
           /\ p \notin conflict_digests(Records(view))
           /\ \/ \E e \in Observations(view, p) : trusted_proof(e)
              \/ CorroboratedByRuns(Observations(view, p))
    BY DEF viy_build_hexrays_annotations
  <1>2. a.payload = p
    BY <1>1 DEF make_annotation
  <1> QED BY <1>1, <1>2 DEF conflict_digests

(* HexRaysEvidenceBridge::publish shows a record only when no other       *)
(* record of the view competes with it and evidence in force backs it.    *)
THEOREM PublishedHintsStandAlone == Spec => HintsStandAlone
  <1>1. ASSUME EvidenceInv, [Next]_vars PROVE StandsAloneStep
    <2> SUFFICES ASSUME published' # published, NEW a \in published'
                 PROVE  /\ BackedHint(a.payload)
                        /\ ~\E q \in Records(ActiveView) \ {a.payload} :
                              Contradicts(a.payload, q) \/ Diverges(a.payload, q)
      BY DEF StandsAloneStep
    <2>1. a \in viy_build_hexrays_annotations(ActiveView)
      BY <1>1, OnlyApplyMutates DEF ApplyEvidence, PublishAnnotations
    <2>2. PICK p, records, observations :
             /\ p = a.payload /\ records = Records(ActiveView)
             /\ observations = Observations(ActiveView, p)
      OBVIOUS
    <2>3. /\ p \in records /\ p \notin UNION detect_conflicts(records)
          /\ \/ \E e \in observations : trusted_proof(e)
             \/ CorroboratedByRuns(observations)
      BY <2>1, <2>2, AnnotationSource
    <2>4. \/ \E e \in observations : e.proof \in TrustedProofs /\ e.confidence >= 8500
          \/ Cardinality({e.run_id : e \in {o \in observations :
                o.confidence >= 8500 /\ o.run_id # Absent}}) >= 2
      BY <2>3
         DEF trusted_proof, TrustedProofs, CorroboratedByRuns, MinimumConfidence,
             MinimumDistinctRuns
    <2>5. BackedHint(p)
      BY <1>1, <2>2, <2>4, CurrentEvidenceBacks DEF BackedHint
    <2>6. ASSUME NEW q \in records \ {p}, Contradicts(p, q) \/ Diverges(p, q) PROVE FALSE
      <3>1. Accepted(records)
        BY <1>1, <2>2, RecordsAccepted DEF ActiveView
      <3>2. ReportsConflict(records, p, q) \/ ReportsConflict(records, q, p)
        BY <2>3, <2>6, <3>1, ReportsAreExact
      <3>3. PICK pair : pair = {p, q}
        BY Zenon
      <3>4. pair = {q, p}
        BY <3>3
      <3>5. pair \in detect_conflicts(records)
        BY <2>3, <2>6, <3>2, <3>3, <3>4, ConflictPairs
      <3> QED BY <2>3, <3>3, <3>5
    <2> QED BY <2>2, <2>5, <2>6
  <1>2. EvidenceInv /\ [Next]_vars => [StandsAloneStep]_vars
    BY <1>1
  <1> QED BY <1>2, EvidenceInvariant, PTL DEF Spec, HintsStandAlone

(* A function candidate that validate_payload accepts covers its entry.   *)
LEMMA CandidateCoversEntry ==
    ASSUME NEW p, p.fact = "FunctionCandidate", ValidPayload(p), WellTyped(p)
    PROVE  CandidateFunction(p).entry < CandidateFunction(p).end
  <1>1. p.end # Absent => p.entry < p.end
    BY Zenon DEF ValidPayload
  <1> QED BY <1>1 DEF WellTyped, CandidateFunction

(* Applying the same evidence twice changes the database once: no         *)
(* reference, function or comment is left for a second pass of            *)
(* viy_apply_evidence to make.                                            *)
THEOREM ApplicationConverges == Spec => ApplyConverges
  <1>1. ASSUME EvidenceInv, [Next]_vars, idb' # idb PROVE NothingPending'
    <2>1. ApplyEvidence
      BY <1>1, OnlyApplyMutates
    <2>2. PICK actionable : actionable = Actionable(ActiveView)
      OBVIOUS
    <2>3. actionable = Actionable(ActiveView)'
      <3>1. ActiveView' = ActiveView
        BY <2>1 DEF ApplyEvidence, ActiveView
      <3> QED BY <2>2, <3>1, SMTT(30) DEF Actionable
    <2>4. PICK candidates : candidates = AddableFunctions(actionable)
      OBVIOUS
    <2>5. PICK created \in SUBSET candidates :
             /\ add_func(candidates, created)
             /\ idb'.crefs = idb.crefs \cup NewCrefs(actionable)
             /\ idb'.functions = idb.functions \cup created
             /\ idb'.comments = idb.comments \cup NewComments(actionable)
      BY <2>1, <2>2, <2>4, ApplyEffects, SMTT(30)
    <2>6. NewCrefs(actionable)' = {}
      BY <2>3, <2>5 DEF NewCrefs, AddsCref
    <2>7. NewComments(actionable)' = {}
      BY <2>3, <2>5 DEF NewComments, AddsComment, TextOccurs
    <2>8. ASSUME NEW c \in AddableFunctions(actionable)'
          PROVE  \E f \in idb'.functions : FunctionsOverlap(c, f)
      <3>1. PICK p \in actionable :
               /\ p.fact = "FunctionCandidate" /\ p.entry \in Executable
               /\ c = CandidateFunction(p)
               /\ ~\E f \in idb'.functions : f.entry <= p.entry /\ p.entry < f.end
        BY DEF AddableFunctions
      <3>2. c \in candidates
        BY <2>4, <2>5, <3>1 DEF AddableFunctions
      <3>3. c.entry < c.end
        <4>1. Accepted(Records(evidence.facts)) /\ p \in Records(evidence.facts)
          BY <1>1, <2>2, RecordsAccepted, ActionableIsBacked
        <4> QED BY <3>1, <4>1, CandidateCoversEntry DEF Accepted
      <3>4. CASE \E f \in idb.functions : FunctionsOverlap(c, f)
        BY <2>5, <3>4
      <3>5. CASE c \in created
        BY <2>5, <3>3, <3>5 DEF FunctionsOverlap
      <3>6. CASE c \notin created /\ ~\E f \in idb.functions : FunctionsOverlap(c, f)
        BY <2>5, <3>2, <3>6 DEF add_func
      <3> QED BY <3>4, <3>5, <3>6
    <2>9. ASSUME NEW made \in SUBSET AddableFunctions(actionable)',
                 add_func(AddableFunctions(actionable), made)'
          PROVE  made = {}
      BY <2>8, <2>9 DEF add_func
    <2> QED BY <2>3, <2>6, <2>7, <2>9 DEF NothingPending
  <1>2. EvidenceInv /\ [Next]_vars => [idb' # idb => NothingPending']_vars
    BY <1>1
  <1> QED BY <1>2, EvidenceInvariant, PTL DEF Spec, ApplyConverges
=============================================================================
