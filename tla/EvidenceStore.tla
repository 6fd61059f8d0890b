--------------------------- MODULE EvidenceStore ---------------------------
(***************************************************************************)
(* evidence_store.cpp: the ledger of facts and its three searches for      *)
(* conflicts, each with an index of its own.                               *)
(*                                                                         *)
(* A store is a record: facts is the set of [payload, evidence] pairs (the *)
(* observations of records_, grouped by payload in the code), and index    *)
(* the lazily built ContradictionIndex.                                    *)
(***************************************************************************)
EXTENDS AnalysisFacts

NoIndex == [built |-> FALSE, entries |-> {}, maximum_region_size |-> 0]
EmptyStore == [facts |-> {}, index |-> NoIndex]

(* records() *)
Records(facts) == {f.payload : f \in facts}
Observations(facts, p) == {f.evidence : f \in {g \in facts : g.payload = p}}

IsReturnFact(p) ==
    IsTrait(p, "Returns") \/ IsTrait(p, "NoReturn") \/ IsReturned(p)

(* ContradictionIndex::subject; the empty tuple is nullopt.               *)
Subject(p) ==
    CASE p.fact = "CodeTarget" -> <<"target", p.from, p.kind>>
      [] IsEdge(p) -> <<"edge", Edge(p)>>
      [] IsReturnFact(p) -> <<"function", p.function>>
      [] p.fact = "DispatchMap" -> <<"dispatch", p.site>>
      [] OTHER -> <<>>

CanContradict(p) == Subject(p) # <<>> \/ p.fact = "CodeRegion"

RegionSize(p) == IF p.fact = "CodeRegion" THEN p.end - p.start ELSE 0
Larger(m, n) == IF m >= n THEN m ELSE n

(* Mutant: only the first region sets the maximum size.                   *)
WidenOnce(size, p) == IF size = 0 THEN RegionSize(p) ELSE size

Widen(size, p) == Larger(size, RegionSize(p))

(* ContradictionIndex::insert *)
IndexInsert(index, p) ==
    IF CanContradict(p)
    THEN [index EXCEPT !.entries = @ \cup {p},
                       !.maximum_region_size = Widen(@, p)]
    ELSE index

IndexOf(records) ==
    LET indexed == {p \in records : CanContradict(p)}
        sizes == {RegionSize(p) : p \in indexed} \cup {0}
    IN [built |-> TRUE, entries |-> indexed,
        maximum_region_size |-> CHOOSE n \in sizes : \A m \in sizes : m <= n]

(* EvidenceStore::add *)
Add(store, f) ==
    IF ~ValidFact(f) THEN store
    ELSE [facts |-> store.facts \cup {f},
          index |-> IF store.index.built
                       /\ f.payload \notin Records(store.facts)
                    THEN IndexInsert(store.index, f.payload)
                    ELSE store.index]

(* The store restore(Replace) moves in: deserialize adds the facts to a   *)
(* fresh store that nobody has queried.                                   *)
StoreOf(facts) == [facts |-> facts, index |-> NoIndex]

-----------------------------------------------------------------------------
(* The payload has an observation in the view of a generation.            *)
InView(e, generation) ==
    generation = 0 \/ e.generation = generation \/ e.proof = "UserAsserted"
ActiveIn(facts, p, generation) ==
    \E e \in Observations(facts, p) : InView(e, generation)

(* The query answers before it needs the index.                           *)
AnswersEarly(store, p, generation) ==
    ~CanContradict(p) \/ ActiveIn(store.facts, p, generation)

(* new_contradiction builds the index on first use.                       *)
Indexed(store) ==
    IF store.index.built THEN store
    ELSE [store EXCEPT !.index = IndexOf(Records(store.facts))]

(* The lowest start from which an indexed region can reach p.             *)
LowerBound(index, p) ==
    LET span == index.maximum_region_size IN
    IF p.start > span THEN p.start - span ELSE 0

(* The entries of the index a query for p visits.                         *)
Visited(index, p) ==
    IF Subject(p) # <<>>
    THEN {q \in index.entries : Subject(q) = Subject(p)}
    ELSE {q \in index.entries :
             /\ q.fact = "CodeRegion"
             /\ q.start >= LowerBound(index, p) /\ q.start < p.end
             /\ q.end > p.start}

(* EvidenceStore::new_contradiction *)
new_contradiction(store, p, generation) ==
    /\ ~AnswersEarly(store, p, generation)
    /\ \E q \in Visited(Indexed(store).index, p) :
          ActiveIn(store.facts, q, generation) /\ Contradicts(p, q)

(* The store new_contradiction leaves behind.                             *)
Queried(store, p, generation) ==
    IF AnswersEarly(store, p, generation) THEN store ELSE Indexed(store)

-----------------------------------------------------------------------------
(* The map of detect_conflicts that files a payload, and its key there.   *)
Bucket(p) ==
    CASE p.fact = "CodeTarget" -> <<"target", p.from, p.kind>>
      [] IsEdge(p) -> <<"edge", Edge(p)>>
      [] p.fact = "MemoryValue" ->
            <<"memory", p.instruction, p.address, p.kind>>
      [] p.fact = "StringCandidate" -> <<"string", p.address>>
      [] p.fact = "FunctionCandidate" -> <<"candidate", p.entry>>
      [] p.fact \in {"FunctionTrait", "FunctionOutcome"} ->
            <<"function", p.function>>
      [] p.fact = "DispatchMap" -> <<"dispatch", p.site>>
      [] p.fact = "RegisterValue" ->
            <<"register", p.instruction, p.point, p.register_id>>
      [] p.fact = "CallObservation" -> <<"call", p.source>>
      [] OTHER -> <<>>

(* The order of the region sweep: by start, end, and position in records_.*)
RegionBefore(p, q) ==
    \/ p.start < q.start
    \/ p.start = q.start /\ p.end < q.end
    \/ /\ p.start = q.start /\ p.end = q.end
       /\ RegionKindOrder[p.kind] < RegionKindOrder[q.kind]

(* Mutant: a region is only compared with its neighbour.                  *)
SweepComparesNeighbours(records, p, q) ==
    /\ Both(p, q, "CodeRegion") /\ RegionBefore(p, q) /\ q.start < p.end
    /\ ~\E m \in records : /\ m.fact = "CodeRegion"
                           /\ RegionBefore(p, m) /\ RegionBefore(m, q)

(* The region sweep compares p with q: from each region on, up to the     *)
(* first later one that starts at or after its end.                       *)
SweepCompares(records, p, q) ==
    /\ Both(p, q, "CodeRegion") /\ RegionBefore(p, q)
    /\ \A m \in records :
          m.fact = "CodeRegion" /\ RegionBefore(p, m) /\ ~RegionBefore(q, m)
             => m.start < p.end

SameBucket(p, q) == p # q /\ Bucket(p) # <<>> /\ Bucket(p) = Bucket(q)

(* compare_payloads is called on the pair and reports a conflict.         *)
ReportsConflict(records, p, q) ==
    \/ SameBucket(p, q) /\ (Contradicts(p, q) \/ Diverges(p, q))
    \/ SweepCompares(records, p, q) /\ Contradicts(p, q)

(* EvidenceStore::detect_conflicts, as the set of conflicting pairs       *)
detect_conflicts(records) ==
    UNION {{{p, q} : q \in {r \in records : ReportsConflict(records, p, r)}}
             : p \in records}

(* The participants of contradictions among the return facts of one       *)
(* function, found group by group.                                        *)
ReturnParticipants(facts) ==
    LET returns == {p \in facts : IsTrait(p, "Returns")}
        no_returns == {p \in facts : IsTrait(p, "NoReturn")}
        returned_outcomes == {p \in facts : IsReturned(p)}
    IN (IF returns # {} /\ no_returns # {}
        THEN returns \cup no_returns ELSE {})
       \cup (IF no_returns # {} /\ returned_outcomes # {}
             THEN no_returns \cup returned_outcomes ELSE {})

(* The participants within one bucket of targets, edges or maps.          *)
BucketParticipants(bucket) ==
    {p \in bucket : \E q \in bucket :
        \/ p.fact = "CodeTarget" /\ p.target # q.target
           /\ (p.unique \/ q.unique)
        \/ IsEdge(p) /\ opposite_reachability(p.state, q.state)
        \/ p.fact = "DispatchMap" /\ dispatch_maps_contradict(p, q)}

(* EvidenceStore::contradicted_payload_digests *)
contradicted_payload_digests(records) ==
    LET inBucket(b) == {p \in records : Bucket(p) = b}
        buckets == {Bucket(p) : p \in
                      {q \in records : q.fact \in {"CodeTarget",
                          "BranchReachability", "CfgCandidate", "DispatchMap"}}}
        functions == {Bucket(p) : p \in
                      {q \in records : q.fact \in {"FunctionTrait",
                                                   "FunctionOutcome"}}}
        participants == (UNION {BucketParticipants(inBucket(b)) : b \in buckets})
        returning == (UNION {ReturnParticipants(inBucket(b)) : b \in functions})
    IN participants \cup returning
         \cup {p \in records : \E q \in records :
                 /\ SweepCompares(records, p, q) \/ SweepCompares(records, q, p)
                 /\ region_kinds_incompatible(p.kind, q.kind)}
=============================================================================
