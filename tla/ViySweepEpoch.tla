--------------------------- MODULE ViySweepEpoch ----------------------------
(***************************************************************************)
(* The inductive invariant of the sweep, the allocator of evidence         *)
(* generations, and the proofs that the steps which open, close or disturb *)
(* an epoch keep the invariant, for every number of functions, workers,    *)
(* epochs and generations.                                                 *)
(***************************************************************************)
EXTENDS ViySweep, FiniteSetTheorems, SequenceTheorems, WellFoundedInduction, TLAPS

(* A nonempty set of naturals has a least element, and Least finds it.    *)
LEMMA LeastIsLeast ==
    ASSUME NEW S \in SUBSET Nat, S # {}
    PROVE  Least(S) \in S /\ \A m \in S : Least(S) <= m
  <1> DEFINE below == {0..m : m \in S}
             R == StrictSubsetOrdering(Nat)
  <1>1. below # {} /\ below \subseteq FiniteSubsetsOf(Nat)
    <2>1. \A m \in S : 0..m \in SUBSET Nat /\ IsFiniteSet(0..m)
      BY FS_Interval
    <2> QED BY <2>1, Zenon DEF FiniteSubsetsOf
  <1>2. IsWellFoundedOn(R, FiniteSubsetsOf(Nat))
    BY FS_StrictSubsetOrderingWellFounded
  <1>3. PICK x \in below : \A y \in below : ~(<<y, x>> \in R)
    <2> HIDE DEF below, R
    <2> QED BY <1>1, <1>2, WFMin
  <1>4. PICK n \in S : x = 0..n
    BY <1>3
  <1>5. ASSUME NEW m \in S PROVE n <= m
    <2> SUFFICES ASSUME m < n PROVE FALSE
      OBVIOUS
    <2>1. 0..m \subseteq 0..n /\ 0..m # 0..n /\ 0..m \in below
      OBVIOUS
    <2>2. <<0..m, 0..n>> \in R
      BY <2>1 DEF StrictSubsetOrdering
    <2> QED BY <1>3, <1>4, <2>1, <2>2, Zenon
  <1> QED BY <1>5, Zenon DEF Least

(* Increasing enumerations of S, the entries of a snapshot in address     *)
(* order.                                                                 *)
Increasing(S) ==
    {s \in [1..Cardinality(S) -> S] : \A i, j \in DOMAIN s : i < j => s[i] < s[j]}

(* Every set of function addresses has an increasing enumeration; by      *)
(* induction on the largest address, stated as: no bound is the least     *)
(* counterexample.                                                        *)
LEMMA IncreasingExists == \A n \in Nat : \A S \in SUBSET (1..n) : Increasing(S) # {}
  <1> DEFINE Bad == {n \in Nat : \E S \in SUBSET (1..n) : Increasing(S) = {}}
  <1> SUFFICES ASSUME Bad # {} PROVE FALSE
    OBVIOUS
  <1>1. PICK n \in Bad : \A m \in Bad : n <= m
    BY LeastIsLeast, Zenon
  <1>2. PICK S \in SUBSET (1..n) : Increasing(S) = {}
    BY <1>1
  <1>3. IsFiniteSet(S) /\ n \in Nat
    <2>1. n \in Nat /\ IsFiniteSet(1..n)
      BY <1>1, FS_Interval
    <2> QED BY <1>2, <2>1, FS_Subset, Zenon
  <1>4. CASE S = {}
    <2>1. Cardinality(S) = 0
      BY <1>4, FS_EmptySet
    <2>2. <<>> \in [1..0 -> S]
      OBVIOUS
    <2>3. <<>> \in Increasing(S)
      BY <2>1, <2>2 DEF Increasing
    <2> QED BY <1>2, <2>3
  <1>5. CASE S # {}
    <2>0. PICK e \in S : e \in 1..n
      BY <1>2, <1>5, Zenon
    <2>1. n # 0 /\ n - 1 \in Nat
      BY <1>3, <2>0
    <2>2. \A T \in SUBSET (1..(n - 1)) : Increasing(T) # {}
      <3>1. n - 1 \notin Bad
        <4> HIDE DEF Bad
        <4> QED BY <1>1, <1>3, <2>1
      <3> QED BY <2>1, <3>1
    <2>3. n \in S
      <3> SUFFICES ASSUME n \notin S PROVE FALSE
        OBVIOUS
      <3>1. S \in SUBSET (1..(n - 1))
        BY <1>3, <2>1
      <3> QED BY <1>2, <2>2, <3>1
    <2> DEFINE T == S \ {n}
               k == Cardinality(T)
    <2>4. T \in SUBSET (1..(n - 1))
      BY <1>3, <2>1
    <2>5. k \in Nat /\ Cardinality(S) = k + 1
      <3>1. IsFiniteSet(T) /\ Cardinality(T) = Cardinality(S) - 1 /\ Cardinality(S) \in Nat
        BY <1>3, <2>3, FS_RemoveElement, FS_CardinalityType
      <3>2. Cardinality(T) \in Nat
        BY <3>1, FS_CardinalityType
      <3> QED BY <3>1, <3>2
    <2>6. PICK t \in Increasing(T) : TRUE
      BY <2>2, <2>4
    <2> HIDE DEF k
    <2>7. /\ t \in [1..k -> T]
          /\ \A i, j \in 1..k : i < j => t[i] < t[j]
      BY <2>6, Zenon DEF Increasing, k
    <2> DEFINE s == [i \in 1..(k + 1) |-> IF i = k + 1 THEN n ELSE t[i]]
    <2>8. s \in [1..Cardinality(S) -> S]
      BY <2>3, <2>5, <2>7
    <2>9. ASSUME NEW i \in 1..(k + 1), NEW j \in 1..(k + 1), i < j
          PROVE  s[i] < s[j]
      <3>1. i \in 1..k /\ s[i] = t[i] /\ t[i] \in T
        BY <2>5, <2>7, <2>9
      <3>2. t[i] \in 1..(n - 1)
        BY <2>4, <3>1, Zenon
      <3>3. CASE j = k + 1
        BY <1>3, <3>1, <3>2, <3>3
      <3>4. CASE j # k + 1
        <4>1. j \in 1..k /\ s[j] = t[j]
          BY <2>5, <3>4
        <4> QED BY <2>7, <2>9, <3>1, <4>1
      <3> QED BY <3>3, <3>4
    <2>10. s \in Increasing(S)
      BY <2>5, <2>8, <2>9, Zenon DEF Increasing
    <2> QED BY <1>2, <2>10
  <1> QED BY <1>4, <1>5

(* The entries of a snapshot: every function once, in address order.      *)
LEMMA InOrderEnumerates ==
    ASSUME NEW n \in Nat, NEW S \in SUBSET (1..n)
    PROVE  /\ InOrder(S) \in Seq(S)
           /\ Len(InOrder(S)) = Cardinality(S)
           /\ InOrder(S) \in Increasing(S)
  <1>1. InOrder(S) \in Increasing(S)
    BY IncreasingExists, Zenon DEF InOrder, Increasing
  <1>2. Cardinality(S) \in Nat
    <2>1. IsFiniteSet(1..n)
      BY FS_Interval
    <2> QED BY <2>1, FS_Subset, FS_CardinalityType, Zenon
  <1> QED BY <1>1, <1>2 DEF Increasing

-----------------------------------------------------------------------------
(* The inductive invariant of the sweep *)

SnapshotFunctions == DOMAIN img.generation
Room == Cardinality(Generations \ allocator.used)
JobFingerprints == [content : Versions, shape : 0..2, inputs : Versions]
Job == [index : Nat, function : Functions, generation : Generations,
        fingerprint : JobFingerprints, hit : BOOLEAN,
        outcome : Outcomes \cup {"pending"}, ran : BOOLEAN]

SweepTypes ==
    /\ cfg \in [rax : BOOLEAN, want_static : BOOLEAN, want_native : BOOLEAN,
                want_deobf : BOOLEAN]
    /\ idb \in [content : Versions, shape : [Functions -> 0..2],
                inputs : [Functions -> Versions]]
    /\ started \in BOOLEAN /\ finished \in BOOLEAN /\ waiting_for_auto \in BOOLEAN
    /\ epoch \in Nat
    /\ pc \in {"idle", "entry", "take", "submit", "drain", "nopool", "apply", "unloaded"}
    /\ jobs \in Seq(Job)
    /\ next \in Nat \ {0}
    /\ done \in Seq(Nat)

(* The snapshot, and the lifecycle's record of it.                        *)
SnapshotOK ==
    /\ SnapshotFunctions \subseteq Functions
    /\ img.generation \in [SnapshotFunctions -> Generations]
    /\ img.shape \in [SnapshotFunctions -> 0..2]
    /\ img.content \in Versions
    /\ img.entries \in Seq(SnapshotFunctions)
    /\ DOMAIN function_evidence_identities = SnapshotFunctions
    /\ \A f \in SnapshotFunctions :
          /\ function_evidence_identities[f].generation = img.generation[f]
          /\ function_evidence_identities[f].byte_hash = img.shape[f]
    /\ provider_function_starts = SnapshotFunctions
    /\ prior_content_hash \subseteq {img.content}

(* Every generation that is in the ledger or that the snapshot carries is *)
(* one the allocator counts as used, and there are unused ones for every  *)
(* epoch that may still begin.                                            *)
AllocatorOK ==
    /\ allocator.used \subseteq 0..MaxGeneration
    /\ \A o \in evidence : o.generation \in allocator.used
    /\ \A f \in SnapshotFunctions : img.generation[f] \in allocator.used
    /\ provider_generation \in 0..MaxGeneration
    /\ SnapshotFunctions # {} => provider_generation # 0
    /\ deobf_pending => provider_generation \in allocator.used
    /\ waiting_for_auto => epoch + 1 < MaxEpochs
    /\ started => Room >= 3 * (MaxEpochs - epoch - 1)

(* A generation of the snapshot stands for its content and shape, is not  *)
(* one of the restored history, and carries the whole native scan.        *)
EvidenceOK ==
    /\ \A o \in evidence : o.restored =>
          /\ o.producer \in {"rax", "native"}
          /\ provider_generation # 0 => o.generation # provider_generation
          /\ \A f \in SnapshotFunctions : o.generation # img.generation[f]
    /\ \A o \in evidence :
          (/\ o.producer = "rax" /\ o.function \in SnapshotFunctions
           /\ o.generation = img.generation[o.function]) =>
              /\ o.fingerprint.content = img.content
              /\ o.fingerprint.shape = img.shape[o.function]
    /\ cfg.want_native => \A f \in SnapshotFunctions :
          Observation("native", f, provider_generation, NoFingerprint) \in evidence

(* The ledger holds a dynamic observation for this job.                   *)
HasEvidence(f, fingerprint) ==
    \E o \in evidence : /\ o.producer = "rax"
                        /\ o.function = f
                        /\ o.fingerprint = fingerprint

(* A job in flight is one of the snapshot's, and a completed one ran      *)
(* unless the ledger already had its evidence.                            *)
JobsOK ==
    /\ \A i \in 1..Len(jobs) :
          /\ jobs[i].index \in 1..Len(img.entries)
          /\ jobs[i].function = img.entries[jobs[i].index]
          /\ jobs[i].generation = img.generation[jobs[i].function]
          /\ jobs[i].fingerprint.content = img.content
          /\ jobs[i].fingerprint.shape = img.shape[jobs[i].function]
          /\ jobs[i].outcome = "COMPLETED" => jobs[i].ran \/ jobs[i].hit
          /\ jobs[i].hit => HasEvidence(jobs[i].function, jobs[i].fingerprint)
    /\ jobs # <<>> => cfg.rax /\ img.entries # <<>> /\ worker_image = img.generation

(* Results are processed in snapshot order and the rest is in flight.     *)
OrderOK ==
    pc # "unloaded" =>
        /\ Len(done) + Len(jobs) = next - 1
        /\ \A i \in 1..Len(done) : done[i] = i
        /\ \A i \in 1..Len(jobs) : jobs[i].index = Len(done) + i
        /\ next <= Len(img.entries) + 1
        /\ pc \in {"take", "submit", "drain"} => cfg.rax /\ img.entries # <<>>
        /\ (pc \in {"take", "submit", "drain", "nopool"} \/ AtBatch) /\ cfg.rax =>
              worker_image = img.generation
        /\ pc = "nopool" => jobs = <<>>
        /\ pc = "apply" => jobs = <<>> /\ next = Len(img.entries) + 1

SweepInv ==
    /\ SweepTypes /\ SnapshotOK /\ AllocatorOK /\ EvidenceOK
    /\ CacheHasEvidence /\ JobsOK /\ OrderOK

-----------------------------------------------------------------------------
(* The allocator *)

(* allocate returns a generation that was not in use, within the counter  *)
(* and never 0, through skips and the wrap, as long as one is unused.     *)
LEMMA AllocateIsFresh ==
    ASSUME NEW a, Generations \ a.used # {}
    PROVE  /\ Allocate(a).last \in Generations \ a.used
           /\ Allocate(a).used = a.used \cup {Allocate(a).last}
  <1> DEFINE unused == Generations \ a.used
             ahead == {g \in unused : g >= a.cursor}
             pool == IF ahead # {} THEN ahead ELSE unused
  <1>1. pool # {} /\ pool \subseteq unused /\ unused \subseteq Nat
    BY MaxGenerationAssumption DEF Generations
  <1>2. Candidate(a) = Least(pool)
    BY DEF Candidate
  <1>3. Candidate(a) \in unused
    <2> HIDE DEF pool, unused
    <2> QED BY <1>1, <1>2, LeastIsLeast, Zenon
  <1> QED BY <1>3 DEF Allocate

(* The unused generations can be counted.                                 *)
LEMMA UnusedAreFinite ==
    ASSUME NEW used
    PROVE  IsFiniteSet(Generations \ used) /\ Cardinality(Generations \ used) \in Nat
  <1>1. IsFiniteSet(1..MaxGeneration)
    BY MaxGenerationAssumption, FS_Interval
  <1>2. IsFiniteSet(Generations)
    BY <1>1 DEF Generations
  <1> QED BY <1>2, FS_Difference, FS_CardinalityType, Zenon

(* Each allocation uses up one generation.                                *)
LEMMA AllocateUsesOne ==
    ASSUME NEW a, NEW n \in Nat, Cardinality(Generations \ a.used) >= n + 1
    PROVE  /\ Allocate(a).last \in Generations \ a.used
           /\ Allocate(a).used = a.used \cup {Allocate(a).last}
           /\ Cardinality(Generations \ Allocate(a).used) >= n
  <1> DEFINE unused == Generations \ a.used
  <1>1. IsFiniteSet(unused)
    BY UnusedAreFinite, Zenon
  <1>2. Cardinality(unused) \in Nat
    BY UnusedAreFinite, Zenon
  <1>3. unused # {}
    BY <1>2, FS_EmptySet
  <1>4. /\ Allocate(a).last \in unused
        /\ Allocate(a).used = a.used \cup {Allocate(a).last}
    BY <1>3, AllocateIsFresh
  <1>5. Generations \ Allocate(a).used = unused \ {Allocate(a).last}
    BY <1>4
  <1>6. Cardinality(unused \ {Allocate(a).last}) = Cardinality(unused) - 1
    <2> HIDE DEF unused
    <2> QED BY <1>1, <1>4, FS_RemoveElement, Zenon
  <1>7. Cardinality(unused) - 1 >= n
    BY <1>2
  <1> QED BY <1>4, <1>5, <1>6, <1>7

(* The three generations of an epoch: those that are handed out are new,  *)
(* and the allocator counts them as used from then on.                    *)
LEMMA EpochGenerations ==
    ASSUME allocator.used \subseteq 0..MaxGeneration, NEW n \in Nat, Room >= n + 3,
           NEW a, a = AllocateIf(ChangedFunctions # {}, allocator),
           NEW b, b = Allocate(a),
           NEW c, c = AllocateIf(UncachedFunctions # {}, b)
    PROVE  /\ ChangedFunctions # {} => a.last \in (Generations \ allocator.used) \cap c.used
           /\ b.last \in (Generations \ allocator.used) \cap c.used
           /\ UncachedFunctions # {} => c.last \in (Generations \ allocator.used) \cap c.used
           /\ allocator.used \subseteq c.used /\ c.used \subseteq 0..MaxGeneration
           /\ Cardinality(Generations \ c.used) >= n
  <1>0. /\ Cardinality(Generations \ allocator.used) \in Nat
        /\ Cardinality(Generations \ a.used) \in Nat
        /\ Cardinality(Generations \ b.used) \in Nat
    BY UnusedAreFinite, Zenon
  <1>1. /\ ChangedFunctions # {} => a.last \in Generations \ allocator.used /\ a.last \in a.used
        /\ allocator.used \subseteq a.used /\ a.used \subseteq allocator.used \cup Generations
        /\ Cardinality(Generations \ a.used) >= n + 2
    <2>1. /\ n + 2 \in Nat
          /\ Cardinality(Generations \ allocator.used) >= (n + 2) + 1
      BY <1>0 DEF Room
    <2>2. CASE ChangedFunctions # {}
      <3>1. a = Allocate(allocator)
        BY <2>2 DEF AllocateIf
      <3> QED BY <2>1, <3>1, AllocateUsesOne, Zenon
    <2>3. CASE ChangedFunctions = {}
      <3>1. a = allocator
        BY <2>3 DEF AllocateIf
      <3>2. Cardinality(Generations \ allocator.used) >= n + 2
        BY <1>0, <2>1
      <3> QED BY <2>3, <3>1, <3>2, Zenon
    <2> QED BY <2>2, <2>3
  <1>2. /\ b.last \in Generations \ a.used /\ b.used = a.used \cup {b.last}
        /\ Cardinality(Generations \ b.used) >= n + 1
    <2>1. n + 1 \in Nat /\ Cardinality(Generations \ a.used) >= (n + 1) + 1
      BY <1>0, <1>1
    <2> QED BY <2>1, AllocateUsesOne, Zenon
  <1>3. /\ UncachedFunctions # {} => c.last \in Generations \ b.used /\ c.last \in c.used
        /\ b.used \subseteq c.used /\ c.used \subseteq b.used \cup Generations
        /\ Cardinality(Generations \ c.used) >= n
    <2>1. CASE UncachedFunctions # {}
      <3>1. c = Allocate(b)
        BY <2>1 DEF AllocateIf
      <3>2. /\ c.last \in Generations \ b.used /\ c.used = b.used \cup {c.last}
            /\ Cardinality(Generations \ c.used) >= n
        BY <1>2, <3>1, AllocateUsesOne, Zenon
      <3> QED BY <3>2
    <2>2. CASE UncachedFunctions = {}
      <3>1. c = b
        BY <2>2 DEF AllocateIf
      <3>2. Cardinality(Generations \ b.used) >= n
        BY <1>0, <1>2
      <3> QED BY <2>2, <3>1, <3>2
    <2> QED BY <2>1, <2>2
  <1>4. allocator.used \subseteq c.used /\ c.used \subseteq 0..MaxGeneration
    <2>1. Generations \subseteq 0..MaxGeneration
      BY MaxGenerationAssumption DEF Generations
    <2>2. allocator.used \subseteq c.used /\ c.used \subseteq allocator.used \cup Generations
      BY <1>1, <1>2, <1>3
    <2> QED BY <2>1, <2>2, Zenon
  <1>5. ChangedFunctions # {} => a.last \in (Generations \ allocator.used) \cap c.used
    BY <1>1, <1>2, <1>3
  <1>6. b.last \in (Generations \ allocator.used) \cap c.used
    BY <1>1, <1>2, <1>3
  <1>7. UncachedFunctions # {} => c.last \in (Generations \ allocator.used) \cap c.used
    BY <1>1, <1>2, <1>3
  <1> QED BY <1>3, <1>4, <1>5, <1>6, <1>7

(* Only a function whose content and bytes are those of the last snapshot *)
(* keeps its generation; any other gets one that was not in use.          *)
LEMMA GenerationIsFreshOrKept ==
    ASSUME SweepTypes, SnapshotOK, NEW f \in Existing(idb), NEW forFunctions, NEW forJobs,
           NEW fresh,
           ChangedFunctions # {} => forFunctions \in fresh,
           UncachedFunctions # {} => forJobs \in fresh
    PROVE  \/ GenerationOf(f, forFunctions, forJobs) \in fresh
           \/ /\ f \in SnapshotFunctions
              /\ GenerationOf(f, forFunctions, forJobs) = img.generation[f]
              /\ img.content = idb.content /\ img.shape[f] = idb.shape[f]
  <1>1. CASE f \in UncachedFunctions
    BY <1>1 DEF GenerationOf
  <1>2. CASE f \in ChangedFunctions /\ f \notin UncachedFunctions
    BY <1>2 DEF GenerationOf
  <1>3. CASE f \notin ChangedFunctions /\ f \notin UncachedFunctions
    <2>1. Unchanged(f)
      BY <1>3 DEF ChangedFunctions
    <2>2. /\ GenerationOf(f, forFunctions, forJobs) = function_evidence_identities[f].generation
      BY <1>3 DEF GenerationOf
    <2> QED BY <2>1, <2>2 DEF Unchanged, SnapshotOK
  <1> QED BY <1>1, <1>2, <1>3

(* begin_epoch: the new snapshot and its generations.                     *)
LEMMA BeginEpochSnapshot ==
    ASSUME SweepInv, NEW n \in Nat, Room >= n + 3, BeginEpoch, UNCHANGED <<cfg, idb>>
    PROVE  /\ SnapshotOK'
           /\ allocator'.used \subseteq 0..MaxGeneration
           /\ allocator.used \subseteq allocator'.used
           /\ provider_generation' \in (Generations \ allocator.used) \cap allocator'.used
           /\ \A f \in SnapshotFunctions' :
                \/ img'.generation[f] \in (Generations \ allocator.used) \cap allocator'.used
                \/ /\ f \in SnapshotFunctions /\ img'.generation[f] = img.generation[f]
                   /\ img'.content = img.content /\ img'.shape[f] = img.shape[f]
           /\ cfg.rax => worker_image' = img'.generation
           /\ evidence' = IF cfg.want_native
                          THEN evidence \cup ProviderFacts("native", SnapshotFunctions', provider_generation')
                          ELSE evidence
           /\ Room' >= n
  <1>0. SweepTypes /\ SnapshotOK /\ allocator.used \subseteq 0..MaxGeneration
    BY DEF SweepInv, AllocatorOK
  <1> DEFINE fns == Existing(idb)
             fresh(c) == (Generations \ allocator.used) \cap c.used
  <1>1. PICK a, b, c :
          /\ a = AllocateIf(ChangedFunctions # {}, allocator)
          /\ b = Allocate(a)
          /\ c = AllocateIf(UncachedFunctions # {}, b)
          /\ TakeSnapshot([f \in fns |-> GenerationOf(f, a.last, c.last)])
          /\ provider_generation' = b.last
          /\ allocator' = c
          /\ evidence' = IF cfg.want_native
                         THEN evidence \cup ProviderFacts("native", fns, b.last)
                         ELSE evidence
    BY Zenon DEF BeginEpoch
  <1> DEFINE gen == [f \in fns |-> GenerationOf(f, a.last, c.last)]
  <1>2. /\ ChangedFunctions # {} => a.last \in fresh(c)
        /\ b.last \in fresh(c)
        /\ UncachedFunctions # {} => c.last \in fresh(c)
        /\ allocator.used \subseteq c.used /\ c.used \subseteq 0..MaxGeneration
        /\ Cardinality(Generations \ c.used) >= n
    BY <1>0, <1>1, EpochGenerations, Zenon
  <1>3. \A f \in fns : \/ gen[f] \in fresh(c)
                       \/ /\ f \in SnapshotFunctions /\ gen[f] = img.generation[f]
                          /\ img.content = idb.content /\ img.shape[f] = idb.shape[f]
    <2> SUFFICES ASSUME NEW f \in fns
                 PROVE  \/ gen[f] \in fresh(c)
                        \/ /\ f \in SnapshotFunctions /\ gen[f] = img.generation[f]
                           /\ img.content = idb.content /\ img.shape[f] = idb.shape[f]
      OBVIOUS
    <2>1. gen[f] = GenerationOf(f, a.last, c.last)
      OBVIOUS
    <2> HIDE DEF fresh, gen
    <2>2. PICK new : new = fresh(c)
      OBVIOUS
    <2> QED BY <1>0, <1>2, <2>1, <2>2, GenerationIsFreshOrKept
  <1> HIDE DEF gen
  <1>4. DOMAIN gen = fns
    BY DEF gen
  <1>5. /\ img' = [content |-> idb.content, entries |-> InOrder(fns),
                   shape |-> [f \in fns |-> idb.shape[f]], generation |-> gen]
        /\ worker_image' = WorkerCopy(gen)
        /\ function_evidence_identities' =
              [f \in fns |-> [byte_hash |-> idb.shape[f], generation |-> gen[f]]]
        /\ prior_content_hash' = {idb.content}
        /\ provider_function_starts' = fns
    BY <1>1, <1>4 DEF TakeSnapshot, gen
  <1>6. SnapshotFunctions' = fns /\ img'.generation = gen
    BY <1>4, <1>5 DEF SnapshotFunctions
  <1>7. fns \subseteq Functions /\ InOrder(fns) \in Seq(fns)
    <2>1. fns \in SUBSET (1..FunctionCount) /\ FunctionCount \in Nat
      BY SweepAssumption DEF Existing, Functions
    <2> QED BY <2>1, InOrderEnumerates, Zenon DEF Functions
  <1>8. gen \in [fns -> Generations]
    <2>1. \A f \in fns : gen[f] \in Generations
      BY <1>0, <1>3 DEF SnapshotOK
    <2> QED BY <2>1 DEF gen
  <1>9. [f \in fns |-> idb.shape[f]] \in [fns -> 0..2] /\ idb.content \in Versions
    BY <1>0, <1>7 DEF SweepTypes
  <1>10. SnapshotOK'
    BY <1>5, <1>6, <1>7, <1>8, <1>9 DEF SnapshotOK
  <1>11. \A f \in fns :
                \/ img'.generation[f] \in (Generations \ allocator.used) \cap allocator'.used
                \/ /\ f \in SnapshotFunctions /\ img'.generation[f] = img.generation[f]
                   /\ img'.content = img.content /\ img'.shape[f] = img.shape[f]
    BY <1>1, <1>3, <1>5, Zenon
  <1>12. cfg.rax => worker_image' = gen
    BY <1>5 DEF WorkerCopy
  <1>13. Room' >= n
    BY <1>1, <1>2 DEF Room
  <1> QED BY <1>1, <1>2, <1>6, <1>10, <1>11, <1>12, <1>13

(* What is added to the ledger is never a restored observation.           *)
LEMMA ObservationFields ==
    ASSUME NEW producer, NEW f, NEW generation, NEW fingerprint
    PROVE  /\ Observation(producer, f, generation, fingerprint).producer = producer
           /\ Observation(producer, f, generation, fingerprint).function = f
           /\ Observation(producer, f, generation, fingerprint).generation = generation
           /\ Observation(producer, f, generation, fingerprint).fingerprint = fingerprint
           /\ ~Observation(producer, f, generation, fingerprint).restored
  BY DEF Observation

(* The observations of a provider scan.                                   *)
LEMMA ProviderFactFields ==
    ASSUME NEW producer, NEW fns, NEW generation,
           NEW o \in ProviderFacts(producer, fns, generation)
    PROVE  o.producer = producer /\ o.generation = generation /\ ~o.restored
  BY ObservationFields DEF ProviderFacts

(* A cache entry keeps its evidence as the ledger grows.                  *)
LEMMA CacheKeepsEvidence ==
    ASSUME CacheHasEvidence, evidence \subseteq evidence',
           dynamic_cache' = dynamic_cache \/ dynamic_cache' = <<>>
    PROVE  CacheHasEvidence'
  <1>1. CASE dynamic_cache' = dynamic_cache
    BY <1>1 DEF CacheHasEvidence
  <1>2. CASE dynamic_cache' = <<>>
    BY <1>2 DEF CacheHasEvidence
  <1> QED BY <1>1, <1>2

(* begin_epoch: what the generations of the new snapshot stand for.       *)
LEMMA BeginEpochEvidence ==
    ASSUME SweepInv, NEW n \in Nat, Room >= n + 3, BeginEpoch, UNCHANGED <<cfg, idb>>
    PROVE  /\ EvidenceOK'
           /\ \A o \in evidence' : o.generation \in allocator'.used
           /\ \A f \in SnapshotFunctions' : img'.generation[f] \in allocator'.used
           /\ evidence \subseteq evidence'
  <1>0. /\ SweepTypes /\ SnapshotOK /\ AllocatorOK /\ EvidenceOK
    BY DEF SweepInv
  <1>1. /\ SnapshotOK'
        /\ allocator.used \subseteq allocator'.used
        /\ provider_generation' \in (Generations \ allocator.used) \cap allocator'.used
        /\ \A f \in SnapshotFunctions' :
                \/ img'.generation[f] \in (Generations \ allocator.used) \cap allocator'.used
                \/ /\ f \in SnapshotFunctions /\ img'.generation[f] = img.generation[f]
                   /\ img'.content = img.content /\ img'.shape[f] = img.shape[f]
        /\ evidence' = IF cfg.want_native
                       THEN evidence \cup ProviderFacts("native", SnapshotFunctions', provider_generation')
                       ELSE evidence
    BY BeginEpochSnapshot
  <1>2. \A o \in evidence' \ evidence :
           o.producer = "native" /\ o.generation = provider_generation' /\ ~o.restored
    BY <1>1, ProviderFactFields
  <1>3. evidence \subseteq evidence'
    BY <1>1
  <1>4. \A f \in SnapshotFunctions' : img'.generation[f] \in allocator'.used
    BY <1>0, <1>1 DEF AllocatorOK
  <1>5. \A o \in evidence' : o.generation \in allocator'.used
    BY <1>0, <1>1, <1>2 DEF AllocatorOK
  <1>6. ASSUME NEW o \in evidence', o.restored
        PROVE  /\ o.producer \in {"rax", "native"}
               /\ o.generation # provider_generation'
               /\ \A f \in SnapshotFunctions' : o.generation # img'.generation[f]
    <2>1. o \in evidence /\ o.generation \in allocator.used
      BY <1>0, <1>2, <1>6 DEF AllocatorOK
    <2>2. o.producer \in {"rax", "native"} /\ \A f \in SnapshotFunctions : o.generation # img.generation[f]
      BY <1>0, <1>6, <2>1 DEF EvidenceOK
    <2> QED BY <1>1, <2>1, <2>2
  <1>7. ASSUME NEW o \in evidence', o.producer = "rax", o.function \in SnapshotFunctions',
               o.generation = img'.generation[o.function]
        PROVE  o.fingerprint.content = img'.content /\ o.fingerprint.shape = img'.shape[o.function]
    <2>1. o \in evidence /\ o.generation \in allocator.used
      BY <1>0, <1>2, <1>7 DEF AllocatorOK
    <2>2. /\ o.function \in SnapshotFunctions /\ o.generation = img.generation[o.function]
          /\ img'.content = img.content /\ img'.shape[o.function] = img.shape[o.function]
      BY <1>1, <1>7, <2>1
    <2> QED BY <1>0, <1>7, <2>1, <2>2 DEF EvidenceOK
  <1>8. cfg'.want_native => \A f \in SnapshotFunctions' :
          Observation("native", f, provider_generation', NoFingerprint) \in evidence'
    BY <1>1 DEF ProviderFacts
  <1> QED BY <1>3, <1>4, <1>5, <1>6, <1>7, <1>8 DEF EvidenceOK

(* An epoch begins with nothing in flight.                                *)
LEMMA BeginEpochInv ==
    ASSUME SweepInv, NEW n \in Nat, Room >= n + 3, BeginEpoch, UNCHANGED <<cfg, idb>>,
           dynamic_cache' = dynamic_cache \/ dynamic_cache' = <<>>,
           started' \in BOOLEAN, finished' \in BOOLEAN, epoch' \in Nat, pc' \in {"idle", "entry"},
           started' => n >= 3 * (MaxEpochs - epoch' - 1)
    PROVE  SweepInv'
  <1>0. SweepTypes /\ CacheHasEvidence /\ Room' >= n /\ SnapshotOK' /\ EvidenceOK'
    BY BeginEpochSnapshot, BeginEpochEvidence DEF SweepInv
  <1>1. next' = 1 /\ done' = <<>> /\ jobs' = <<>> /\ cfg' = cfg /\ idb' = idb
    BY DEF BeginEpoch
  <1>2. waiting_for_auto' = FALSE
    BY Zenon DEF BeginEpoch
  <1>3. SweepTypes'
    <2>1. waiting_for_auto' \in BOOLEAN
      BY <1>2, Zenon
    <2> QED BY <1>0, <1>1, <2>1 DEF SweepTypes
  <1>4. AllocatorOK'
    <2>1. /\ allocator'.used \subseteq 0..MaxGeneration
          /\ provider_generation' \in Generations
          /\ provider_generation' \in allocator'.used
      BY BeginEpochSnapshot, Zenon
    <2>2. provider_generation' \in 0..MaxGeneration /\ provider_generation' # 0
      BY <2>1, MaxGenerationAssumption DEF Generations
    <2>3. started' => Room' >= 3 * (MaxEpochs - epoch' - 1)
      <3>1. Room' \in Nat
        BY UnusedAreFinite, Zenon DEF Room
      <3>2. 3 * (MaxEpochs - epoch' - 1) \in Int
        BY SweepAssumption
      <3> QED BY <1>0, <3>1, <3>2
    <2> QED BY <1>2, <2>1, <2>2, <2>3, BeginEpochEvidence DEF AllocatorOK
  <1>5. CacheHasEvidence'
    BY <1>0, BeginEpochEvidence, CacheKeepsEvidence
  <1>6. JobsOK'
    BY <1>1 DEF JobsOK
  <1>7. OrderOK'
    <2>1. Len(img'.entries) \in Nat
      BY <1>0 DEF SnapshotOK
    <2>2. cfg'.rax => worker_image' = img'.generation
      BY BeginEpochSnapshot
    <2> QED BY <1>1, <2>1, <2>2 DEF OrderOK
  <1> QED BY <1>0, <1>3, <1>4, <1>5, <1>6, <1>7 DEF SweepInv

-----------------------------------------------------------------------------
(* The other steps *)

(* An edit keeps the database's shape.                                    *)
LEMMA EditedTypes ==
    ASSUME SweepTypes, idb' \in Edited(idb)
    PROVE  idb' \in [content : Versions, shape : [Functions -> 0..2],
                     inputs : [Functions -> Versions]]
  <1>0. idb \in [content : Versions, shape : [Functions -> 0..2],
                 inputs : [Functions -> Versions]]
    BY DEF SweepTypes
  <1>1. ASSUME NEW c \in Versions, idb' = [idb EXCEPT !.content = c]
        PROVE  idb' \in [content : Versions, shape : [Functions -> 0..2],
                         inputs : [Functions -> Versions]]
    BY <1>0, <1>1
  <1>2. ASSUME NEW f \in Functions, NEW s \in 0..2, idb' = [idb EXCEPT !.shape[f] = s]
        PROVE  idb' \in [content : Versions, shape : [Functions -> 0..2],
                         inputs : [Functions -> Versions]]
    BY <1>0, <1>2
  <1>3. ASSUME NEW f \in Functions, idb' = [idb EXCEPT !.inputs[f] = 1 - @]
        PROVE  idb' \in [content : Versions, shape : [Functions -> 0..2],
                         inputs : [Functions -> Versions]]
    <2>1. 1 - idb.inputs[f] \in Versions
      BY <1>0 DEF Versions
    <2> QED BY <1>0, <1>3, <2>1
  <1>4. \/ \E c \in Versions : idb' = [idb EXCEPT !.content = c]
        \/ \E f \in Functions, s \in 0..2 : idb' = [idb EXCEPT !.shape[f] = s]
        \/ \E f \in Functions : idb' = [idb EXCEPT !.inputs[f] = 1 - @]
    <2> DEFINE contents == {[idb EXCEPT !.content = c] : c \in Versions \ {idb.content}}
               shapes(f) == {[idb EXCEPT !.shape[f] = s] : s \in (0..2) \ {idb.shape[f]}}
               inputs == {[idb EXCEPT !.inputs[f] = 1 - @] : f \in Functions}
    <2>1. \/ idb' \in contents \/ idb' \in inputs
          \/ idb' \in UNION {shapes(f) : f \in Functions}
      BY DEF Edited
    <2>2. CASE idb' \in contents
      BY <2>2
    <2>3. CASE idb' \in UNION {shapes(f) : f \in Functions}
      <3> HIDE DEF shapes
      <3>1. PICK f \in Functions : idb' \in shapes(f)
        BY <2>3
      <3>2. \E s \in 0..2 : idb' = [idb EXCEPT !.shape[f] = s]
        BY <3>1 DEF shapes
      <3> QED BY <3>2, Zenon
    <2>4. CASE idb' \in inputs
      BY <2>4
    <2> HIDE DEF contents, shapes, inputs
    <2> QED BY <2>1, <2>2, <2>3, <2>4, Zenon
  <1> QED BY <1>1, <1>2, <1>3, <1>4

(* The consumers of the plugin may edit the database.                     *)
LEMMA MayMutateTypes ==
    ASSUME SweepTypes, MayMutate
    PROVE  idb' \in [content : Versions, shape : [Functions -> 0..2],
                     inputs : [Functions -> Versions]]
  <1>1. idb' = idb \/ idb' \in Edited(idb)
    BY Zenon DEF MayMutate, database
  <1> QED BY <1>1, EditedTypes DEF SweepTypes

(* The ledger grows by observations of the current snapshot.              *)
LEMMA LedgerGrows ==
    ASSUME SweepInv, UNCHANGED <<cfg, img, lifecycle>>,
           NEW new, evidence' = evidence \cup new,
           \A o \in new :
               /\ ~o.restored /\ o.generation \in allocator.used
               /\ o.producer = "rax" => /\ o.fingerprint.content = img.content
                                        /\ o.fingerprint.shape = img.shape[o.function]
    PROVE  /\ EvidenceOK'
           /\ \A o \in evidence' : o.generation \in allocator'.used
  <1>0. AllocatorOK /\ EvidenceOK
    BY DEF SweepInv
  <1>1. /\ UNCHANGED <<cfg, img, allocator, provider_generation, SnapshotFunctions>>
    BY DEF lifecycle, SnapshotFunctions
  <1>2. \A o \in evidence' : o.generation \in allocator'.used
    BY <1>0, <1>1 DEF AllocatorOK
  <1>3. ASSUME NEW o \in evidence', o.restored
        PROVE  /\ o.producer \in {"rax", "native"}
               /\ provider_generation # 0 => o.generation # provider_generation
               /\ \A f \in SnapshotFunctions : o.generation # img.generation[f]
    <2>1. o \in evidence
      BY <1>3
    <2> QED BY <1>0, <1>3, <2>1 DEF EvidenceOK
  <1>4. ASSUME NEW o \in evidence', o.producer = "rax", o.function \in SnapshotFunctions,
               o.generation = img.generation[o.function]
        PROVE  o.fingerprint.content = img.content /\ o.fingerprint.shape = img.shape[o.function]
    <2>1. CASE o \in evidence
      BY <1>0, <1>4, <2>1 DEF EvidenceOK
    <2>2. CASE o \in new
      BY <1>4, <2>2
    <2> QED BY <2>1, <2>2
  <1>5. cfg.want_native => \A f \in SnapshotFunctions :
          Observation("native", f, provider_generation, NoFingerprint) \in evidence'
    BY <1>0 DEF EvidenceOK
  <1> QED BY <1>1, <1>2, <1>3, <1>4, <1>5 DEF EvidenceOK

(* Steps that leave the snapshot and the generations alone.               *)
LEMMA StableSnapshot ==
    ASSUME SweepInv, UNCHANGED <<cfg, img, lifecycle, started, epoch>>,
           EvidenceOK', \A o \in evidence' : o.generation \in allocator'.used,
           evidence \subseteq evidence',
           waiting_for_auto' => epoch + 1 < MaxEpochs,
           deobf_pending' => deobf_pending,
           dynamic_cache' = dynamic_cache \/ CacheHasEvidence',
           SweepTypes', JobsOK', OrderOK'
    PROVE  SweepInv'
  <1>0. SnapshotOK /\ AllocatorOK /\ CacheHasEvidence
    BY DEF SweepInv
  <1>1. /\ UNCHANGED <<cfg, img, allocator, provider_generation, SnapshotFunctions, Room,
                       function_evidence_identities, prior_content_hash,
                       provider_function_starts, started, epoch>>
    BY DEF lifecycle, SnapshotFunctions, Room
  <1>2. SnapshotOK'
    BY <1>0, <1>1 DEF SnapshotOK
  <1>3. AllocatorOK'
    BY <1>0, <1>1 DEF AllocatorOK
  <1>4. CacheHasEvidence'
    BY <1>0, CacheKeepsEvidence
  <1> QED BY <1>2, <1>3, <1>4 DEF SweepInv

(* Steps that only move pc, or edit the database between two ticks.       *)
LEMMA QuietSweepSteps ==
    ASSUME SweepInv, UNCHANGED cfg,
           \/ DatabaseEdit \/ AutoAnalysisEnds \/ TickBatch \/ EndLoop \/ UNCHANGED vars
    PROVE  SweepInv'
  <1>0. SweepTypes /\ SnapshotOK /\ AllocatorOK /\ EvidenceOK /\ JobsOK /\ OrderOK
    BY DEF SweepInv
  <1>1. UNCHANGED <<img, lifecycle, started, finished, waiting_for_auto, epoch, evidence,
                    deobf_pending, dynamic_cache, jobs, next, done, worker_image>>
    BY Zenon DEF DatabaseEdit, AutoAnalysisEnds, TickBatch, EndLoop, vars, control, deobf
  <1>2. /\ evidence' = evidence \cup {}
        /\ EvidenceOK' /\ \A o \in evidence' : o.generation \in allocator'.used
    <2>0. PICK new : new = {}
      BY Zenon
    <2>1. evidence' = evidence \cup new
      BY <1>1, <2>0
    <2>2. EvidenceOK' /\ \A o \in evidence' : o.generation \in allocator'.used
      BY <1>1, <2>0, <2>1, LedgerGrows
    <2> QED BY <2>0, <2>1, <2>2
  <1>3. idb' \in [content : Versions, shape : [Functions -> 0..2],
                  inputs : [Functions -> Versions]]
    <2>1. idb' = idb \/ idb' \in Edited(idb)
      BY Zenon DEF DatabaseEdit, AutoAnalysisEnds, TickBatch, EndLoop, vars, database
    <2> QED BY <1>0, <2>1, EditedTypes DEF SweepTypes
  <1>4. \/ pc' = pc
        \/ /\ AtBatch
           /\ pc' = IF cfg.rax /\ img.entries # <<>> THEN "take" ELSE "nopool"
        \/ pc = "take" /\ pc' = "submit"
        \/ pc = "submit" /\ pc' = "drain"
        \/ pc = "drain" /\ pc' = IF WorkLeft THEN "idle" ELSE "apply"
        \/ pc = "nopool" /\ pc' = IF next <= Len(img.entries) THEN "idle" ELSE "apply"
    BY Zenon DEF DatabaseEdit, AutoAnalysisEnds, TickBatch, EndLoop, vars
  <1>5. SweepTypes'
    BY <1>0, <1>1, <1>3, <1>4, SMTT(30) DEF SweepTypes
  <1>6. JobsOK'
    BY <1>0, <1>1 DEF JobsOK, HasEvidence
  <1>7. OrderOK'
    <2>0. Len(img.entries) \in Nat /\ next \in Nat
      BY <1>0 DEF SnapshotOK, SweepTypes
    <2>1. CASE pc' = pc
      BY <1>0, <1>1, <2>1 DEF OrderOK, AtBatch, TimerRunning
    <2>2. CASE AtBatch /\ pc' = IF cfg.rax /\ img.entries # <<>> THEN "take" ELSE "nopool"
      BY <1>0, <1>1, <2>2 DEF OrderOK, AtBatch, JobsOK
    <2>3. CASE (pc = "take" /\ pc' = "submit") \/ (pc = "submit" /\ pc' = "drain")
      BY <1>0, <1>1, <2>3 DEF OrderOK, AtBatch
    <2>4. CASE pc = "drain" /\ pc' = IF WorkLeft THEN "idle" ELSE "apply"
      BY <1>0, <1>1, <2>0, <2>4 DEF OrderOK, AtBatch, TimerRunning, WorkLeft
    <2>5. CASE pc = "nopool" /\ pc' = IF next <= Len(img.entries) THEN "idle" ELSE "apply"
      <3>1. CASE next <= Len(img.entries)
        BY <1>0, <1>1, <2>5, <3>1 DEF OrderOK, AtBatch, TimerRunning, JobsOK
      <3>2. CASE ~(next <= Len(img.entries))
        BY <1>0, <1>1, <2>0, <2>5, <3>2 DEF OrderOK, AtBatch
      <3> QED BY <3>1, <3>2
    <2> QED BY <1>4, <2>1, <2>2, <2>3, <2>4, <2>5
  <1> QED BY <1>0, <1>1, <1>2, <1>5, <1>6, <1>7, StableSnapshot DEF AllocatorOK

(* on_analysis_done: the first epoch of a sweep.                          *)
LEMMA OnAnalysisDoneSweep ==
    ASSUME SweepInv, UNCHANGED cfg, OnAnalysisDone
    PROVE  SweepInv'
  <1>0. MaxEpochs \in Nat /\ MaxEpochs >= 1
    BY SweepAssumption
  <1>1. PICK n \in Nat : n = 3 * (MaxEpochs - 1)
    BY <1>0
  <1>2. Room >= n + 3
    BY <1>0, <1>1 DEF OnAnalysisDone, GenerationRoom, Room
  <1>3. BeginEpochFails \in BOOLEAN
    BY DEF BeginEpochFails
  <1>4. started' \in BOOLEAN /\ finished' \in BOOLEAN
    BY <1>3, Zenon DEF OnAnalysisDone
  <1>5. /\ BeginEpoch /\ UNCHANGED <<cfg, idb>> /\ dynamic_cache' = <<>>
        /\ epoch' = 0 /\ epoch' \in Nat /\ pc' = "idle"
    BY DEF OnAnalysisDone, database
  <1>6. n >= 3 * (MaxEpochs - epoch' - 1)
    BY <1>0, <1>1, <1>5
  <1> QED BY <1>2, <1>4, <1>5, <1>6, BeginEpochInv

(* A tick that begins the next epoch.                                     *)
LEMMA TickNextEpochSweep ==
    ASSUME SweepInv, UNCHANGED cfg, TickNextEpoch
    PROVE  SweepInv'
  <1>0. SweepTypes /\ AllocatorOK
    BY DEF SweepInv
  <1>1. /\ MaxEpochs \in Nat /\ epoch \in Nat /\ epoch + 1 < MaxEpochs
        /\ Room >= 3 * (MaxEpochs - epoch - 1)
    BY <1>0, SweepAssumption DEF SweepTypes, AllocatorOK, TickNextEpoch, TimerRunning
  <1>2. PICK n \in Nat : n = 3 * (MaxEpochs - epoch - 2)
    BY <1>1
  <1>3. Room \in Nat
    BY UnusedAreFinite DEF Room
  <1>4. Room >= n + 3
    BY <1>1, <1>2, <1>3
  <1>5. BeginEpochFails \in BOOLEAN
    BY DEF BeginEpochFails
  <1>6. finished' \in BOOLEAN
    BY <1>5, Zenon DEF TickNextEpoch
  <1>7. started' \in BOOLEAN
    BY <1>0 DEF TickNextEpoch, SweepTypes
  <1>8. /\ BeginEpoch /\ UNCHANGED <<cfg, idb>> /\ dynamic_cache' = dynamic_cache
        /\ epoch' = epoch + 1 /\ pc' \in {"idle", "entry"}
    BY DEF TickNextEpoch, database
  <1>9. epoch' \in Nat /\ n >= 3 * (MaxEpochs - epoch' - 1)
    BY <1>1, <1>2, <1>8
  <1> QED BY <1>4, <1>6, <1>7, <1>8, <1>9, BeginEpochInv

(* process_deobf_batch: what it finds is recorded at the provider         *)
(* generation, which the restored history does not have.                  *)
LEMMA TickDeobfSweep ==
    ASSUME SweepInv, UNCHANGED cfg, TickDeobf
    PROVE  SweepInv'
  <1>0. SweepTypes /\ SnapshotOK /\ AllocatorOK /\ EvidenceOK /\ JobsOK /\ OrderOK
    BY DEF SweepInv
  <1>1. /\ UNCHANGED <<idb, img, lifecycle, started, finished, waiting_for_auto, epoch,
                       dynamic_cache, jobs, next, done, worker_image>>
        /\ pc' = "idle" /\ AtBatch /\ deobf_pending
    BY DEF TickDeobf, control, database
  <1>2. PICK fns : evidence' = evidence \cup
                     ProviderFacts("deobf", fns, provider_generation)
    BY Zenon DEF TickDeobf
  <1>3. PICK new : new = ProviderFacts("deobf", fns, provider_generation)
    OBVIOUS
  <1>4. \A o \in new : /\ ~o.restored /\ o.generation \in allocator.used
                       /\ o.producer = "deobf"
    <2>1. provider_generation \in allocator.used
      BY <1>0, <1>1, SMTT(30) DEF AllocatorOK
    <2>2. \A o \in new : /\ ~o.restored /\ o.generation = provider_generation
                         /\ o.producer = "deobf"
      BY <1>3, SMTT(30) DEF ProviderFacts, Observation
    <2> QED BY <2>1, <2>2, SMTT(30)
  <1>5. evidence' = evidence \cup new
    BY <1>2, <1>3
  <1>6. EvidenceOK' /\ \A o \in evidence' : o.generation \in allocator'.used
    BY <1>1, <1>4, <1>5, LedgerGrows
  <1>7. SweepTypes'
    BY <1>0, <1>1, SMTT(30) DEF SweepTypes
  <1>8. JobsOK'
    BY <1>0, <1>1, <1>5 DEF JobsOK, HasEvidence
  <1>9. OrderOK'
    BY <1>0, <1>1, Zenon DEF OrderOK, AtBatch, TimerRunning
  <1> QED BY <1>0, <1>1, <1>5, <1>6, <1>7, <1>8, <1>9, StableSnapshot DEF AllocatorOK

=============================================================================
