------------------------------ MODULE ViySweep ------------------------------
(***************************************************************************)
(* The per-database sweep of viy.cpp: the main-thread state machine that   *)
(* snapshots the IDB, gives every function an evidence generation, submits *)
(* emulation jobs to the worker pool, applies results in ticket order,     *)
(* applies and persists the evidence at the end of an epoch, and repeats   *)
(* until the database no longer changes.                                   *)
(*                                                                         *)
(* Functions are 1..FunctionCount in address order.  The database is       *)
(* abstracted to what the identities read: the image content, the shape of *)
(* each function (0 when it does not exist) and the entry inputs that its  *)
(* call sites give it.  The pool is what OrderedJobService promises: the   *)
(* accepted jobs in ticket order, each pending or settled.  A loop of      *)
(* process_batch may stop after any iteration, which covers every value of *)
(* funcs_per_tick and of the 8 ms deadline.  The headless inline mode runs *)
(* the same ticks back to back.                                            *)
(***************************************************************************)
EXTENDS EvidenceLifecycle, Sequences

CONSTANTS
    FunctionCount,
    WorkerCount,      \* requested workers; queue_capacity is twice as much
    MaxEpochs,        \* cfg.max_epochs
    Configurations,   \* the configurations to start with; rax: it is loaded
    Restored,         \* sets of generations a restored history may hold
    EditBound         \* model bound on the changes made to the database

ASSUME SweepAssumption ==
    /\ {FunctionCount, WorkerCount, MaxEpochs} \subseteq Nat \ {0}
    /\ Configurations \subseteq
          [rax : BOOLEAN, want_static : BOOLEAN, want_native : BOOLEAN,
           want_deobf : BOOLEAN]
    /\ Restored \subseteq SUBSET (0..MaxGeneration)
    /\ EditBound \in Nat

Functions == 1..FunctionCount
Shapes == 1..2
Versions == 0..1
(* viy_emulation_job_fingerprint, as what distinguishes two jobs.         *)
Fingerprints == [content : Versions, shape : Shapes, inputs : Versions]
NoFingerprint == [content |-> 0, shape |-> 1, inputs |-> 0]
Outcomes == {"COMPLETED", "FAILED", "UNAVAILABLE"}

VARIABLES
    cfg,          \* the configuration
    idb,          \* the live database: content, shape, inputs
    auto_ok,      \* auto_is_ok()
    edits,        \* changes made to the database so far (bound)
    started, finished, waiting_for_auto, epoch,
    pc,           \* where process_batch is; "idle" between timer ticks
    img,          \* the snapshot: content, entries, shape, generation
    worker_image, \* generations in the copy the workers hold; <<>> without
    jobs,         \* worker_jobs and the pool: accepted jobs, ticket order
    next,         \* index of the next entry to submit
    done,         \* history: entry indices processed in this epoch
    deobf_functions, deobf_pending,
    dynamic_cache, function_evidence_identities, prior_content_hash,
    provider_generation, provider_function_starts,
    allocator,    \* generation_allocator
    evidence,     \* the ledger
    changed       \* change_count() > epoch_change_base

database == <<idb, auto_ok, edits>>
lifecycle == <<function_evidence_identities, prior_content_hash,
               provider_generation, provider_function_starts, allocator>>
control == <<started, finished, waiting_for_auto, epoch>>
deobf == <<deobf_functions, deobf_pending>>
vars == <<cfg, database, control, pc, img, worker_image, jobs, next, done, deobf,
          dynamic_cache, lifecycle, evidence, changed>>

(* Observations; fingerprint is the job's for "rax", restored says that   *)
(* it came with the ledger of an earlier session.                         *)
Observation(producer, f, generation, fingerprint) ==
    [producer |-> producer, function |-> f, generation |-> generation,
     fingerprint |-> fingerprint, restored |-> FALSE]

RestoredHistory(generations) ==
    {[producer |-> p, function |-> f, generation |-> g,
      fingerprint |-> NoFingerprint, restored |-> TRUE] :
        p \in {"rax", "native"}, f \in Functions, g \in generations}

Existing(db) == {f \in Functions : db.shape[f] # 0}
InOrder(S) ==
    CHOOSE s \in [1..Cardinality(S) -> S] :
        \A i, j \in DOMAIN s : i < j => s[i] < s[j]

(* viy_t::viy_t after restore(Replace) *)
Init ==
    /\ cfg \in Configurations
    /\ idb \in [content : {0}, shape : [Functions -> 0..1],
                inputs : {[f \in Functions |-> 0]}]
    /\ auto_ok \in BOOLEAN
    /\ edits = 0
    /\ started = FALSE
    /\ finished = FALSE
    /\ waiting_for_auto = FALSE
    /\ epoch = 0
    /\ pc = "idle"
    /\ img = [content |-> 0, entries |-> <<>>, shape |-> <<>>,
              generation |-> <<>>]
    /\ worker_image = <<>>
    /\ jobs = <<>>
    /\ next = 1
    /\ done = <<>>
    /\ deobf_functions = <<>>
    /\ deobf_pending = FALSE
    /\ dynamic_cache = <<>>
    /\ function_evidence_identities = <<>>
    /\ prior_content_hash = {}
    /\ provider_generation = 0
    /\ provider_function_starts = {}
    /\ \E generations \in Restored : evidence = RestoredHistory(generations)
    /\ allocator = Seed({o.generation : o \in evidence})
    /\ changed = FALSE

-----------------------------------------------------------------------------
(* The database.  One edit changes the content, one function's shape      *)
(* (creating or deleting it included) or one function's entry inputs.     *)
Edited(db) ==
    {[db EXCEPT !.content = c] : c \in Versions \ {db.content}}
      \cup (UNION {{[db EXCEPT !.shape[f] = s] : s \in (0..2) \ {db.shape[f]}}
                     : f \in Functions})
      \cup {[db EXCEPT !.inputs[f] = 1 - @] : f \in Functions}

(* A consumer of the plugin may mutate the database, which counts as a    *)
(* change and may queue autoanalysis.                                     *)
MayMutate ==
    \/ UNCHANGED <<database, changed>>
    \/ /\ edits < EditBound
       /\ edits' = edits + 1
       /\ idb' \in Edited(idb)
       /\ auto_ok' \in {auto_ok, FALSE}
       /\ changed' = TRUE

(* The user, or autoanalysis while it is active, between two ticks.       *)
DatabaseEdit ==
    /\ pc = "idle"
    /\ edits < EditBound
    /\ edits' = edits + 1
    /\ idb' \in Edited(idb)
    /\ auto_ok' \in {auto_ok, FALSE}
    /\ UNCHANGED <<control, pc, img, worker_image, jobs, next, done, deobf,
                   dynamic_cache, lifecycle, evidence, changed>>

AutoAnalysisEnds ==
    /\ pc = "idle"
    /\ ~auto_ok
    /\ auto_ok' = TRUE
    /\ UNCHANGED <<idb, edits, control, pc, img, worker_image, jobs, next,
                   done, deobf, dynamic_cache, lifecycle, evidence, changed>>

-----------------------------------------------------------------------------
(* begin_epoch *)

(* build_emulation_job + viy_emulation_job_fingerprint: the snapshot's    *)
(* content and shape, but the entry inputs of the live database.          *)
Fingerprint(content, shape, f) ==
    [content |-> content, shape |-> shape[f], inputs |-> idb.inputs[f]]

CacheHit(f, fingerprint) ==
    f \in DOMAIN dynamic_cache /\ dynamic_cache[f] = fingerprint

(* Mutant: only the bytes of the function itself are compared.            *)
UnchangedBytes(f) ==
    /\ f \in DOMAIN function_evidence_identities
    /\ function_evidence_identities[f].byte_hash = idb.shape[f]

(* assign_function_generations *)
Unchanged(f) ==
    /\ prior_content_hash = {idb.content}
    /\ f \in DOMAIN function_evidence_identities
    /\ function_evidence_identities[f].byte_hash = idb.shape[f]

(* The functions that share the fresh generation of                       *)
(* assign_function_generations and of assign_emulation_generations.       *)
ChangedFunctions == {f \in Existing(idb) : ~Unchanged(f)}
UncachedFunctions ==
    IF cfg.rax
    THEN {f \in Existing(idb) :
            ~CacheHit(f, Fingerprint(idb.content, idb.shape, f))}
    ELSE {}

AllocateIf(condition, a) == IF condition THEN Allocate(a) ELSE a

(* The generation function f gets, given the generation fresh for changed *)
(* functions and the one fresh for jobs without a cache entry.            *)
GenerationOf(f, forFunctions, forJobs) ==
    IF f \in UncachedFunctions THEN forJobs
    ELSE IF f \in ChangedFunctions THEN forFunctions
    ELSE function_evidence_identities[f].generation

BeginEpochFails ==
    \/ ~cfg.rax /\ ~cfg.want_native /\ ~cfg.want_deobf
    \/ ~cfg.want_native /\ Existing(idb) = {}

(* The provider scan re-emits its facts at the provider generation.       *)
ProviderFacts(producer, fns, generation) ==
    {Observation(producer, f, generation, NoFingerprint) : f \in fns}

(* worker_image; without rax there are no workers.                        *)
WorkerCopy(generation) == IF cfg.rax THEN generation ELSE <<>>

(* The snapshot taken, with these generations, and the copies of it that  *)
(* the workers and the lifecycle keep.                                    *)
TakeSnapshot(generation) ==
    LET fns == DOMAIN generation IN
    /\ img' = [content |-> idb.content, entries |-> InOrder(fns),
               shape |-> [f \in fns |-> idb.shape[f]],
               generation |-> generation]
    /\ worker_image' = WorkerCopy(generation)
    /\ function_evidence_identities' =
          [f \in fns |-> [byte_hash |-> idb.shape[f],
                          generation |-> generation[f]]]
    /\ prior_content_hash' = {idb.content}
    /\ provider_function_starts' = fns

(* begin_epoch: a generation for changed functions, one for the providers *)
(* and one for jobs without a cache entry, in this order.  When it        *)
(* returns false all this has been done just the same.                    *)
BeginEpoch ==
    LET fns == Existing(idb) IN
    /\ \E a \in {AllocateIf(ChangedFunctions # {}, allocator)} :
       \E b \in {Allocate(a)} :
       \E c \in {AllocateIf(UncachedFunctions # {}, b)} :
         /\ TakeSnapshot([f \in fns |-> GenerationOf(f, a.last, c.last)])
         /\ provider_generation' = b.last
         /\ allocator' = c
         /\ evidence' = IF cfg.want_native
                        THEN evidence \cup ProviderFacts("native", fns, b.last)
                        ELSE evidence
    /\ deobf_pending' = (cfg.want_deobf /\ ~BeginEpochFails)
    /\ deobf_functions' = IF cfg.want_deobf /\ ~BeginEpochFails
                          THEN InOrder(fns) ELSE <<>>
    /\ next' = 1
    /\ done' = <<>>
    /\ jobs' = <<>>
    /\ waiting_for_auto' = FALSE
    /\ changed' = FALSE

(* Model bound: generations enough for a whole sweep are still unused.    *)
GenerationRoom ==
    Cardinality(Generations \ allocator.used) >= 3 * MaxEpochs

(* on_analysis_done, from the auto_empty_finally event, the constructor   *)
(* or run(): the sweep starts once; a first epoch that cannot begin       *)
(* leaves it unstarted.                                                   *)
OnAnalysisDone ==
    /\ pc = "idle"
    /\ auto_ok
    /\ ~started
    /\ GenerationRoom
    /\ BeginEpoch
    /\ dynamic_cache' = <<>>
    /\ started' = ~BeginEpochFails
    /\ epoch' = 0
    /\ finished' = FALSE
    /\ UNCHANGED <<database, pc>>

-----------------------------------------------------------------------------
(* viy_sweep_cb -> process_batch *)

TimerRunning == started /\ ~finished

(* process_batch past its wait for autoanalysis: at a tick that does not  *)
(* wait, or right after it has begun an epoch.                            *)
AtBatch == pc = "entry" \/ (pc = "idle" /\ TimerRunning /\ ~waiting_for_auto)

(* A tick.  While autoanalysis is active a tick that waits for it, or     *)
(* that has deobfuscation left to do, returns at once: not a step here.   *)
TickBatch ==
    /\ AtBatch
    /\ ~deobf_pending
    /\ pc' = IF cfg.rax /\ img.entries # <<>> THEN "take" ELSE "nopool"
    /\ UNCHANGED <<database, control, img, worker_image, jobs, next, done,
                   deobf, dynamic_cache, lifecycle, evidence, changed>>

(* The next epoch begins, or the sweep finishes because it cannot.        *)
TickNextEpoch ==
    /\ pc = "idle" /\ TimerRunning
    /\ waiting_for_auto
    /\ auto_ok
    /\ epoch' = epoch + 1
    /\ BeginEpoch
    /\ finished' = BeginEpochFails
    /\ pc' = IF BeginEpochFails THEN "idle" ELSE "entry"
    /\ UNCHANGED <<database, started, dynamic_cache>>

(* Mutant: the phase is never marked as done.                             *)
DeobfNeverDone(remaining) == TRUE

DeobfPending(remaining) == remaining # <<>>

(* process_deobf_batch: at least one whole function if any is left; one   *)
(* that no longer exists is skipped.                                      *)
TickDeobf ==
    /\ AtBatch
    /\ deobf_pending
    /\ auto_ok
    /\ \E n \in 0..Len(deobf_functions) :
         /\ n = 0 => deobf_functions = <<>>
         /\ LET batch == {deobf_functions[i] : i \in 1..n} IN
            evidence' = evidence \cup
                ProviderFacts("deobf", batch \cap Existing(idb),
                              provider_generation)
         /\ deobf_functions' = SubSeq(deobf_functions, n + 1,
                                      Len(deobf_functions))
    /\ deobf_pending' = DeobfPending(deobf_functions')
    /\ pc' = "idle"
    /\ UNCHANGED <<database, control, img, worker_image, jobs, next, done,
                   dynamic_cache, lifecycle, changed>>

(* A worker settles a pending job.  The executor refuses a job whose      *)
(* function does not match its snapshot; a job that fails may carry the   *)
(* evidence of the runs it finished.                                      *)
WorkerSettles ==
    /\ \E i \in DOMAIN jobs :
         /\ jobs[i].outcome = "pending"
         /\ \E outcome \in Outcomes, ran \in BOOLEAN :
              /\ worker_image[jobs[i].function] # jobs[i].generation =>
                    outcome = "FAILED" /\ ~ran
              /\ outcome = "COMPLETED" => ran
              /\ outcome = "UNAVAILABLE" => ~ran
              /\ jobs' = [jobs EXCEPT ![i].outcome = outcome,
                                      ![i].ran = ran /\ ~jobs[i].hit]
    /\ UNCHANGED <<database, control, pc, img, worker_image, next, done,
                   deobf, dynamic_cache, lifecycle, evidence, changed>>

(* process_function: record the dynamic evidence, let the consumers       *)
(* mutate the database, record what is left of the decoder audit when the *)
(* entries that the database no longer confirms are discarded.            *)
ProcessFunction(index, dynamic) ==
    LET f == img.entries[index]
        audit == {Observation("static", f, img.generation[f], NoFingerprint)}
    IN
    /\ \E kept \in SUBSET audit :
         /\ kept # {} => cfg.rax /\ cfg.want_static
         /\ evidence' = evidence \cup dynamic \cup kept
    /\ done' = Append(done, index)
    /\ MayMutate

(* Mutant: a failed job is cached too.                                    *)
AlwaysCacheable(job) == TRUE

(* The result populates dynamic_cache.                                    *)
Cacheable(job) == job.outcome = "COMPLETED"

(* apply_one on the oldest settled result.                                *)
ApplyOne ==
    /\ pc \in {"take", "drain"}
    /\ jobs # <<>>
    /\ LET job == Head(jobs) IN
         /\ job.outcome # "pending"
         /\ dynamic_cache' =
               IF Cacheable(job)
               THEN [f \in DOMAIN dynamic_cache \cup {job.function} |->
                       IF f = job.function THEN job.fingerprint
                       ELSE dynamic_cache[f]]
               ELSE dynamic_cache
         /\ ProcessFunction(job.index,
               IF job.ran
               THEN {Observation("rax", job.function, job.generation,
                                 job.fingerprint)}
               ELSE {})
    /\ jobs' = Tail(jobs)
    /\ UNCHANGED <<control, pc, img, worker_image, next, deobf, lifecycle>>

(* The submit loop: a job is rebuilt from the live database when it is    *)
(* submitted; a cache hit keeps no runs.                                  *)
SubmitNext ==
    /\ pc = "submit"
    /\ next <= Len(img.entries)
    /\ Len(jobs) < WorkerCount * 3
    /\ LET f == img.entries[next]
           fingerprint == Fingerprint(img.content, img.shape, f)
       IN jobs' = Append(jobs, [index |-> next, function |-> f,
                                generation |-> img.generation[f],
                                fingerprint |-> fingerprint,
                                hit |-> CacheHit(f, fingerprint),
                                outcome |-> "pending", ran |-> FALSE])
    /\ next' = next + 1
    /\ UNCHANGED <<database, control, pc, img, worker_image, done, deobf,
                   dynamic_cache, lifecycle, evidence, changed>>

(* Mutant: jobs in flight do not keep the epoch open.                     *)
EntriesLeft == next <= Len(img.entries)

(* The epoch goes on at the next tick.                                    *)
WorkLeft == next <= Len(img.entries) \/ jobs # <<>>

(* A loop ends: nothing to do, try_submit refused, or budget or time is   *)
(* used up.                                                               *)
EndLoop ==
    /\ \/ pc = "take" /\ pc' = "submit"
       \/ pc = "submit" /\ pc' = "drain"
       \/ /\ pc = "drain"
          /\ pc' = IF WorkLeft THEN "idle" ELSE "apply"
       \/ /\ pc = "nopool"
          /\ pc' = IF next <= Len(img.entries) THEN "idle" ELSE "apply"
    /\ UNCHANGED <<database, control, img, worker_image, jobs, next, done,
                   deobf, dynamic_cache, lifecycle, evidence, changed>>

(* Mutant: an entry is stepped over.                                      *)
ProcessWithoutWorkerSkips ==
    /\ pc = "nopool"
    /\ next <= Len(img.entries)
    /\ ProcessFunction(next, {})
    /\ next' = next + 2
    /\ UNCHANGED <<control, pc, img, worker_image, jobs, deobf, dynamic_cache,
                   lifecycle>>

(* Native/static-only mode: no pool.                                      *)
ProcessWithoutWorker ==
    /\ pc = "nopool"
    /\ next <= Len(img.entries)
    /\ ProcessFunction(next, {})
    /\ next' = next + 1
    /\ UNCHANGED <<control, pc, img, worker_image, jobs, deobf, dynamic_cache,
                   lifecycle>>

ActiveEvidence ==
    View(evidence, provider_generation, provider_function_starts,
         [f \in DOMAIN function_evidence_identities |->
            function_evidence_identities[f].generation])

(* The end of process_batch: stop_workers, apply the active evidence,     *)
(* publish, persist, and decide whether another epoch follows.            *)
FinishEpoch ==
    /\ pc = "apply"
    /\ worker_image' = <<>>
    /\ jobs' = <<>>
    /\ IF ActiveEvidence # {} THEN MayMutate ELSE UNCHANGED <<database, changed>>
    /\ IF changed' /\ epoch + 1 < MaxEpochs
       THEN waiting_for_auto' = TRUE /\ UNCHANGED finished
       ELSE finished' = TRUE /\ UNCHANGED waiting_for_auto
    /\ pc' = "idle"
    /\ UNCHANGED <<started, epoch, img, next, done, deobf, dynamic_cache,
                   lifecycle, evidence>>

(* ~viy_t *)
Unload ==
    /\ pc = "idle"
    /\ pc' = "unloaded"
    /\ worker_image' = <<>>
    /\ jobs' = <<>>
    /\ UNCHANGED <<database, control, img, next, done, deobf, dynamic_cache,
                   lifecycle, evidence, changed>>

Next ==
    /\ \/ DatabaseEdit \/ AutoAnalysisEnds
       \/ OnAnalysisDone
       \/ TickBatch \/ TickNextEpoch \/ TickDeobf
       \/ WorkerSettles
       \/ ApplyOne \/ SubmitNext \/ EndLoop \/ ProcessWithoutWorker
       \/ FinishEpoch
       \/ Unload
    /\ UNCHANGED cfg

Spec == Init /\ [][Next]_vars

(* The timer fires, and a tick runs to its end.                           *)
TickStep ==
    /\ TickBatch \/ TickNextEpoch \/ TickDeobf \/ EndLoop \/ FinishEpoch
    /\ UNCHANGED cfg
(* An iteration of one of the loops of process_batch.                     *)
LoopStep == (ApplyOne \/ SubmitNext \/ ProcessWithoutWorker) /\ UNCHANGED cfg

(* IDA finishes autoanalysis and keeps firing the timer, the pool settles *)
(* every job, and a tick whose loops have work does some of it: the       *)
(* budget is at least one and the deadline lies 8 ms after its start.     *)
FairSpec ==
    /\ Spec
    /\ WF_vars(AutoAnalysisEnds /\ UNCHANGED cfg)
    /\ WF_vars(TickStep)
    /\ WF_vars(WorkerSettles /\ UNCHANGED cfg)
    /\ SF_vars(LoopStep)

-----------------------------------------------------------------------------
(* Properties *)

(* Every entry of the snapshot is processed once per epoch, in snapshot   *)
(* order, by the result of its own job; no job is refused by the          *)
(* executor's snapshot check, since the copy the workers hold carries the *)
(* generations the jobs carry; and when the evidence is applied none is   *)
(* left out, in flight or unprocessed.                                    *)
PipelineInOrder ==
    pc # "unloaded" =>
        /\ done \o [i \in DOMAIN jobs |-> jobs[i].index]
              = [i \in 1..(next - 1) |-> i]
        /\ \A i \in DOMAIN jobs :
              /\ jobs[i].function = img.entries[jobs[i].index]
              /\ worker_image[jobs[i].function] = jobs[i].generation
        /\ pc = "apply" => done = [i \in DOMAIN img.entries |-> i]

(* Nothing restored from an earlier session is ever active: generations   *)
(* handed out now, through skips and the wrap at the maximum, are new and *)
(* within the counter.                                                    *)
RestoredHasNoAuthority ==
    /\ provider_generation <= MaxGeneration
    /\ \A o \in ActiveEvidence : ~o.restored

(* Evidence that is applied is that of the current snapshot: dynamic       *)
(* evidence was produced from its content and its function bytes, and the  *)
(* scan a complete provider made at the start of the epoch is active for   *)
(* every function, since the generation it was recorded under and the one  *)
(* the view selects agree.                                                 *)
ActiveEvidenceIsCurrent ==
    pc = "apply" =>
        /\ \A o \in ActiveEvidence :
              o.producer = "rax" =>
                  /\ o.fingerprint.content = img.content
                  /\ o.fingerprint.shape = img.shape[o.function]
        /\ cfg.want_native =>
              \A f \in provider_function_starts :
                  \E o \in ActiveEvidence : o.producer = "native" /\ o.function = f

(* A cache entry stands for evidence in the ledger: only a job that ran   *)
(* to completion may make a later epoch skip the emulation.               *)
CacheHasEvidence ==
    \A f \in DOMAIN dynamic_cache :
        \E o \in evidence : /\ o.producer = "rax"
                            /\ o.function = f
                            /\ o.fingerprint = dynamic_cache[f]

(* A cache hit preserves the prior identity and evidence: a job that is   *)
(* submitted without runs has dynamic evidence in its own generation      *)
(* (docs/architecture.md:374).                                            *)
CacheHitKeepsEvidence ==
    \A i \in DOMAIN jobs :
        jobs[i].hit => \E o \in evidence :
                          /\ o.producer = "rax"
                          /\ o.function = jobs[i].function
                          /\ o.generation = jobs[i].generation

(* The evidence identity of a function changes when the fingerprint of    *)
(* its job does: one generation never mixes two fingerprints.             *)
GenerationHasOneFingerprint ==
    \A o, p \in {e \in evidence : e.producer = "rax" /\ ~e.restored} :
        (o.function = p.function /\ o.generation = p.generation)
            => o.fingerprint = p.fingerprint

(* A sweep that has started finishes, within max_epochs epochs.           *)
SweepTerminates == started ~> (finished \/ pc = "unloaded")
=============================================================================
