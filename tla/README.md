# A TLA+ verification of viy

viy is an IDA plugin. After autoanalysis it snapshots the database, emulates
every function in rax engines on worker threads, runs two analysis providers,
collects what they report as *evidence* in a ledger, applies trusted evidence
to the database, stores the ledger in the database, and repeats until nothing
changes. This directory holds TLA+ modules for its stateful core, TLC
configurations that check them on small instances, and TLAPS proofs about the
worker pool, the persistence, the sweep, the evidence, the emulation driver, the
decoder audit and the deobfuscation provider's epochs. Section 5 lists what
the instances leave out. `PROJECT.json` maps each definition to the source
lines it models. Paths below are relative to the repository.

## 1. The system

| Part (files under `src/`) | State | Operations | What is hard | What should hold |
|---|---|---|---|---|
| Worker pool (`emulation_workers`) | queue, reorder buffer, counters, cancellation generation, threads | submit, take in order, cancel, shutdown; worker initialize, wait, pop, execute, settle | one mutex and one condition variable for everybody; failing threads and engines; results later than a cancellation | one result per ticket, in order; bounded backlog; no stranded job; shutdown ends |
| Persistence (`ida_evidence_store`) | two slot nodes, a marker, the former layout | read with repair and migration, write, erase | crash between any two database operations, torn blobs, refused writes | the last committed ledger is what a restart finds |
| Sweep (`viy.cpp`) | epoch, snapshot, cursor, jobs in flight, cache, identities | autoanalysis event, timer tick, epoch begin and end, unload | database changes under the sweep; ticks are cut off by a deadline | every entry once, in order; applied evidence is about the current snapshot; the sweep ends |
| Evidence lifecycle (`evidence_lifecycle`) | used generations, cursor | seed, allocate, select the active view | wrap at the end of the counter | a generation is never reused |
| Evidence model and ledger (`analysis_facts`, `evidence_store`) | facts, lazy contradiction index | add, query, scan for conflicts | index kept in step, address windows, bucketed scans | fast answers equal the all-pairs comparison |
| Evidence consumer (`evidence_apply*`, `ref_discovery`, `deobf_analysis_store`) | database items | gate a fact, apply the active view | stale runs, producers that disagree | mutations are backed and uncontested; applying twice changes nothing |
| Emulation driver (`emu_driver`, `emulation_rax_executor`, `call_summary`, `entry_state`, `abi_policy`) | engine, baseline, hooks, budgets | restore, run, resume, capture | leaks between runs, shared budgets, hooks after the fact, resumption after modelled calls | runs are isolated; refused writes leave no trace; final bytes replay |
| Hex-Rays bridge (`hexrays_bridge`) | annotation snapshot | publish | evidence that changes after a publication, competing values | a hint is trusted and stands alone |
| Runtime and legacy enrichment (`runtime_enrich*`, `enrich`, `advanced`) | patch budget, database | strings, code writes, pointers, functions, comments | one pass feeds the next; the user edits meanwhile | nothing patched without corroboration; the user's work survives |
| Providers (`native_analysis`, `deobf_analysis*`) | emitted keys | scan, batch, reset | restart in the middle of a batch; constants through widths, flags and the stack | each epoch's scan is complete; what is proved of the code is what it does |
| Decoder and audit (`decoder_*`, `static_decoder`, `smir_analysis`) | pending audit | audit, discard, record | the database changes while the job runs | no stale result is recorded |
| Snapshot, configuration, diagnostics, rax adapter | none after start | | input and output | |

The IDA main thread owns everything except the worker threads. It meets them
only in the pool, through immutable snapshots and ordered results. The
providers, the driver's results and the restored history meet in the ledger;
the gate, the consumer and the persistence read it.

## 2. Modules

**`EmulationWorkerPool`** has one action per critical section of `Impl::mutex`
or unlocked step between two. A worker's place (`wpc`) says whether it is
starting, asleep in `cv.wait`, running, or holding a returned result without
the lock. A notification moves sleepers; spurious wake-ups are allowed.
Threads may fail to start and engines to initialize. `FinishConstruction` is
the constructor's end with its accounting for missing threads. The main thread
is the only client, as in viy, and waits with timeouts only, so a wait is its
successful outcome. The "malformed ticket" branch is unreachable, since
`worker_main` sets the ticket itself. **`OrderedJobService`** is the abstract
promise of the header: tickets in submission order, one result each, delivered
in order. `ImplementsService` is the refinement.

**`IdaEvidenceAdapter`** models `read_blob`, `write_blob` and `erase` one
database operation at a time. An envelope is the set of observations it
encodes, or torn, or absent. Writing a blob takes two steps, so a crash can fall
inside it. The storage may also misread a staged blob or refuse an operation.
`DecodeLimit` stands for `StoreCodecLimits::max_observations`: a larger
envelope is written but not decoded, as the code checks on decoding only.
The ghost variable `refused` separates the guarantees that need storage which
never refuses a write from those that do not.

**`EvidenceLifecycle`** holds the allocator as pure operators, with the wrap.
**`ViySweep`** is the per-database object of `viy.cpp`: epochs, generations,
the deobfuscation batches, the submit/take/apply loops of `process_batch`, the
cache and convergence. The pool appears by its promise (jobs settle, results
come in order). A database is a content version and, per function, a shape (0:
absent) and entry inputs; a fingerprint is what these say of a function.
Consumers, autoanalysis and the user may change the database at the points
where the code lets them.

**`AnalysisFacts`** (payloads, `validate_payload`, what `compare_payloads` says
of a pair) and **`EvidenceStore`** (the ledger, its index, the gate and the
scans) are pure. **`EvidenceApplication`** drives them: an epoch begins,
providers and emulation report in any order, the sink gates deobfuscation
facts, and `ApplyEvidence` plans and makes the mutations. Canonical encoding and
SHA-256 become the identity of a payload. There is one function; `add_func` is
external and refuses overlaps. The substring test of `append_comment` is kept:
a comment on successor 0x1 counts as present when one on 0x10 is.
**`HexRaysBridge`** says which records become decompiler annotations;
publishing them is part of `ApplyEvidence`, as it is of the end of an epoch.

**`DeobfAnalysisCore`** has the classifiers of `deobf_analysis_core.cpp` as
operators: constant tracking, flags and conditions, get-PC gadgets, gaps, entry
predicates, wrappers, dispatch chains. **`DeobfAnalysis`** adds the x86
translation, the snapshot with its cross references, `emit` with the emitted
keys and a sink that refuses facts one by one, `reset`, and, as the reference, a small processor that executes the same
function. The processor computes conditions from their arithmetic meaning, not
from the classifiers' bit formulas. A byte of an operand is `UnitBits` = 2 bits
wide, so that every comparison can be enumerated.

The emulation side is one composition, from a function to the database:

| Module | Models |
|---|---|
| `ProgramModel` | the snapshot's segments, permissions, loaded bytes and functions |
| `RaxEngine` | external: an engine that executes a small instruction set |
| `EmuDriver` | one job: restore, seed corpus and input plan, hooks at each instruction, call summaries and resumptions, time-outs, cancellation, final writes |
| `RuntimeEnrichCore`, `RuntimeEnrich` | text decoding, write groups, patches under the shared budget, self-modified code, pointer tables, orphan functions and tails |
| `FunctionEnrich` | the passes of `enrich.cpp`, `advanced.cpp` and `ref_discovery.cpp` |
| `IdaDatabase` | external: the kernel calls those passes make |
| `EvidenceBridge` | the facts made of a job's events and outcomes |
| `DecoderAudit` | capture, second decoding, discarding of stale results, recording |
| `EmulationPipeline` | `build_emulation_job`, the worker, `process_function` with all passes in order, the user's edits |

The worker never reads the database, so submissions and edits are taken between
its runs only. One worker serves the jobs; threads and order are the pool's.

`MC*` modules give constants their values. `*Proofs` modules hold the theorems
about the module they extend. Two proofs are split: `ViySweepEpoch` (the sweep's
invariant, the allocator and the steps between epochs) is extended by
`ViySweepProofs`, and `EmuDriverProofs` (what a worker's step keeps) by
`EmulationPipelineProofs`.

## 3. What TLC checks

| Run | Instance | Shows |
|---|---|---|
| `pool` | 2 workers, queue of 1, 4 tickets, 2 cancellations, `FairSpec` | every ticket is in one place; backlog bound; a queued job always has a thread that will look at it; shutdown settles everything and returns; a cancelled job never completes; accepted tickets settle; the pool implements `OrderedJobService` |
| `persist` | 3 observations, of which an envelope of 2 decodes | what a write committed survives any interruption, a repair restores all the database offers, the marker never moves to a partial envelope, a successful write reads back (some of them while the storage refuses no write, as stated) |
| `sweep_safety` | 2 functions, 3 epochs, 2 edits, each producer alone, histories at both ends of the counter | entries processed once in order by their own result, no job refused for its snapshot, nothing restored is authority, applied evidence is current, the cache stands for evidence |
| `sweep_liveness` | all producers, 2 epochs, 1 edit, `FairSpec` | a started sweep finishes |
| `evidence` | 3 observations, 2 runs, 2 epochs, 24 kinds of report | gate and scans equal the all-pairs definition; the sink adds no contradiction; mutations are backed, uncontested and converge; a published hint is trusted and has no competing value |
| `deobf` | some twelve thousand functions of up to 11 instructions | proved targets, register values and branches are what the processor does; dispatch edges are followed; wrappers have one callee; gaps are entered by computed transfers only; an epoch delivers every fact once, whatever the sink refused before |
| `emulation` | programs of up to 8 instructions in a family of scenarios, 2 exploration runs and up to 2 inputs, 2 edits | runs are isolated and within budget; refused stores leave no trace, but for the two cases of section 5; accesses name their instruction; final writes replay; patches are corroborated, within budget and, for code, executed; strings are exact; functions are corroborated; the user's work survives; audit facts are current |

Five further runs check a sentence of the repository and find it violated:

| Run | Sentence | What happens |
|---|---|---|
| `persist_append_only` | "The persisted ledger is append-only history" (`README.md:213`) | a repair that cannot be staged makes restore fail; the session runs with an empty ledger and commits it |
| `persist_repair_in_place` | "evidence union is the only recovery rule that cannot silently discard an observation" (`src/ida_evidence_store.cpp:115`) | the union is staged over slot A; a crash inside tears A and leaves B alone |
| `sweep_cache_hit` | "A sweep-local cache hit preserves the prior identity and evidence" (`docs/architecture.md:373`) | inputs that change and change back between generation assignment and submission give a hit under a fresh generation without evidence |
| `sweep_fingerprint` | "The identity changes when the ... complete emulation-job fingerprint changes" (`docs/architecture.md:371`) | a job rebuilt at submission records another fingerprint under the identity assigned before |
| `deobf_stale_constant` | "An unsupported register write therefore kills the whole local state" (`src/deobf_analysis_core.cpp:216`) | a pop leaves the register's constant known, and the target proved from it is not taken |

**Bounds.** Two workers are the least at which results overtake each other; a
queue of one fills; four tickets exceed queue plus workers, so the backlog
bound and the end of the tickets are both met; two cancellations let one fall
on work submitted after another. Three observations tell old, new and merged
envelopes apart, and with `DecodeLimit` 2 the largest does not decode. Two
functions and three epochs let one function change while the other is kept,
twice. The deobfuscation families vary one slot of a layout at a time over
every kind of instruction the translation knows, two widths, and all 16
conditions on all two-bit operands; 14 steps execute a dispatcher's loop; the
sink refuses any one fact of an analysis (`MaxRefused` 1), and analyses repeat. The
emulation scenarios are listed in `MCEmulation`: every four-byte and three-unit
string over a menu of text, lengths, surrogates and rubbish, and UTF-8 of three
and four bytes, overlong, cut short and out of range; runs that agree, differ,
take other paths or repeat a call; each call summary, once, twice and in a loop
that exhausts the instruction budget or the resumptions; forbidden stores within
a segment, into and out of a gap; faults, time-outs, engines without hooks,
refused patches and functions; audits with edits on either side. Budgets are
small enough to be exceeded (`MaxInsns` 8, `MaxRuntimeBytes` 6,
`MaxResumptions` 2 for 256, `MaxStringBytes` 3 for 65536, `MaxStates` 2 for the
cap on entry states).

`GenerationBound`, `EditBound`, `MaxEpoch`, `MaxSteps`, `QueueBound`,
`GenerationRoom` and `MaxObservations` bound the models and have no counterpart
in the code; `MaxGeneration` and `TicketLimit` stand for the end of a 64-bit
counter, which the runs reach. Observations and emulation runs are
interchangeable, hence the symmetry sets of `persist` and `evidence`; runs with
liveness properties use none. Deadlock checking is off for the sweep, `deobf`
and `emulation`: a finished or unloaded sweep, a function that has been executed
and a list of jobs that is done stop.

**Fairness.** Pool: weak fairness of each worker thread (the scheduler runs a
ready thread, and an emulation has instruction and time limits), of the
constructor and of the join; none of submission, taking or cancelling. Sweep:
weak fairness of autoanalysis finishing, of the timer tick and of jobs settling
(which `pool` shows), and strong fairness of the loop iterations of a
tick: a tick may be cut off by its deadline, but the deadline lies 8 ms after
its start and the budget is at least one, so a tick whose loops keep finding
work does some of it again and again. A tick that only waits is not a step.

## 4. What is proved

Every theorem is about the specification that TLC runs, for all values of its
constants under the named assumptions, which TLC evaluates on each run. All
properties of the runs `pool`, `persist`, `sweep_safety` and `evidence` are
proved, except for the two liveness properties of `pool`; of `emulation` two,
and of `deobf` one. Each inductive
invariant was first checked with TLC on the instance of the run.

**Pool** (any finite set of workers, queue bound, ticket limit, number of
cancellations: `PoolAssumption`).

- `PoolTypeCorrect`, `EveryTicketAccountedFor`, `BacklogBounded`,
  `CancellationWins`: `TypeOK`, `TicketsAccountedFor`, `BoundedBacklog`,
  `CancelledNeverCompletes`. The inductive invariant is
  `PoolInv == TypeOK /\ TicketsAccountedFor`. Types alone are not enough: the
  order clauses (queue in ticket order, held tickets older than queued ones,
  one holder each) make a pop take a ticket from exactly one place.
- `ShutdownLeavesNothing`, `NoJobIsStranded`: `ShutdownSettlesEverything` and
  `NoStrandedJob`, from `CountInv`. The counters are cardinalities
  (`CountersExact`, `ReportsExact`), which is what makes the tests on
  `initialized` and `available` mean what they say; `StopOrder` adds that
  nothing is queued before construction ends or once shutdown began.
- `PoolImplementsService`: `ImplementsService`. One lemma per action maps it to a
  step of the service or to a stutter. It needs `GenerationsInOrder`: queued
  jobs are of the current generation, held ones of no later one.

**Persistence** (any set of observations and any decoder limit).

- `CommittedLedgerSurvives`, `PartialIsNeverCommitted`,
  `WrittenLedgerReadsBack`, `RepairsRestoreEverything`, from `AdapterInv`. Two
  parts hold whatever the storage refuses: the types and `StagingInOrder` (a
  write stages into the inactive slot; a repair runs only while the marker
  names no valid envelope). Four more hold until a write is refused: what was
  committed is on disk, in the session, or in the blob under repair or
  migration, and two valid envelopes without a marker are nested. Nesting is
  why the union of two envelopes always decodes.

**Sweep** (any number of functions, workers, epochs and generations, any
restored history: `SweepAssumption`, `MaxGenerationAssumption`).

- `SweepKeepsOrder`, `RestoredStaysInactive`, `AppliedEvidenceIsCurrent`,
  `CachedJobsHaveEvidence`, from `SweepInv`. `AllocatorOK` says that all
  generations in the ledger and the snapshot are in use, so that a fresh one
  (`Allocate`, through skips and the wrap) is nobody else's; `EvidenceOK` that a
  generation stands for one content and shape; `JobsOK` and `OrderOK` that jobs
  in flight belong to the snapshot and continue where the results processed end.

**Evidence** (any finite sets of reports, any saved ledger whose facts passed
`validate_fact`, any bounds: `SavedFactsAssumption`, `PayloadsAssumption`).

- `GateAnswersExactly`, `ScansAgree`: `GateIsExact` and `ScanIsExact`. The
  invariant `EvidenceInv` says that an index, once built, lists exactly the
  records that can contradict and knows the largest region; `GateExact` then
  shows that the visited window contains every overlapping region. `DetectExact`
  and `DigestsExact` compare the two scans with all pairs: contradictory records
  share a bucket, and the sweep reaches all regions that overlap. They hold for
  every set of accepted payloads.
- `SinkIsGated`: `SinkAddsNoContradiction`, from the gate and from symmetry and
  irreflexivity of `Contradicts`.
- `MutationsRestOnEvidence`, `MutationsContradictNothing`,
  `PublishedHintsStandAlone`, `ApplicationConverges`: `MutationsAreBacked`,
  `MutationsAreUncontested`, `HintsStandAlone`, `ApplyConverges`. An active
  observation is a current one (`ActiveIsCurrent`, where saved assertions of the
  user must carry that proof); a proof of the kinds and confidence the policy
  asks for, or two observations of different runs with theirs, are among them
  (`CurrentEvidenceBacks`); a maximal set of new functions leaves no candidate free.

**Emulation driver** (any program, snapshot, instruction set, table of call
summaries, input plan and budgets: `BudgetAssumption` asks for natural numbers,
an alignment of at least one and `HeapLo <= HeapHi`).

- `RunsStayInBudget`: `RunStaysInBudget`, from `DriverInv`. The bound on a run's
  instructions is not inductive as stated: while the engine runs, what holds is
  that its limit is the *remaining* budget counted from where the run began
  (`count_limit = icount_start + MaxInsns`), and that is why any number of
  resumptions shares one budget. No hook moves the instruction counter or the
  limits (`Keeps`, one lemma per hook); a summary moves the heap cursor only as
  far as `AllocateStaysInHeap` allows. Nothing is assumed of the values the guest
  hands to a summary: sizes and addresses may be anything. The byte budget of
  final writes is a sum over a set and is checked in `FinalWritesReplay`.

**Decoder audit** (any scenario whose jobs have ranges of addresses as chunks:
`ScenarioAssumption`; any window of at least one byte: `WindowAssumption`).

- `AuditIsCurrent`: the action property `AuditFactsAreCurrent`, from `AuditInv`:
  every request for an audit, from its submission to the worker's result, leaves
  room for one byte at least. Without it the comparison of the live bytes with
  the snapshot would compare nothing. The user's edits and all passes over this
  and earlier functions may come between; the proof uses nothing of what the
  passes do.

**Deobfuscation provider** (any function, any limits, any number of epochs).

- `EveryEpochIsComplete`: `EpochIsComplete`, from `ProviderInv`: the emitted keys
  are exactly the payloads that the sink took in this epoch. More keys would lose
  a fact that was refused or belongs to an earlier epoch; fewer would deliver one
  twice. The sink refuses any facts, one by one, analyses repeat, and a reset
  comes at any time. The proof takes the classifiers as they are: it needs only
  that they are functions of the snapshot and that there are six passes.

**Induction.** The library's induction theorems cannot be applied here. Three
facts about finite data are proved by a least counterexample instead, from the
well-foundedness of strict inclusion: a set of naturals has a least element, a
finite one has a greatest, and has an increasing enumeration.

**Only model-checked.**

- `AcceptedTicketsSettle`, `ShutdownReturns`, `SweepTerminates`: liveness under
  fairness is outside the prover's reach.
- `ProvedValuesHold`, `DispatchEdgesAreFollowed`, `ProvedTargetsAreTaken`,
  `UnreachableIsNotReached`: they compare what the classifiers compute, folds over
  the instructions of a block, with an execution. Facts about what a fold
  computes need induction over data.
- `PatchesAreCorroborated`, `UserWorkSurvives`, `StringsAreExact`,
  `FunctionsAreCorroborated`: each pass of the enrichment is a fold over the
  events of a job, with the database as the accumulator; the same limit.
- `FinalWritesReplay` replays a run's writes, another fold. `RunsAreIsolated`
  compares two whole runs, so an invariant would have to relate every two
  states of a job, not one state to the next.
- `RefusedWritesLeaveNoTrace`: the hooks of one instruction are a fold over its
  accesses.
- `AccessesNameTheirInstruction` holds of the instance and not for all constants:
  the list of executed instructions has a cap of its own, and a program whose
  list is full still records accesses.

## 5. Abstractions worth knowing

- The sweep's `provider_function_starts` contains library functions and thunks
  in the code; the model has none. The worker count never exceeds the entries.
- Inline operation (no timer) is ticks back to back.
- Progress, logging, statistics and wording are left out everywhere.
- The gate looks at one generation and the active view at one per producer, as
  `docs/architecture.md:165` documents; the model keeps the difference.
- `merge` outside recovery and `latest_generation_view` are not modelled.
- The emulated machine is little-endian, has two-byte pointers and one-byte
  instructions, and keeps return addresses on the stack. Pointer widths of 4 and
  8 in the code (the step of `ScanOptions`, slots of tables, words of strings)
  are `PtrSize` = 2 throughout, next to text units of one, two and four bytes.
- What the kernel may refuse is an option of the scenario: `patch_ok` (a patch
  that does not read back), `add_func_ok`, `strlit_ok`, `switch_ok`.

**What the passing instances leave out on purpose.** These are cases the
modules model as the code has them, but the instances do not contain, or the
properties exempt:

- A modelled call (`memcpy`, ...) may write to memory without write permission:
  it uses `mem_write`, which runs no hook. A guest store refused there later puts
  the snapshot's byte back, over what the call wrote and the run recorded. Both
  happen in the instance; `RefusedWritesLeaveNoTrace` exempts what the call
  writes, `FinalWritesReplay` allows the snapshot's byte.
- A store from a segment into a gap is refused, but not undone, because
  `restore_snapshot_bytes` (`src/emu_driver.cpp:144`) returns at the first byte
  outside a segment; a store that begins in a gap is not refused. The comment at
  `src/emu_driver.cpp:621` and `docs/architecture.md:301` promise the undo
  without exception. Both happen in the instance, and
  `RefusedWritesLeaveNoTrace` exempts the bytes of such a store (`Unguarded`).
- A run whose time is up before its first `emu_start` reports the exit of the
  run before it. `RunsAreIsolated` is about runs that were not cut short.
- Code written, executed and written again in one run is patched with its last
  bytes. `PatchesAreCorroborated` asks for an execution after a write, as the
  code does.
- `deobf` has no program that pops a register with a known constant; those are
  in `deobf_stale_constant`. Its gadgets move the stack by push, pop and add
  only, registers have no aliases of other names, and no unknown instruction
  has implicit results: the classifiers' answers there depend on what the
  translation does not tell them.
- Gaps may be entered by a computed return: `UnreachableIsNotReached` excludes
  direct flow only, and the code marks these facts as heuristic.
- The audit's staleness test compares the live bytes with the snapshot. Bytes
  patched before submission and put back before processing pass it, with IDA's
  old decoding; the edits of the instance never put a byte back.

## 6. Not modelled

- `entry_state.cpp`: a reading of the call sites through the SDK's register
  tracker that keeps no state; its results are the inputs of the scenarios.
- The classification of names into call summaries, and the tables of registers
  per architecture: constant tables.
- The ARM translation of the deobfuscation provider, and link-register and
  big-endian machines in the driver: the same control over other tables.
- The instruction-set mode of an audited instruction: on other processors than
  ARM it is constant and known, so `mode_known` (`src/decoder_audit_core.cpp:10`)
  and the ARM/Thumb comparison of `viy_discard_stale_decoder_audit`
  (`src/decoder_audit.cpp:243`) are left out of `DecoderAudit`.
- `viy_analyze_instruction_effects` of `smir_analysis.cpp`: it asks rax for an
  instruction's effects and copies them out; recording them is in `DecoderAudit`.
- The native provider's detectors: each reads the SDK and reports; what happens
  to the reports is modelled.
- The decompiler callbacks of the Hex-Rays bridge: rendering and line limits.
- Options, diagnostics and the rax loader: parsing, formatting and symbol lookup.
