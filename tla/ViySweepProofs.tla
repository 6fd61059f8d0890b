--------------------------- MODULE ViySweepProofs ---------------------------
(***************************************************************************)
(* The steps of the worker pipeline keep the invariant of ViySweepEpoch,   *)
(* and what the invariant shows of the sweep, for every number of          *)
(* functions, workers, epochs and generations.                             *)
(***************************************************************************)
EXTENDS ViySweepEpoch

(* Steps after which the ledger is the same.                              *)
LEMMA SameLedger ==
    ASSUME SweepInv, UNCHANGED <<cfg, img, lifecycle, evidence>>
    PROVE  EvidenceOK' /\ \A o \in evidence' : o.generation \in allocator'.used
  <1>0. PICK new : new = {}
    BY Zenon
  <1>1. evidence' = evidence \cup new
    BY <1>0
  <1> QED BY <1>0, <1>1, LedgerGrows

(* A worker settles a job: its place in the order stays.                  *)
LEMMA WorkerSettlesSweep ==
    ASSUME SweepInv, UNCHANGED cfg, WorkerSettles
    PROVE  SweepInv'
  <1>0. SweepTypes /\ SnapshotOK /\ AllocatorOK /\ JobsOK /\ OrderOK
    BY DEF SweepInv
  <1>1. /\ UNCHANGED <<idb, img, lifecycle, started, finished, waiting_for_auto, epoch, pc,
                       dynamic_cache, next, done, worker_image, evidence, deobf_pending>>
    BY DEF WorkerSettles, control, database, deobf
  <1>2. PICK i \in DOMAIN jobs, outcome \in Outcomes, ran \in BOOLEAN :
          /\ outcome = "COMPLETED" => ran
          /\ jobs' = [jobs EXCEPT ![i].outcome = outcome, ![i].ran = ran /\ ~jobs[i].hit]
    BY Zenon DEF WorkerSettles
  <1>3. jobs \in Seq(Job) /\ DOMAIN jobs = 1..Len(jobs) /\ jobs[i] \in Job
    BY <1>0, <1>2 DEF SweepTypes
  <1>4. PICK settled : settled = [jobs[i] EXCEPT !.outcome = outcome,
                                                 !.ran = ran /\ ~jobs[i].hit]
    OBVIOUS
  <1>5. /\ settled.index = jobs[i].index /\ settled.function = jobs[i].function
        /\ settled.generation = jobs[i].generation /\ settled.hit = jobs[i].hit
        /\ settled.fingerprint = jobs[i].fingerprint
        /\ settled.outcome = outcome /\ settled.ran = (ran /\ ~jobs[i].hit)
    BY <1>3, <1>4 DEF Job
  <1>6. settled \in Job
    <2>1. (ran /\ ~jobs[i].hit) \in BOOLEAN
      OBVIOUS
    <2> QED BY <1>3, <1>4, <2>1, Zenon DEF Job
  <1>7. jobs' = [jobs EXCEPT ![i] = settled]
    BY <1>2, <1>3, <1>4, Zenon DEF Job
  <1>8. /\ jobs' \in Seq(Job) /\ Len(jobs') = Len(jobs)
        /\ \A j \in 1..Len(jobs) : jobs'[j] = IF j = i THEN settled ELSE jobs[j]
    <2>1. i \in 1..Len(jobs)
      BY <1>2, <1>3
    <2> QED BY <1>3, <1>6, <1>7, <2>1, ExceptSeq
  <1>9. SweepTypes'
    BY <1>0, <1>1, <1>8 DEF SweepTypes
  <1>10. JobsOK'
    <2>1. jobs # <<>>
      BY <1>2, <1>3
    <2>2. jobs[i].outcome = "COMPLETED" \/ settled.ran \/ settled.hit \/ outcome # "COMPLETED"
      BY <1>2, <1>5
    <2>3. ASSUME NEW j \in 1..Len(jobs)
          PROVE  /\ jobs'[j].index = jobs[j].index
                 /\ jobs'[j].function = jobs[j].function
                 /\ jobs'[j].generation = jobs[j].generation
                 /\ jobs'[j].fingerprint = jobs[j].fingerprint
                 /\ jobs'[j].hit = jobs[j].hit
      BY <1>5, <1>8
    <2>4. ASSUME NEW j \in 1..Len(jobs), jobs'[j].outcome = "COMPLETED"
          PROVE  jobs'[j].ran \/ jobs'[j].hit
      <3>1. CASE j = i
        BY <1>2, <1>5, <1>8, <2>4, <3>1, Zenon
      <3>2. CASE j # i
        BY <1>0, <1>8, <2>4, <3>2 DEF JobsOK
      <3> QED BY <3>1, <3>2
    <2> QED BY <1>0, <1>1, <1>8, <2>1, <2>3, <2>4 DEF JobsOK, HasEvidence
  <1>11. OrderOK'
    <2>1. \A j \in 1..Len(jobs) : jobs'[j].index = jobs[j].index
      BY <1>5, <1>8
    <2>2. jobs # <<>> /\ jobs' # <<>>
      BY <1>2, <1>3, <1>8
    <2> QED BY <1>0, <1>1, <1>8, <2>1, <2>2 DEF OrderOK, AtBatch, TimerRunning
  <1> QED BY <1>0, <1>1, <1>9, <1>10, <1>11, SameLedger, StableSnapshot DEF AllocatorOK

(* Every entry of a snapshot is one of its functions.                     *)
LEMMA EntryFunctions ==
    ASSUME SnapshotOK, NEW i \in 1..Len(img.entries)
    PROVE  img.entries[i] \in SnapshotFunctions /\ img.entries[i] \in Functions
  <1>1. img.entries \in Seq(SnapshotFunctions) /\ SnapshotFunctions \subseteq Functions
    BY Zenon DEF SnapshotOK
  <1> QED BY <1>1

(* The submit loop: the job is the next entry's, and a cache hit has its  *)
(* evidence in the ledger.                                                *)
LEMMA SubmitNextSweep ==
    ASSUME SweepInv, UNCHANGED cfg, SubmitNext
    PROVE  SweepInv'
  <1>0. SweepTypes /\ SnapshotOK /\ AllocatorOK /\ CacheHasEvidence /\ JobsOK /\ OrderOK
    BY DEF SweepInv
  <1>1. /\ UNCHANGED <<idb, img, lifecycle, started, finished, waiting_for_auto, epoch, pc,
                       dynamic_cache, done, worker_image, evidence, deobf_pending>>
        /\ pc = "submit" /\ next <= Len(img.entries) /\ next' = next + 1
    BY DEF SubmitNext, control, database, deobf
  <1>2. PICK f : f = img.entries[next]
    OBVIOUS
  <1>3. PICK fingerprint : fingerprint = Fingerprint(img.content, img.shape, f)
    OBVIOUS
  <1>4. PICK hit : hit = CacheHit(f, fingerprint)
    OBVIOUS
  <1>5. PICK job : job = [index |-> next, function |-> f, generation |-> img.generation[f],
                          fingerprint |-> fingerprint, hit |-> hit,
                          outcome |-> "pending", ran |-> FALSE]
    BY Zenon
  <1>6. jobs' = Append(jobs, job)
    BY <1>2, <1>3, <1>4, <1>5 DEF SubmitNext
  <1>7. Len(img.entries) \in Nat /\ next \in 1..Len(img.entries)
    BY <1>0, <1>1 DEF SnapshotOK, SweepTypes
  <1>8. f \in SnapshotFunctions /\ f \in Functions
    BY <1>0, <1>2, <1>7, EntryFunctions, Zenon
  <1>9. hit \in BOOLEAN
    BY <1>4 DEF CacheHit
  <1>10. /\ fingerprint.content = img.content /\ fingerprint.shape = img.shape[f]
         /\ fingerprint \in JobFingerprints
    <2>1. /\ img.content \in Versions /\ img.shape[f] \in 0..2 /\ idb.inputs[f] \in Versions
      BY <1>0, <1>8 DEF SnapshotOK, SweepTypes
    <2> QED BY <1>3, <2>1 DEF Fingerprint, JobFingerprints
  <1>11. job \in Job
    <2>1. img.generation[f] \in Generations
      BY <1>0, <1>8 DEF SnapshotOK
    <2>2. next \in Nat
      BY <1>7
    <2> QED BY <1>5, <1>8, <1>9, <1>10, <2>1, <2>2 DEF Job
  <1>12. jobs \in Seq(Job) /\ Len(jobs) \in Nat
    BY <1>0 DEF SweepTypes
  <1>13. /\ jobs' \in Seq(Job) /\ Len(jobs') = Len(jobs) + 1 /\ jobs' # <<>>
         /\ \A i \in 1..Len(jobs) : jobs'[i] = jobs[i]
         /\ jobs'[Len(jobs) + 1] = job
    BY <1>6, <1>11, <1>12
  <1>14. hit => HasEvidence(f, fingerprint)
    <2> SUFFICES ASSUME hit PROVE HasEvidence(f, fingerprint)
      OBVIOUS
    <2>1. CacheHit(f, fingerprint)
      BY <1>4, Zenon
    <2> QED BY <1>0, <2>1 DEF CacheHit, CacheHasEvidence, HasEvidence
  <1>15. SweepTypes'
    BY <1>0, <1>1, <1>13 DEF SweepTypes
  <1>16. JobsOK'
    <2>1. /\ cfg.rax /\ img.entries # <<>> /\ worker_image = img.generation
      BY <1>0, <1>1 DEF OrderOK
    <2>2. \A i \in 1..Len(jobs') : i \in 1..Len(jobs) \/ i = Len(jobs) + 1
      BY <1>12, <1>13
    <2>3. /\ job.index \in 1..Len(img.entries) /\ job.function = img.entries[job.index]
          /\ job.generation = img.generation[job.function]
          /\ job.fingerprint.content = img.content
          /\ job.fingerprint.shape = img.shape[job.function]
          /\ job.outcome # "COMPLETED"
          /\ job.hit => HasEvidence(job.function, job.fingerprint)
      BY <1>2, <1>5, <1>7, <1>10, <1>14
    <2>4. ASSUME NEW i \in 1..Len(jobs')
          PROVE  /\ jobs'[i].index \in 1..Len(img.entries)
                 /\ jobs'[i].function = img.entries[jobs'[i].index]
                 /\ jobs'[i].generation = img.generation[jobs'[i].function]
                 /\ jobs'[i].fingerprint.content = img.content
                 /\ jobs'[i].fingerprint.shape = img.shape[jobs'[i].function]
                 /\ jobs'[i].outcome = "COMPLETED" => jobs'[i].ran \/ jobs'[i].hit
                 /\ jobs'[i].hit => HasEvidence(jobs'[i].function, jobs'[i].fingerprint)
      <3>1. CASE i \in 1..Len(jobs)
        BY <1>0, <1>13, <3>1 DEF JobsOK
      <3>2. CASE i = Len(jobs) + 1
        BY <1>13, <2>3, <3>2
      <3> QED BY <2>2, <3>1, <3>2
    <2> QED BY <1>1, <2>1, <2>4 DEF JobsOK, HasEvidence
  <1>17. OrderOK'
    <2>0. Len(done) \in Nat /\ next \in Nat
      BY <1>0 DEF SweepTypes
    <2>1. job.index = next
      BY <1>5
    <2>2. /\ Len(done) + Len(jobs) = next - 1
          /\ \A i \in 1..Len(done) : done[i] = i
          /\ \A i \in 1..Len(jobs) : jobs[i].index = Len(done) + i
          /\ cfg.rax /\ img.entries # <<>> /\ worker_image = img.generation
      BY <1>0, <1>1 DEF OrderOK
    <2>3. \A i \in 1..Len(jobs') : jobs'[i].index = Len(done) + i
      <3>1. ASSUME NEW i \in 1..Len(jobs) PROVE jobs'[i].index = Len(done) + i
        BY <1>13, <2>2
      <3>2. jobs'[Len(jobs) + 1].index = Len(done) + (Len(jobs) + 1)
        BY <1>12, <1>13, <2>0, <2>1, <2>2
      <3>3. \A i \in 1..Len(jobs') : i \in 1..Len(jobs) \/ i = Len(jobs) + 1
        BY <1>12, <1>13
      <3> QED BY <3>1, <3>2, <3>3
    <2> QED BY <1>1, <1>7, <1>12, <1>13, <2>0, <2>2, <2>3 DEF OrderOK
  <1> QED BY <1>0, <1>1, <1>15, <1>16, <1>17, SameLedger, StableSnapshot DEF AllocatorOK

(* process_function adds observations of the current snapshot only.       *)
LEMMA ProcessFunctionRecords ==
    ASSUME SweepInv, UNCHANGED <<cfg, img, lifecycle>>,
           NEW index \in 1..Len(img.entries), NEW dynamic, ProcessFunction(index, dynamic),
           \A o \in dynamic :
               /\ ~o.restored /\ o.generation \in allocator.used
               /\ o.producer = "rax" => /\ o.fingerprint.content = img.content
                                        /\ o.fingerprint.shape = img.shape[o.function]
    PROVE  /\ EvidenceOK' /\ \A o \in evidence' : o.generation \in allocator'.used
           /\ evidence \subseteq evidence' /\ dynamic \subseteq evidence'
           /\ done' = Append(done, index)
           /\ idb' \in [content : Versions, shape : [Functions -> 0..2],
                        inputs : [Functions -> Versions]]
  <1>0. SweepTypes /\ SnapshotOK /\ AllocatorOK
    BY DEF SweepInv
  <1>1. PICK f : f = img.entries[index]
    OBVIOUS
  <1>2. PICK audit : audit = Observation("static", f, img.generation[f], NoFingerprint)
    OBVIOUS
  <1>3. PICK kept \in SUBSET {audit} : evidence' = evidence \cup dynamic \cup kept
    BY <1>1, <1>2, Zenon DEF ProcessFunction
  <1>4. f \in SnapshotFunctions
    BY <1>0, <1>1 DEF SnapshotOK
  <1>5. /\ audit.generation \in allocator.used /\ ~audit.restored /\ audit.producer # "rax"
    BY <1>0, <1>2, <1>4 DEF AllocatorOK, Observation
  <1>6. PICK new : new = dynamic \cup kept
    BY Zenon
  <1>7. evidence' = evidence \cup new
    BY <1>3, <1>6
  <1>8. \A o \in new :
          /\ ~o.restored /\ o.generation \in allocator.used
          /\ o.producer = "rax" => /\ o.fingerprint.content = img.content
                                   /\ o.fingerprint.shape = img.shape[o.function]
    BY <1>3, <1>5, <1>6
  <1>9. EvidenceOK' /\ \A o \in evidence' : o.generation \in allocator'.used
    BY <1>7, <1>8, LedgerGrows, Zenon
  <1>10. done' = Append(done, index) /\ MayMutate
    BY DEF ProcessFunction
  <1> QED BY <1>0, <1>3, <1>9, <1>10, MayMutateTypes

(* Native/static-only mode: the next entry is processed at once.          *)
LEMMA ProcessWithoutWorkerSweep ==
    ASSUME SweepInv, UNCHANGED cfg, ProcessWithoutWorker
    PROVE  SweepInv'
  <1>0. SweepTypes /\ SnapshotOK /\ AllocatorOK /\ JobsOK /\ OrderOK
    BY DEF SweepInv
  <1>1. /\ UNCHANGED <<img, lifecycle, started, finished, waiting_for_auto, epoch, pc, jobs,
                       dynamic_cache, worker_image, deobf_pending>>
        /\ pc = "nopool" /\ next <= Len(img.entries) /\ next' = next + 1
        /\ ProcessFunction(next, {})
    BY DEF ProcessWithoutWorker, control, deobf
  <1>2. Len(img.entries) \in Nat /\ next \in 1..Len(img.entries) /\ next \in Nat
    BY <1>0, <1>1 DEF SnapshotOK, SweepTypes
  <1>3. PICK dynamic : dynamic = {}
    BY Zenon
  <1>4. /\ EvidenceOK' /\ \A o \in evidence' : o.generation \in allocator'.used
        /\ evidence \subseteq evidence'
        /\ done' = Append(done, next)
        /\ idb' \in [content : Versions, shape : [Functions -> 0..2],
                     inputs : [Functions -> Versions]]
    <2>1. ProcessFunction(next, dynamic)
      BY <1>1, <1>3
    <2> QED BY <1>1, <1>2, <1>3, <2>1, ProcessFunctionRecords
  <1>5. /\ done \in Seq(Nat) /\ Len(done) \in Nat /\ jobs = <<>>
        /\ Len(done) = next - 1 /\ \A i \in 1..Len(done) : done[i] = i
    BY <1>0, <1>1 DEF SweepTypes, OrderOK
  <1>6. /\ done' \in Seq(Nat) /\ Len(done') = Len(done) + 1
        /\ \A i \in 1..Len(done') : done'[i] = i
    BY <1>2, <1>4, <1>5
  <1>7. SweepTypes'
    BY <1>0, <1>1, <1>2, <1>4, <1>6 DEF SweepTypes
  <1>8. JobsOK'
    BY <1>1, <1>5 DEF JobsOK
  <1>9. OrderOK'
    BY <1>0, <1>1, <1>2, <1>5, <1>6 DEF OrderOK, AtBatch
  <1> QED BY <1>0, <1>1, <1>4, <1>7, <1>8, <1>9, StableSnapshot DEF AllocatorOK

(* apply_one: the oldest job in flight is the first unprocessed entry, so *)
(* the order is kept; a completed job leaves evidence behind its entry of *)
(* dynamic_cache, its own or that of the hit.                             *)
LEMMA ApplyOneSweep ==
    ASSUME SweepInv, UNCHANGED cfg, ApplyOne
    PROVE  SweepInv'
  <1>0. SweepTypes /\ SnapshotOK /\ AllocatorOK /\ CacheHasEvidence /\ JobsOK /\ OrderOK
    BY DEF SweepInv
  <1>1. /\ UNCHANGED <<img, lifecycle, started, finished, waiting_for_auto, epoch, pc, next,
                       worker_image, deobf_pending>>
        /\ pc \in {"take", "drain"} /\ jobs # <<>> /\ jobs' = Tail(jobs)
    BY DEF ApplyOne, control, deobf
  <1>2. PICK job : job = Head(jobs)
    OBVIOUS
  <1>3. /\ jobs \in Seq(Job) /\ Len(jobs) \in Nat /\ Len(jobs) >= 1 /\ job = jobs[1]
        /\ job \in Job /\ 1 \in 1..Len(jobs)
    BY <1>0, <1>1, <1>2 DEF SweepTypes
  <1>4. PICK dynamic : dynamic = IF job.ran
                                 THEN {Observation("rax", job.function, job.generation,
                                                   job.fingerprint)}
                                 ELSE {}
    BY Zenon
  <1>5. ProcessFunction(job.index, dynamic)
    BY <1>2, <1>4 DEF ApplyOne
  <1>6. /\ job.index \in 1..Len(img.entries)
        /\ job.function = img.entries[job.index]
        /\ job.generation = img.generation[job.function]
        /\ job.fingerprint.content = img.content
        /\ job.fingerprint.shape = img.shape[job.function]
        /\ job.outcome = "COMPLETED" => job.ran \/ job.hit
        /\ job.hit => HasEvidence(job.function, job.fingerprint)
    BY <1>0, <1>3 DEF JobsOK
  <1>7. job.generation \in allocator.used
    <2>1. job.function \in SnapshotFunctions
      BY <1>0, <1>6, EntryFunctions, Zenon
    <2> QED BY <1>0, <1>6, <2>1 DEF AllocatorOK
  <1>8. \A o \in dynamic :
          /\ ~o.restored /\ o.generation \in allocator.used
          /\ o.producer = "rax" => /\ o.fingerprint.content = img.content
                                   /\ o.fingerprint.shape = img.shape[o.function]
    <2> SUFFICES ASSUME NEW o \in dynamic
                 PROVE  /\ ~o.restored /\ o.generation \in allocator.used
                        /\ o.fingerprint.content = img.content
                        /\ o.fingerprint.shape = img.shape[o.function]
      BY Zenon
    <2>1. o = Observation("rax", job.function, job.generation, job.fingerprint)
      BY <1>4
    <2>2. /\ ~o.restored /\ o.generation = job.generation /\ o.function = job.function
          /\ o.fingerprint = job.fingerprint
      BY <2>1 DEF Observation
    <2> QED BY <1>6, <1>7, <2>2
  <1>9. /\ EvidenceOK' /\ \A o \in evidence' : o.generation \in allocator'.used
        /\ evidence \subseteq evidence' /\ dynamic \subseteq evidence'
        /\ done' = Append(done, job.index)
        /\ idb' \in [content : Versions, shape : [Functions -> 0..2],
                     inputs : [Functions -> Versions]]
    BY <1>1, <1>5, <1>6, <1>8, ProcessFunctionRecords
  <1>10. /\ jobs' \in Seq(Job) /\ Len(jobs') = Len(jobs) - 1
         /\ \A i \in 1..Len(jobs') : jobs'[i] = jobs[i + 1] /\ i + 1 \in 1..Len(jobs)
    BY <1>1, <1>3
  <1>11. CacheHasEvidence'
    <2>1. ASSUME NEW f, NEW fingerprint, HasEvidence(f, fingerprint)
          PROVE  \E o \in evidence' : /\ o.producer = "rax"
                                      /\ o.function = f
                                      /\ o.fingerprint = fingerprint
      BY <1>9, <2>1 DEF HasEvidence
    <2>2. ASSUME job.ran
          PROVE  \E o \in evidence' : /\ o.producer = "rax"
                                      /\ o.function = job.function
                                      /\ o.fingerprint = job.fingerprint
      BY <1>4, <1>9, <2>2 DEF Observation
    <2>3. CASE dynamic_cache' = dynamic_cache
      BY <1>0, <1>9, <2>3 DEF CacheHasEvidence
    <2>4. CASE job.outcome = "COMPLETED"
      <3>1. dynamic_cache' = [f \in DOMAIN dynamic_cache \cup {job.function} |->
                                IF f = job.function THEN job.fingerprint
                                ELSE dynamic_cache[f]]
        BY <1>2, <2>4 DEF ApplyOne, Cacheable
      <3>2. \E o \in evidence' : /\ o.producer = "rax"
                                 /\ o.function = job.function
                                 /\ o.fingerprint = job.fingerprint
        BY <1>6, <2>1, <2>2, <2>4
      <3>3. ASSUME NEW f \in DOMAIN dynamic_cache, f # job.function
            PROVE  \E o \in evidence' : /\ o.producer = "rax"
                                        /\ o.function = f
                                        /\ o.fingerprint = dynamic_cache[f]
        BY <1>0, <1>9 DEF CacheHasEvidence
      <3> QED BY <3>1, <3>2, <3>3 DEF CacheHasEvidence
    <2> QED BY <1>2, <2>3, <2>4 DEF ApplyOne, Cacheable
  <1>12. /\ done \in Seq(Nat) /\ Len(done) \in Nat /\ next \in Nat
         /\ Len(done) + Len(jobs) = next - 1 /\ \A i \in 1..Len(done) : done[i] = i
         /\ \A i \in 1..Len(jobs) : jobs[i].index = Len(done) + i
         /\ cfg.rax /\ img.entries # <<>> /\ worker_image = img.generation
         /\ next <= Len(img.entries) + 1
    BY <1>0, <1>1 DEF SweepTypes, OrderOK
  <1>13. job.index = Len(done) + 1
    BY <1>3, <1>12
  <1>14. /\ done' \in Seq(Nat) /\ Len(done') = Len(done) + 1
         /\ \A i \in 1..Len(done') : done'[i] = i
    BY <1>9, <1>12, <1>13
  <1>15. SweepTypes'
    BY <1>0, <1>1, <1>9, <1>10, <1>14, SMTT(30) DEF SweepTypes
  <1>16. JobsOK'
    <2>1. ASSUME NEW i \in 1..Len(jobs'), jobs'[i].hit
          PROVE  HasEvidence(jobs[i].function, jobs[i].fingerprint)'
      <3>1. HasEvidence(jobs[i + 1].function, jobs[i + 1].fingerprint)
        BY <1>0, <1>10, <2>1 DEF JobsOK
      <3> QED BY <1>9, <1>10, <3>1 DEF HasEvidence
    <2>2. ASSUME NEW i \in 1..Len(jobs')
          PROVE  /\ jobs'[i].index \in 1..Len(img.entries)
                 /\ jobs'[i].function = img.entries[jobs'[i].index]
                 /\ jobs'[i].generation = img.generation[jobs'[i].function]
                 /\ jobs'[i].fingerprint.content = img.content
                 /\ jobs'[i].fingerprint.shape = img.shape[jobs'[i].function]
                 /\ jobs'[i].outcome = "COMPLETED" => jobs'[i].ran \/ jobs'[i].hit
      BY <1>0, <1>10, SMTT(30) DEF JobsOK
    <2> QED BY <1>1, <1>12, <2>1, <2>2, Zenon DEF JobsOK
  <1>17. OrderOK'
    <2>1. \A i \in 1..Len(jobs') : jobs'[i].index = Len(done') + i
      <3> SUFFICES ASSUME NEW i \in 1..Len(jobs')
                   PROVE  jobs'[i].index = Len(done') + i
        OBVIOUS
      <3>1. jobs'[i].index = Len(done) + (i + 1)
        BY <1>10, <1>12, Zenon
      <3>2. i \in Nat
        BY <1>3, <1>10
      <3> QED BY <1>12, <1>14, <3>1, <3>2
    <2>2. Len(done') + Len(jobs') = next - 1
      BY <1>3, <1>10, <1>12, <1>14
    <2> QED BY <1>1, <1>12, <1>14, <2>1, <2>2, Zenon DEF OrderOK
  <1> QED BY <1>0, <1>1, <1>9, <1>11, <1>15, <1>16, <1>17, StableSnapshot DEF AllocatorOK

(* The end of process_batch: either another epoch is due or the sweep has *)
(* finished, so no batch runs without workers.                            *)
LEMMA FinishEpochSweep ==
    ASSUME SweepInv, UNCHANGED cfg, FinishEpoch
    PROVE  SweepInv'
  <1>0. SweepTypes /\ SnapshotOK /\ AllocatorOK /\ OrderOK
    BY DEF SweepInv
  <1>1. /\ UNCHANGED <<img, lifecycle, started, epoch, next, done, dynamic_cache, evidence,
                       deobf_pending>>
        /\ pc = "apply" /\ pc' = "idle" /\ jobs' = <<>>
        /\ idb' = idb \/ MayMutate
    BY DEF FinishEpoch, deobf, database
  <1>2. idb' \in [content : Versions, shape : [Functions -> 0..2],
                  inputs : [Functions -> Versions]]
    BY <1>0, <1>1, MayMutateTypes DEF SweepTypes
  <1>3. \/ /\ waiting_for_auto' = TRUE /\ finished' = finished
           /\ epoch + 1 < MaxEpochs
        \/ finished' = TRUE /\ waiting_for_auto' = waiting_for_auto
    BY DEF FinishEpoch
  <1>4. finished' \in BOOLEAN /\ waiting_for_auto' \in BOOLEAN
    BY <1>0, <1>3, Zenon DEF SweepTypes
  <1>5. waiting_for_auto' => epoch + 1 < MaxEpochs
    BY <1>0, <1>3, Zenon DEF AllocatorOK
  <1>6. SweepTypes'
    BY <1>0, <1>1, <1>2, <1>4 DEF SweepTypes
  <1>7. JobsOK'
    BY <1>1 DEF JobsOK
  <1>8. ~AtBatch'
    BY <1>1, <1>3 DEF AtBatch, TimerRunning
  <1>9. OrderOK'
    <2>1. jobs = <<>>
      BY <1>0, <1>1 DEF OrderOK
    <2> QED BY <1>0, <1>1, <1>8, <2>1 DEF OrderOK
  <1> QED BY <1>1, <1>5, <1>6, <1>7, <1>9, SameLedger, StableSnapshot

(* ~viy_t: the jobs in flight are dropped, and nothing runs after.        *)
LEMMA UnloadSweep ==
    ASSUME SweepInv, UNCHANGED cfg, Unload
    PROVE  SweepInv'
  <1>0. SweepTypes /\ AllocatorOK
    BY DEF SweepInv
  <1>1. /\ UNCHANGED <<idb, img, lifecycle, started, finished, waiting_for_auto, epoch, next,
                       done, dynamic_cache, evidence, deobf_pending>>
        /\ pc' = "unloaded" /\ jobs' = <<>>
    BY DEF Unload, deobf, database, control
  <1>2. SweepTypes'
    BY <1>0, <1>1 DEF SweepTypes
  <1>3. JobsOK'
    BY <1>1 DEF JobsOK
  <1>4. OrderOK'
    BY <1>1 DEF OrderOK
  <1> QED BY <1>0, <1>1, <1>2, <1>3, <1>4, SameLedger, StableSnapshot DEF AllocatorOK

(* The restored history is seeded into the allocator before anything is   *)
(* handed out.                                                            *)
LEMMA InitSweep == Init => SweepInv
  <1> SUFFICES ASSUME Init PROVE SweepInv
    OBVIOUS
  <1>1. /\ img = [content |-> 0, entries |-> <<>>, shape |-> <<>>, generation |-> <<>>]
        /\ started = FALSE /\ finished = FALSE /\ waiting_for_auto = FALSE /\ epoch = 0
        /\ pc = "idle" /\ jobs = <<>> /\ next = 1 /\ done = <<>> /\ deobf_pending = FALSE
        /\ dynamic_cache = <<>> /\ function_evidence_identities = <<>>
        /\ prior_content_hash = {} /\ provider_generation = 0
        /\ provider_function_starts = {}
    BY DEF Init
  <1>2. SnapshotFunctions = {} /\ SnapshotFunctions = 1..0
    BY <1>1 DEF SnapshotFunctions
  <1>3. PICK generations \in Restored : evidence = RestoredHistory(generations)
    BY DEF Init
  <1>4. generations \subseteq 0..MaxGeneration
    BY SweepAssumption
  <1>5. \A o \in evidence : o.producer \in {"rax", "native"} /\ o.generation \in generations
    BY <1>3 DEF RestoredHistory
  <1>6. allocator.used = {o.generation : o \in evidence}
    BY DEF Init, Seed
  <1>7. SweepTypes
    <2>1. cfg \in [rax : BOOLEAN, want_static : BOOLEAN, want_native : BOOLEAN,
                   want_deobf : BOOLEAN]
      BY SweepAssumption DEF Init
    <2>2. idb \in [content : Versions, shape : [Functions -> 0..2],
                   inputs : [Functions -> Versions]]
      BY DEF Init, Versions
    <2>3. started \in BOOLEAN /\ finished \in BOOLEAN /\ waiting_for_auto \in BOOLEAN
      BY <1>1, Zenon
    <2>4. jobs \in Seq(Job) /\ done \in Seq(Nat) /\ next \in Nat \ {0} /\ epoch \in Nat
      BY <1>1
    <2>5. pc = "idle"
      BY <1>1
    <2> QED BY <2>1, <2>2, <2>3, <2>4, <2>5, SMTT(30) DEF SweepTypes
  <1>8. SnapshotOK
    BY <1>1, <1>2 DEF SnapshotOK, Versions
  <1>9. AllocatorOK
    <2>1. /\ allocator.used \subseteq 0..MaxGeneration
          /\ \A o \in evidence : o.generation \in allocator.used
      BY <1>4, <1>5, <1>6, Zenon
    <2>2. provider_generation \in 0..MaxGeneration
      BY <1>1, MaxGenerationAssumption
    <2>3. ~started /\ ~waiting_for_auto /\ ~deobf_pending
      BY <1>1, Zenon
    <2> QED BY <1>2, <2>1, <2>2, <2>3 DEF AllocatorOK
  <1>10. EvidenceOK
    BY <1>1, <1>2, <1>3, <1>5 DEF EvidenceOK
  <1> QED BY <1>1, <1>7, <1>8, <1>9, <1>10
          DEF SweepInv, CacheHasEvidence, JobsOK, OrderOK, AtBatch, TimerRunning

(* Every step keeps the inductive invariant.                              *)
LEMMA NextSweep ==
    ASSUME SweepInv, [Next]_vars
    PROVE  SweepInv'
  <1>1. CASE Next
    <2>0. UNCHANGED cfg
      BY <1>1 DEF Next
    <2>1. CASE DatabaseEdit \/ AutoAnalysisEnds \/ TickBatch \/ EndLoop
      BY <2>0, <2>1, QuietSweepSteps
    <2>2. CASE OnAnalysisDone
      BY <2>0, <2>2, OnAnalysisDoneSweep
    <2>3. CASE TickNextEpoch
      BY <2>0, <2>3, TickNextEpochSweep, SMTT(30)
    <2>4. CASE TickDeobf
      BY <2>0, <2>4, TickDeobfSweep
    <2>5. CASE WorkerSettles
      BY <2>0, <2>5, WorkerSettlesSweep
    <2>6. CASE ApplyOne
      BY <2>0, <2>6, ApplyOneSweep
    <2>7. CASE SubmitNext
      BY <2>0, <2>7, SubmitNextSweep
    <2>8. CASE ProcessWithoutWorker
      BY <2>0, <2>8, ProcessWithoutWorkerSweep
    <2>9. CASE FinishEpoch
      BY <2>0, <2>9, FinishEpochSweep
    <2>10. CASE Unload
      BY <2>0, <2>10, UnloadSweep
    <2> QED BY <1>1, <2>1, <2>2, <2>3, <2>4, <2>5, <2>6, <2>7, <2>8, <2>9, <2>10, SMTT(30) DEF Next
  <1>2. CASE UNCHANGED vars
    <2>1. UNCHANGED cfg
      BY <1>2 DEF vars
    <2> QED BY <1>2, <2>1, QuietSweepSteps
  <1> QED BY <1>1, <1>2

(* The inductive invariant holds throughout a sweep.                      *)
LEMMA SweepInvariant == Spec => []SweepInv
  <1>1. SweepInv /\ [Next]_vars => SweepInv'
    BY NextSweep
  <1> QED BY <1>1, InitSweep, PTL DEF Spec

-----------------------------------------------------------------------------
(* The results *)

(* The identities the view selects by are those of the snapshot.          *)
LEMMA ActiveObservation ==
    ASSUME SweepInv
    PROVE  ActiveEvidence =
             {o \in evidence :
                \/ o.producer = "user"
                \/ /\ o.producer \in {"native", "deobf"}
                   /\ provider_generation # 0
                   /\ o.generation = provider_generation
                   /\ o.function \in SnapshotFunctions \cup {NoFunction}
                \/ /\ o.producer \in {"rax", "static"}
                   /\ o.function \in SnapshotFunctions
                   /\ o.generation = img.generation[o.function]}
  <1>0. SnapshotOK
    BY DEF SweepInv
  <1>1. PICK identities : identities = [f \in DOMAIN function_evidence_identities |->
                                          function_evidence_identities[f].generation]
    BY Zenon
  <1>2. /\ DOMAIN identities = SnapshotFunctions
        /\ \A f \in SnapshotFunctions : identities[f] = img.generation[f]
    BY <1>0, <1>1 DEF SnapshotOK
  <1>3. ActiveEvidence = {o \in evidence : IsActive(o, provider_generation,
                                                    provider_function_starts, identities)}
    BY <1>1 DEF ActiveEvidence, View
  <1>4. provider_function_starts = SnapshotFunctions
    BY <1>0 DEF SnapshotOK
  <1> QED BY <1>2, <1>3, <1>4 DEF IsActive

(* What the pipeline has processed and has in flight, at every moment, is *)
(* the entries of the snapshot in order: for every number of functions    *)
(* and workers, however the loops of process_batch are cut short and in   *)
(* whatever order the workers finish.                                     *)
THEOREM SweepKeepsOrder == Spec => []PipelineInOrder
  <1>1. SweepInv => PipelineInOrder
    <2> SUFFICES ASSUME SweepInv, pc # "unloaded"
                 PROVE  /\ done \o [i \in DOMAIN jobs |-> jobs[i].index]
                              = [i \in 1..(next - 1) |-> i]
                        /\ \A i \in DOMAIN jobs :
                              /\ jobs[i].function = img.entries[jobs[i].index]
                              /\ worker_image[jobs[i].function] = jobs[i].generation
                        /\ pc = "apply" => done = [i \in DOMAIN img.entries |-> i]
      BY Zenon DEF PipelineInOrder
    <2>0. SweepTypes /\ SnapshotOK /\ JobsOK /\ OrderOK
      BY DEF SweepInv
    <2>1. /\ done \in Seq(Nat) /\ Len(done) \in Nat /\ DOMAIN done = 1..Len(done)
          /\ jobs \in Seq(Job) /\ Len(jobs) \in Nat /\ DOMAIN jobs = 1..Len(jobs)
          /\ next \in Nat
      BY <2>0 DEF SweepTypes
    <2>2. /\ Len(done) + Len(jobs) = next - 1
          /\ \A i \in 1..Len(done) : done[i] = i
          /\ \A i \in 1..Len(jobs) : jobs[i].index = Len(done) + i
          /\ pc = "apply" => jobs = <<>> /\ next = Len(img.entries) + 1
      BY <2>0 DEF OrderOK
    <2>3. done \o [i \in DOMAIN jobs |-> jobs[i].index] = [i \in 1..(next - 1) |-> i]
      <3>1. PICK flight : flight = [i \in 1..Len(jobs) |-> jobs[i].index]
        BY Zenon
      <3>2. \A i \in 1..Len(jobs) : flight[i] = Len(done) + i /\ flight[i] \in Nat
        BY <2>1, <2>2, <3>1
      <3>3. flight \in Seq(Nat) /\ Len(flight) = Len(jobs)
        BY <2>1, <3>1, <3>2
      <3>4. PICK all : all = done \o flight
        BY Zenon
      <3>5. /\ all \in Seq(Nat) /\ Len(all) = Len(done) + Len(jobs)
            /\ \A i \in 1..Len(all) : all[i] = IF i <= Len(done) THEN done[i]
                                               ELSE flight[i - Len(done)]
        <4>1. done \in Seq(Nat) /\ flight \in Seq(Nat)
          BY <2>1, <3>3
        <4>2. /\ done \o flight \in Seq(Nat)
              /\ Len(done \o flight) = Len(done) + Len(flight)
              /\ \A i \in 1..Len(done) + Len(flight) :
                    (done \o flight)[i] = IF i <= Len(done) THEN done[i]
                                          ELSE flight[i - Len(done)]
          BY <4>1, ConcatProperties, Zenon
        <4> QED BY <3>3, <3>4, <4>2
      <3>6. ASSUME NEW i \in 1..(next - 1) PROVE all[i] = i
        <4>1. CASE i <= Len(done)
          <5>1. i \in 1..Len(done) /\ i \in 1..Len(all)
            BY <2>1, <2>2, <3>5, <4>1
          <5>2. done[i] = i
            BY <2>2, <5>1
          <5> QED BY <3>5, <4>1, <5>1, <5>2
        <4>2. CASE ~(i <= Len(done))
          <5>1. i - Len(done) \in 1..Len(jobs)
            BY <2>1, <2>2, <4>2
          <5>2. all[i] = Len(done) + (i - Len(done))
            BY <2>2, <3>2, <3>5, <4>2, <5>1, Zenon
          <5> QED BY <2>1, <5>2
        <4> QED BY <4>1, <4>2
      <3>7. all = [i \in 1..(next - 1) |-> i]
        BY <2>2, <3>5, <3>6
      <3> QED BY <2>1, <3>1, <3>4, <3>7, Zenon
    <2>4. \A i \in DOMAIN jobs :
            /\ jobs[i].function = img.entries[jobs[i].index]
            /\ worker_image[jobs[i].function] = jobs[i].generation
      BY <2>0, <2>1 DEF JobsOK
    <2>5. pc = "apply" => done = [i \in DOMAIN img.entries |-> i]
      <3> SUFFICES ASSUME pc = "apply" PROVE done = [i \in DOMAIN img.entries |-> i]
        OBVIOUS
      <3>1. Len(img.entries) \in Nat /\ DOMAIN img.entries = 1..Len(img.entries)
        BY <2>0 DEF SnapshotOK
      <3>2. Len(done) = Len(img.entries)
        BY <2>1, <2>2, <3>1
      <3> QED BY <2>1, <2>2, <3>1, <3>2
    <2> QED BY <2>3, <2>4, <2>5, Zenon
  <1> QED BY <1>1, SweepInvariant, PTL

(* Whatever history a session restores, none of it is ever active, as     *)
(* long as the counter has room for the sweeps that are started.          *)
THEOREM RestoredStaysInactive == Spec => []RestoredHasNoAuthority
  <1>1. SweepInv => RestoredHasNoAuthority
    <2> SUFFICES ASSUME SweepInv PROVE RestoredHasNoAuthority
      OBVIOUS
    <2>0. AllocatorOK /\ EvidenceOK
      BY DEF SweepInv
    <2>1. provider_generation <= MaxGeneration
      BY <2>0, MaxGenerationAssumption DEF AllocatorOK
    <2>2. ASSUME NEW o \in ActiveEvidence, o.restored PROVE FALSE
      BY <2>0, <2>2, ActiveObservation, SMTT(30) DEF EvidenceOK
    <2> QED BY <2>1, <2>2 DEF RestoredHasNoAuthority
  <1> QED BY <1>1, SweepInvariant, PTL

(* When an epoch applies its evidence, the dynamic part was produced from *)
(* the snapshot's own content and function bytes, and the native scan of  *)
(* this epoch is active in full.                                          *)
THEOREM AppliedEvidenceIsCurrent == Spec => []ActiveEvidenceIsCurrent
  <1>1. SweepInv => ActiveEvidenceIsCurrent
    <2> SUFFICES ASSUME SweepInv PROVE ActiveEvidenceIsCurrent
      OBVIOUS
    <2>0. SnapshotOK /\ AllocatorOK /\ EvidenceOK
      BY DEF SweepInv
    <2>1. ASSUME NEW o \in ActiveEvidence, o.producer = "rax"
          PROVE  /\ o.fingerprint.content = img.content
                 /\ o.fingerprint.shape = img.shape[o.function]
      BY <2>0, <2>1, ActiveObservation DEF EvidenceOK
    <2>2. ASSUME cfg.want_native, NEW f \in provider_function_starts
          PROVE  \E o \in ActiveEvidence : o.producer = "native" /\ o.function = f
      <3>1. f \in SnapshotFunctions /\ provider_generation # 0
        BY <2>0, <2>2 DEF SnapshotOK, AllocatorOK
      <3>2. PICK o : o = Observation("native", f, provider_generation, NoFingerprint)
        OBVIOUS
      <3>3. /\ o.producer = "native" /\ o.function = f /\ o.generation = provider_generation
        BY <3>2 DEF Observation
      <3>4. o \in evidence
        BY <2>0, <2>2, <3>1, <3>2 DEF EvidenceOK
      <3>5. o \in ActiveEvidence
        BY <3>1, <3>3, <3>4, ActiveObservation
      <3> QED BY <3>3, <3>5
    <2> QED BY <2>1, <2>2 DEF ActiveEvidenceIsCurrent
  <1> QED BY <1>1, SweepInvariant, PTL

(* Every entry of dynamic_cache stands for evidence in the ledger.        *)
THEOREM CachedJobsHaveEvidence == Spec => []CacheHasEvidence
  <1>1. SweepInv => CacheHasEvidence
    BY DEF SweepInv
  <1> QED BY <1>1, SweepInvariant, PTL
=============================================================================
