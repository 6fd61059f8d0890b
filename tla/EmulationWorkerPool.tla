------------------------ MODULE EmulationWorkerPool ------------------------
(***************************************************************************)
(* The rax worker pool of emulation_workers.cpp: worker threads take jobs  *)
(* from a bounded FIFO, run them outside the mutex, and settle one result  *)
(* per ticket; one client thread (the IDA main thread) submits jobs and    *)
(* takes results in ticket order.                                          *)
(*                                                                         *)
(* Every action is one critical section of Impl::mutex, or one unlocked    *)
(* step between two of them.  A worker blocked in cv.wait is "asleep" and  *)
(* moves again only when it is notified (or wakes spuriously).  The client *)
(* waits with a timeout only, so its waits appear as their successful      *)
(* outcome; a wait that times out changes nothing.                         *)
(***************************************************************************)
EXTENDS Integers, Sequences, FiniteSets

CONSTANTS
    Workers,          \* the worker threads the constructor is asked for
    MaxQueued,        \* max_queued_jobs; 0 means unbounded
    TicketLimit,      \* numeric_limits<uint64_t>::max(): never assigned
    GenerationBound   \* model bound on the number of cancellations

ASSUME PoolAssumption ==
    /\ IsFiniteSet(Workers)
    /\ Workers # {}
    /\ MaxQueued \in Nat
    /\ TicketLimit \in Nat \ {0}
    /\ GenerationBound \in Nat \ {0}

VARIABLES
    queue,            \* jobs accepted and not yet taken by a worker
    completed,        \* settled, undelivered results: ticket -> status
    next_ticket,
    next_delivery,
    settled,
    unsettled,
    running,
    initialized,
    available,
    stopping,
    generation,       \* CancellationState::generation
    wpc,              \* where each worker thread is
    item,             \* the QueuedJob each worker has popped
    result,           \* the status its executor returned
    client            \* what the main thread is doing with the pool

vars == <<queue, completed, next_ticket, next_delivery, settled, unsettled,
          running, initialized, available, stopping, generation,
          wpc, item, result, client>>

Requested == Cardinality(Workers)
Statuses == {"COMPLETED", "FAILED", "CANCELLED", "UNAVAILABLE"}
QueuedJob == [ticket : Nat, generation : Nat]
NoJob == [ticket |-> 0, generation |-> 0]

(* Every ++submitted / ++delivered stands next to ++next_ticket /         *)
(* ++next_delivery, so the two statistics are functions of those.         *)
submitted == next_ticket - 1
delivered == next_delivery - 1

TicketsOf(q) == {q[i].ticket : i \in 1..Len(q)}
Queued == TicketsOf(queue)
Busy == {w \in Workers : wpc[w] \in {"executing", "returned"}}
Running == {item[w].ticket : w \in Busy}
Outstanding == next_ticket - next_delivery
(* Mutant: the last report is not recognised as the last.                 *)
NoExecutorTooLate(reported, usable) == reported > Requested /\ usable = 0

(* Every worker has reported and none has a usable executor.              *)
NoExecutor(reported, usable) == reported = Requested /\ usable = 0

Init ==
    /\ queue = <<>>
    /\ completed = <<>>
    /\ next_ticket = 1
    /\ next_delivery = 1
    /\ settled = 0
    /\ unsettled = 0
    /\ running = 0
    /\ initialized = 0
    /\ available = 0
    /\ stopping = FALSE
    /\ generation = 1
    /\ wpc \in [Workers -> {"starting", "absent"}] \* absent: not created
    /\ item = [w \in Workers |-> NoJob]
    /\ result = [w \in Workers |-> "FAILED"]
    /\ client = "constructing"

-----------------------------------------------------------------------------
(* map::emplace: a ticket that already has a result keeps it.             *)
Emplace(m, tickets, status) ==
    [t \in DOMAIN m \cup tickets |-> IF t \in DOMAIN m THEN m[t] ELSE status]

(* settle_locked for a set of tickets; `pending` is the value unsettled   *)
(* has when settling starts.                                              *)
settle_locked(tickets, status, pending) ==
    LET n == Cardinality(tickets \ DOMAIN completed) IN
    /\ completed' = Emplace(completed, tickets, status)
    /\ settled' = settled + n
    /\ unsettled' = IF pending >= n THEN pending - n ELSE 0

(* Mutant: the queue is emptied and its tickets are forgotten.            *)
drain_queued_unsettled(status) ==
    /\ queue' = <<>>
    /\ UNCHANGED <<completed, settled, unsettled>>

drain_queued_locked(status) ==
    /\ settle_locked(Queued, status, unsettled)
    /\ queue' = <<>>

(* Mutant: the notification is lost.                                      *)
notify_none(pc) == pc

notify_all(pc) ==
    [w \in Workers |-> IF pc[w] = "asleep" THEN "ready" ELSE pc[w]]

(* Mutant: the submit does not notify.                                    *)
notify_nobody(pc, pcNext) == pcNext = pc

(* cv.notify_one: some sleeper, if there is one, wakes.                   *)
notify_one(pc, pcNext) ==
    \/ /\ \A w \in Workers : pc[w] # "asleep"
       /\ pcNext = pc
    \/ \E w \in Workers : /\ pc[w] = "asleep"
                          /\ pcNext = [pc EXCEPT ![w] = "ready"]

-----------------------------------------------------------------------------
(* worker_main *)

(* The executor is built unlocked; the outcome is reported under the      *)
(* mutex.  The last worker to report drains the queue if none is usable.  *)
WorkerInitialize(w) ==
    /\ wpc[w] = "starting"
    /\ \E usable \in BOOLEAN :
         /\ initialized' = initialized + 1
         /\ available' = available + (IF usable THEN 1 ELSE 0)
         /\ IF NoExecutor(initialized', available')
            THEN drain_queued_locked("UNAVAILABLE")
            ELSE UNCHANGED <<queue, completed, settled, unsettled>>
         /\ wpc' = [notify_all(wpc) EXCEPT
                      ![w] = IF usable THEN "ready" ELSE "exited"]
    /\ UNCHANGED <<next_ticket, next_delivery, running, stopping, generation,
                   item, result, client>>

(* The wait predicate is false: block in cv.wait.                         *)
WorkerWait(w) ==
    /\ wpc[w] = "ready"
    /\ ~stopping /\ queue = <<>>
    /\ wpc' = [wpc EXCEPT ![w] = "asleep"]
    /\ UNCHANGED <<queue, completed, next_ticket, next_delivery, settled,
                   unsettled, running, initialized, available, stopping,
                   generation, item, result, client>>

SpuriousWakeup(w) ==
    /\ wpc[w] = "asleep"
    /\ wpc' = [wpc EXCEPT ![w] = "ready"]
    /\ UNCHANGED <<queue, completed, next_ticket, next_delivery, settled,
                   unsettled, running, initialized, available, stopping,
                   generation, item, result, client>>

WorkerTake(w) ==
    /\ wpc[w] = "ready"
    /\ ~stopping /\ queue # <<>>
    /\ item' = [item EXCEPT ![w] = Head(queue)]
    /\ queue' = Tail(queue)
    /\ running' = running + 1
    /\ wpc' = [notify_all(wpc) EXCEPT ![w] = "executing"]
    /\ UNCHANGED <<completed, next_ticket, next_delivery, settled, unsettled,
                   initialized, available, stopping, generation, result,
                   client>>

WorkerExit(w) ==
    /\ wpc[w] = "ready"
    /\ stopping
    /\ wpc' = [wpc EXCEPT ![w] = "exited"]
    /\ UNCHANGED <<queue, completed, next_ticket, next_delivery, settled,
                   unsettled, running, initialized, available, stopping,
                   generation, item, result, client>>

(* What RaxEmulationExecutor::execute may return: CANCELLED only after it *)
(* has polled the token of a cancelled generation.                        *)
ExecuteOutcomes(w) ==
    {"COMPLETED", "FAILED", "UNAVAILABLE"}
        \cup (IF generation # item[w].generation THEN {"CANCELLED"} ELSE {})

(* The executor runs and returns (or throws: FAILED) without the mutex.   *)
WorkerReturn(w) ==
    /\ wpc[w] = "executing"
    /\ \E status \in ExecuteOutcomes(w) :
         result' = [result EXCEPT ![w] = status]
    /\ wpc' = [wpc EXCEPT ![w] = "returned"]
    /\ UNCHANGED <<queue, completed, next_ticket, next_delivery, settled,
                   unsettled, running, initialized, available, stopping,
                   generation, item, client>>

(* Mutant: the cancellation is not looked at again under the mutex.       *)
SettledStatusTrusted(w) == result[w]

SettledStatus(w) ==
    IF generation # item[w].generation THEN "CANCELLED" ELSE result[w]

WorkerSettle(w) ==
    /\ wpc[w] = "returned"
    /\ running' = IF running # 0 THEN running - 1 ELSE 0
    /\ settle_locked({item[w].ticket}, SettledStatus(w), unsettled)
    /\ wpc' = [notify_all(wpc) EXCEPT ![w] = "ready"]
    /\ item' = [item EXCEPT ![w] = NoJob]
    /\ result' = [result EXCEPT ![w] = "FAILED"]
    /\ UNCHANGED <<queue, next_ticket, next_delivery, initialized, available,
                   stopping, generation, client>>

WorkerStep(w) ==
    \/ WorkerInitialize(w)
    \/ WorkerWait(w)
    \/ WorkerTake(w)
    \/ WorkerExit(w)
    \/ WorkerReturn(w)
    \/ WorkerSettle(w)

-----------------------------------------------------------------------------
(* The client thread *)

(* The constructor returns.  Threads that could not be created count as   *)
(* initialized and unavailable; workers already running may have reported *)
(* before this.                                                           *)
FinishConstruction ==
    /\ client = "constructing"
    /\ client' = "idle"
    /\ LET missing == {w \in Workers : wpc[w] = "absent"} IN
         /\ initialized' = initialized + Cardinality(missing)
         /\ IF missing = Workers
            THEN drain_queued_locked("UNAVAILABLE")
            ELSE UNCHANGED <<queue, completed, settled, unsettled>>
         /\ wpc' = IF missing # {} THEN notify_all(wpc) ELSE wpc
    /\ UNCHANGED <<next_ticket, next_delivery, running, available, stopping,
                   generation, item, result>>

(* Mutant: tickets are never exhausted.                                   *)
AcceptsEveryTicket ==
    /\ ~stopping
    /\ MaxQueued # 0 => /\ Len(queue) < MaxQueued
                        /\ Outstanding < Requested + MaxQueued

(* Mutant: results that were not delivered do not count.                  *)
AcceptsWhileQueueHasRoom ==
    /\ ~stopping
    /\ MaxQueued # 0 => Len(queue) < MaxQueued
    /\ next_ticket # TicketLimit

(* try_submit does not return false.                                      *)
Accepts ==
    /\ ~stopping
    /\ MaxQueued # 0 => /\ Len(queue) < MaxQueued
                        /\ Outstanding < Requested + MaxQueued
    /\ next_ticket # TicketLimit

TrySubmit ==
    /\ client = "idle"
    /\ Accepts
    /\ next_ticket' = next_ticket + 1
    /\ \/ /\ NoExecutor(initialized, available)
          /\ settle_locked({next_ticket}, "UNAVAILABLE", unsettled + 1)
          /\ wpc' = notify_all(wpc)
          /\ UNCHANGED queue
       \/ /\ ~NoExecutor(initialized, available)
          /\ queue' = Append(queue, [ticket |-> next_ticket,
                                     generation |-> generation])
          /\ unsettled' = unsettled + 1
          /\ notify_one(wpc, wpc')
          /\ UNCHANGED <<completed, settled>>
    /\ UNCHANGED <<next_delivery, running, initialized, available, stopping,
                   generation, item, result, client>>

(* Erase the results of the n oldest undelivered tickets.                 *)
Deliver(n) ==
    LET last == next_delivery + n - 1 IN
    /\ completed' = [t \in DOMAIN completed \ (next_delivery..last)
                       |-> completed[t]]
    /\ next_delivery' = next_delivery + n
    /\ wpc' = notify_all(wpc)
    /\ UNCHANGED <<queue, next_ticket, settled, unsettled, running,
                   initialized, available, stopping, generation, item, result,
                   client>>

(* Mutant: any settled result will do.                                    *)
TakeNextOfAny ==
    /\ client = "idle"
    /\ DOMAIN completed # {}
    /\ Deliver(1)

(* try_take_next and wait_take_next, when they return true.               *)
TakeNext ==
    /\ client = "idle"
    /\ next_delivery \in DOMAIN completed
    /\ Deliver(1)

(* take_ready(maximum): the longest run of consecutive results, at most   *)
(* `maximum` of them unless that is 0.                                    *)
TakeReady(maximum) ==
    /\ client = "idle"
    /\ \E n \in 1..Outstanding :
         /\ next_delivery..(next_delivery + n - 1) \subseteq DOMAIN completed
         /\ maximum # 0 => n <= maximum
         /\ \/ n = maximum
            \/ next_delivery + n \notin DOMAIN completed
         /\ Deliver(n)

CancelPending ==
    /\ client = "idle"
    /\ ~stopping
    /\ generation < GenerationBound
    /\ generation' = generation + 1
    /\ drain_queued_locked("CANCELLED")
    /\ wpc' = notify_all(wpc)
    /\ UNCHANGED <<next_ticket, next_delivery, running, initialized,
                   available, stopping, item, result, client>>

(* shutdown() and the destructor: stop_and_join up to the joins.          *)
Shutdown ==
    /\ client = "idle"
    /\ client' = "joining"
    /\ IF stopping
       THEN UNCHANGED <<stopping, generation, queue, completed, settled,
                        unsettled>>
       ELSE /\ stopping' = TRUE
            /\ generation' = generation + 1
            /\ drain_queued_locked("CANCELLED")
    /\ wpc' = notify_all(wpc)
    /\ UNCHANGED <<next_ticket, next_delivery, running, initialized,
                   available, item, result>>

(* Mutant: a worker whose executor has returned is not waited for.        *)
JoinedWhenNoneExecutes == \A w \in Workers : wpc[w] # "executing"

Joined == \A w \in Workers : wpc[w] \in {"exited", "absent"}

JoinReturns ==
    /\ client = "joining"
    /\ Joined
    /\ client' = "idle"
    /\ UNCHANGED <<queue, completed, next_ticket, next_delivery, settled,
                   unsettled, running, initialized, available, stopping,
                   generation, wpc, item, result>>

Next ==
    \/ \E w \in Workers : WorkerStep(w) \/ SpuriousWakeup(w)
    \/ FinishConstruction
    \/ TrySubmit
    \/ TakeNext
    \/ \E maximum \in 0..2 : TakeReady(maximum)
    \/ CancelPending
    \/ Shutdown
    \/ JoinReturns

Spec == Init /\ [][Next]_vars

(* The OS schedules every thread and every emulation run is bounded by    *)
(* its instruction and time budget; the client promises nothing except    *)
(* that joins and the constructor return.                                 *)
FairSpec ==
    /\ Spec
    /\ \A w \in Workers : WF_vars(WorkerStep(w))
    /\ WF_vars(FinishConstruction)
    /\ WF_vars(JoinReturns)

-----------------------------------------------------------------------------
(* Properties *)

(* Types of the pool's fields; next_ticket never passes the limit at      *)
(* which try_submit refuses (line 389).                                   *)
TypeOK ==
    /\ queue \in Seq(QueuedJob)
    /\ DOMAIN completed \subseteq Nat
    /\ \A t \in DOMAIN completed : completed[t] \in Statuses
    /\ next_ticket \in 1..TicketLimit
    /\ next_delivery \in 1..next_ticket
    /\ {settled, unsettled, running, initialized, available} \subseteq Nat
    /\ stopping \in BOOLEAN
    /\ generation \in Nat \ {0}
    /\ wpc \in [Workers -> {"absent", "starting", "ready", "asleep",
                            "executing", "returned", "exited"}]
    /\ item \in [Workers -> QueuedJob]
    /\ result \in [Workers -> Statuses]
    /\ client \in {"constructing", "idle", "joining"}

(* Every accepted, undelivered ticket is in exactly one place: queued     *)
(* (in ticket order), held by exactly one worker, or settled.  No result  *)
(* exists for any other ticket, so none is lost, run twice or delivered   *)
(* twice ("exactly one settled result per accepted ticket").              *)
TicketsAccountedFor ==
    /\ next_delivery..(next_ticket - 1) = Queued \cup Running \cup DOMAIN completed
    /\ Queued \cap DOMAIN completed = {}
    /\ Running \cap DOMAIN completed = {}
    /\ \A i, j \in 1..Len(queue) : i < j => queue[i].ticket < queue[j].ticket
    /\ \A w \in Busy : \A i \in 1..Len(queue) :
          item[w].ticket < queue[i].ticket
    /\ \A v, w \in Busy : item[v].ticket = item[w].ticket => v = w

(* Pending, running and completed-but-undelivered work together stay      *)
(* within max_queued_jobs + worker_count (emulation_workers.hpp:148).     *)
BoundedBacklog ==
    MaxQueued # 0 =>
        /\ Len(queue) <= MaxQueued
        /\ Outstanding <= MaxQueued + Requested

(* A queued job always has a worker that is neither gone nor asleep and   *)
(* will come to the queue: no lost wake-up through notify_one, no job     *)
(* queued behind executors that all turn out unavailable, none left       *)
(* behind by shutdown.                                                    *)
NoStrandedJob ==
    queue # <<>> =>
        \E w \in Workers :
            wpc[w] \in {"starting", "ready", "executing", "returned"}

(* The counters wait_until_idle, idle() and stats() read agree with the   *)
(* tickets they count, through every cancel and shutdown; and once        *)
(* shutdown has returned, every accepted ticket has its result and no     *)
(* worker is left that could touch the pool or a job.                     *)
ShutdownSettlesEverything ==
    /\ running = Cardinality(Busy)
    /\ unsettled = Len(queue) + running
    /\ settled = delivered + Cardinality(DOMAIN completed)
    /\ (stopping /\ client = "idle") =>
          /\ Joined
          /\ next_delivery..(next_ticket - 1) = DOMAIN completed

(* A job whose generation was cancelled settles only as CANCELLED, also   *)
(* when its executor had already returned COMPLETED but had not yet taken *)
(* the lock (the completion-vs-cancel race, lines 282-289).               *)
CancelledNeverCompletes ==
    [][\A w \in Busy :
          (/\ item[w].ticket \in DOMAIN completed' \ DOMAIN completed
           /\ item[w].generation # generation)
            => completed'[item[w].ticket] = "CANCELLED"]_vars

(* Every accepted ticket is eventually settled, whatever the client does. *)
AcceptedTicketsSettle ==
    \A t \in 1..(TicketLimit - 1) :
        t < next_ticket ~> (t < next_delivery \/ t \in DOMAIN completed)

(* shutdown() and the destructor always return from their joins.          *)
ShutdownReturns == client = "joining" ~> client = "idle"

Doomed == {item[w].ticket : w \in {v \in Busy :
                                     item[v].generation # generation}}

Service == INSTANCE OrderedJobService
    WITH Capacity <- IF MaxQueued = 0 THEN 0 ELSE MaxQueued + Requested,
         accepted <- next_ticket - 1,
         taken <- next_delivery - 1,
         outcome <- completed,
         doomed <- Doomed,
         closed <- stopping

(* The pool implements the ordered job service its header describes.      *)
ImplementsService == Service!Spec
=============================================================================
