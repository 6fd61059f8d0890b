--------------------- MODULE EmulationWorkerPoolProofs ---------------------
(***************************************************************************)
(* Proofs about the worker pool, for any number of workers, any queue      *)
(* bound and any ticket limit.                                             *)
(***************************************************************************)
EXTENDS EmulationWorkerPool, FiniteSetTheorems, SequenceTheorems, TLAPS

PoolInv == TypeOK /\ TicketsAccountedFor

-----------------------------------------------------------------------------
(* Lemmas about the operators *)

(* Appending a job adds its ticket.                                       *)
LEMMA TicketsOfAppend ==
    ASSUME NEW q \in Seq(QueuedJob), NEW job \in QueuedJob
    PROVE  /\ TicketsOf(Append(q, job)) = TicketsOf(q) \cup {job.ticket}
           /\ Append(q, job) \in Seq(QueuedJob)
  BY DEF TicketsOf

(* Popping the head takes its ticket away, and the order makes it the     *)
(* smallest one.                                                          *)
LEMMA TicketsOfTail ==
    ASSUME NEW q \in Seq(QueuedJob), q # <<>>
    PROVE  /\ TicketsOf(q) = TicketsOf(Tail(q)) \cup {Head(q).ticket}
           /\ Head(q) \in QueuedJob
           /\ Tail(q) \in Seq(QueuedJob)
  <1>1. /\ Len(q) \in Nat \ {0}
        /\ Len(Tail(q)) = Len(q) - 1
        /\ \A i \in 1..Len(Tail(q)) : Tail(q)[i] = q[i + 1]
        /\ Head(q) = q[1]
        /\ Tail(q) \in Seq(QueuedJob)
    OBVIOUS
  <1>2. Head(q) \in QueuedJob
    BY <1>1
  <1>3. ASSUME NEW i \in 1..Len(q)
        PROVE  q[i].ticket \in TicketsOf(Tail(q)) \cup {Head(q).ticket}
    <2>1. CASE i = 1
      BY <1>1, <2>1
    <2>2. CASE i # 1
      <3>1. i - 1 \in 1..Len(Tail(q)) /\ Tail(q)[i - 1] = q[i]
        BY <1>1, <2>2
      <3> QED BY <3>1, Zenon DEF TicketsOf
    <2> QED BY <2>1, <2>2
  <1>4. TicketsOf(Tail(q)) \subseteq TicketsOf(q)
    BY <1>1 DEF TicketsOf
  <1>5. Head(q).ticket \in TicketsOf(q)
    BY <1>1 DEF TicketsOf
  <1> QED BY <1>1, <1>2, <1>3, <1>4, <1>5 DEF TicketsOf

(* Settling a finite set of tickets gives each of them a result.          *)
LEMMA SettleLocked ==
    ASSUME TypeOK,
           NEW tickets \in SUBSET Nat, IsFiniteSet(tickets),
           NEW status \in Statuses, NEW pending \in Nat,
           settle_locked(tickets, status, pending)
    PROVE  /\ DOMAIN completed' = DOMAIN completed \cup tickets
           /\ DOMAIN completed' \subseteq Nat
           /\ \A t \in DOMAIN completed' : completed'[t] \in Statuses
           /\ settled' \in Nat
           /\ unsettled' \in Nat
  <1>1. IsFiniteSet(tickets \ DOMAIN completed)
    BY FS_Subset
  <1>2. Cardinality(tickets \ DOMAIN completed) \in Nat
    BY <1>1, FS_CardinalityType
  <1>3. DOMAIN completed' = DOMAIN completed \cup tickets
    BY DEF settle_locked, Emplace
  <1>4. \A t \in DOMAIN completed' : completed'[t] \in Statuses
    BY DEF settle_locked, Emplace, TypeOK
  <1>5. settled' \in Nat /\ unsettled' \in Nat
    BY <1>2, SMTT(30) DEF settle_locked, TypeOK
  <1> QED BY <1>3, <1>4, <1>5, Zenon DEF TypeOK

(* The tickets in the queue are finitely many naturals.                   *)
LEMMA QueuedFinite ==
    ASSUME PoolInv
    PROVE  Queued \in SUBSET Nat /\ IsFiniteSet(Queued)
  <1>1. next_delivery \in Nat /\ next_ticket \in Nat
    BY PoolAssumption DEF PoolInv, TypeOK
  <1>2. Queued \subseteq next_delivery..(next_ticket - 1)
    BY DEF PoolInv, TicketsAccountedFor
  <1>3. IsFiniteSet(next_delivery..(next_ticket - 1))
    BY <1>1, FS_Interval
  <1>4. IsFiniteSet(Queued)
    BY <1>2, <1>3, FS_Subset, Zenon
  <1> QED BY <1>1, <1>2, <1>4

(* Draining moves every queued ticket to the results.                     *)
LEMMA DrainInv ==
    ASSUME PoolInv, NEW status \in Statuses, drain_queued_locked(status),
           Busy' = Busy,
           UNCHANGED <<next_ticket, next_delivery, item>>
    PROVE  /\ TicketsAccountedFor'
           /\ queue' \in Seq(QueuedJob)
           /\ DOMAIN completed' \subseteq Nat
           /\ \A t \in DOMAIN completed' : completed'[t] \in Statuses
           /\ settled' \in Nat
           /\ unsettled' \in Nat
  <1>1. queue' = <<>> /\ settle_locked(Queued, status, unsettled)
    BY DEF drain_queued_locked
  <1>2. unsettled \in Nat /\ TypeOK
    BY DEF PoolInv, TypeOK
  <1>3. /\ DOMAIN completed' = DOMAIN completed \cup Queued
        /\ DOMAIN completed' \subseteq Nat
        /\ \A t \in DOMAIN completed' : completed'[t] \in Statuses
        /\ settled' \in Nat
        /\ unsettled' \in Nat
    BY <1>1, <1>2, QueuedFinite, SettleLocked, Zenon
  <1>4. Queued' = {}
    BY <1>1 DEF Queued, TicketsOf
  <1>5. Running' = Running
    BY DEF Running
  <1>6. Running \cap Queued = {}
    <2> SUFFICES ASSUME NEW w \in Busy, NEW i \in 1..Len(queue),
                        item[w].ticket = queue[i].ticket
                 PROVE  FALSE
      BY DEF Running, Queued, TicketsOf
    <2>1. queue[i].ticket \in Nat
      BY QueuedFinite DEF Queued, TicketsOf
    <2>2. item[w].ticket < queue[i].ticket
      BY DEF PoolInv, TicketsAccountedFor
    <2> QED BY <2>1, <2>2
  <1>7. TicketsAccountedFor'
    <2>1. /\ (next_delivery..(next_ticket - 1))' = (Queued \cup Running \cup DOMAIN completed)'
          /\ (Queued \cap DOMAIN completed)' = {}
          /\ (Running \cap DOMAIN completed)' = {}
      BY <1>3, <1>4, <1>5, <1>6 DEF PoolInv, TicketsAccountedFor
    <2>2. Len(queue') = 0
      BY <1>1
    <2>3. \A v, w \in Busy' : item'[v].ticket = item'[w].ticket => v = w
      BY DEF PoolInv, TicketsAccountedFor
    <2> QED BY <2>1, <2>2, <2>3 DEF TicketsAccountedFor
  <1> QED BY <1>1, <1>3, <1>7

-----------------------------------------------------------------------------
(* The invariant holds initially.                                         *)
LEMMA InitInv == Init => PoolInv
  <1> SUFFICES ASSUME Init PROVE PoolInv
    OBVIOUS
  <1>1. TypeOK
    <2>1. DOMAIN completed = {}
      BY DEF Init
    <2>2. wpc \in [Workers -> {"absent", "starting", "ready", "asleep",
                               "executing", "returned", "exited"}]
      BY DEF Init
    <2>3. item \in [Workers -> QueuedJob] /\ result \in [Workers -> Statuses]
      BY DEF Init, QueuedJob, NoJob, Statuses
    <2>4. stopping \in BOOLEAN /\ client \in {"constructing", "idle", "joining"}
      BY Zenon DEF Init
    <2>5. /\ queue \in Seq(QueuedJob)
          /\ next_ticket \in 1..TicketLimit
          /\ next_delivery \in 1..next_ticket
          /\ {settled, unsettled, running, initialized, available} \subseteq Nat
          /\ generation \in Nat \ {0}
      BY PoolAssumption DEF Init
    <2> QED BY <2>1, <2>2, <2>3, <2>4, <2>5, Zenon DEF TypeOK
  <1>2. Busy = {} /\ Queued = {} /\ DOMAIN completed = {}
    BY DEF Init, Busy, Queued, TicketsOf
  <1>3. Running = {}
    BY <1>2 DEF Running
  <1>4. TicketsAccountedFor
    BY <1>2, <1>3 DEF Init, TicketsAccountedFor
  <1> QED BY <1>1, <1>4 DEF PoolInv

-----------------------------------------------------------------------------
(* Each step preserves the invariant *)

Places == {"absent", "starting", "ready", "asleep", "executing", "returned",
           "exited"}

(* A notification moves sleepers only: nobody becomes busy or idle.       *)
LEMMA NotifyAll ==
    ASSUME wpc \in [Workers -> Places]
    PROVE  /\ notify_all(wpc) \in [Workers -> Places]
           /\ \A w \in Workers :
                 /\ notify_all(wpc)[w] = "executing" <=> wpc[w] = "executing"
                 /\ notify_all(wpc)[w] = "returned" <=> wpc[w] = "returned"
  BY DEF notify_all, Places

(* A step that moves no ticket.                                           *)
LEMMA NoTicketMoves ==
    ASSUME TicketsAccountedFor, Busy' = Busy,
           UNCHANGED <<queue, completed, next_ticket, next_delivery, item>>
    PROVE  TicketsAccountedFor'
  BY DEF TicketsAccountedFor, Queued, Running

(* A worker that reports its engine, ready or not, keeps the invariant.   *)
LEMMA WorkerInitializeInv ==
    ASSUME PoolInv, NEW w \in Workers, WorkerInitialize(w)
    PROVE  PoolInv'
  <1>0. wpc \in [Workers -> Places] /\ TypeOK /\ TicketsAccountedFor
    BY DEF PoolInv, TypeOK, Places
  <1>1. PICK usable \in BOOLEAN :
          /\ initialized' = initialized + 1
          /\ available' = available + (IF usable THEN 1 ELSE 0)
          /\ IF NoExecutor(initialized', available')
             THEN drain_queued_locked("UNAVAILABLE")
             ELSE UNCHANGED <<queue, completed, settled, unsettled>>
          /\ wpc' = [notify_all(wpc) EXCEPT
                       ![w] = IF usable THEN "ready" ELSE "exited"]
    BY Zenon DEF WorkerInitialize
  <1>2. /\ wpc[w] = "starting"
        /\ UNCHANGED <<next_ticket, next_delivery, running, stopping,
                       generation, item, result, client>>
    BY DEF WorkerInitialize
  <1>3. wpc' \in [Workers -> Places]
    BY <1>0, <1>1, NotifyAll DEF Places
  <1>4. Busy' = Busy
    BY <1>0, <1>1, <1>2, NotifyAll DEF Busy
  <1>5. initialized' \in Nat /\ available' \in Nat
    BY <1>0, <1>1 DEF TypeOK
  <1>6. /\ TicketsAccountedFor'
        /\ queue' \in Seq(QueuedJob)
        /\ DOMAIN completed' \subseteq Nat
        /\ \A t \in DOMAIN completed' : completed'[t] \in Statuses
        /\ settled' \in Nat
        /\ unsettled' \in Nat
    <2>1. CASE NoExecutor(initialized', available')
      BY <1>1, <1>2, <1>4, <2>1, DrainInv DEF Statuses
    <2>2. CASE ~NoExecutor(initialized', available')
      BY <1>0, <1>1, <1>2, <1>4, <2>2, NoTicketMoves DEF TypeOK
    <2> QED BY <2>1, <2>2
  <1>7. TypeOK'
    BY <1>0, <1>2, <1>3, <1>5, <1>6 DEF TypeOK, Places
  <1> QED BY <1>6, <1>7 DEF PoolInv

(* Waking, sleeping and exiting move no ticket.                           *)
LEMMA WorkerMovesInv ==
    ASSUME PoolInv, NEW w \in Workers,
           WorkerWait(w) \/ SpuriousWakeup(w) \/ WorkerExit(w)
    PROVE  PoolInv'
  <1>0. TypeOK /\ TicketsAccountedFor
    BY DEF PoolInv
  <1>1. UNCHANGED <<queue, completed, next_ticket, next_delivery, settled,
                    unsettled, running, initialized, available, stopping,
                    generation, item, result, client>>
    BY DEF WorkerWait, SpuriousWakeup, WorkerExit
  <1>2. \E s \in {"asleep", "ready", "exited"} :
          wpc' = [wpc EXCEPT ![w] = s] /\ wpc[w] \in {"ready", "asleep"}
    BY DEF WorkerWait, SpuriousWakeup, WorkerExit
  <1>3. Busy' = Busy
    BY <1>0, <1>2 DEF Busy, TypeOK
  <1>4. wpc' \in [Workers -> Places]
    BY <1>0, <1>2 DEF TypeOK, Places
  <1>5. TicketsAccountedFor'
    BY <1>0, <1>1, <1>3, NoTicketMoves
  <1>6. TypeOK'
    BY <1>0, <1>1, <1>4 DEF TypeOK, Places
  <1> QED BY <1>5, <1>6 DEF PoolInv

(* Popping the queue's front hands its ticket to the worker.              *)
LEMMA WorkerTakeInv ==
    ASSUME PoolInv, NEW w \in Workers, WorkerTake(w)
    PROVE  PoolInv'
  <1>0. wpc \in [Workers -> Places] /\ TypeOK /\ TicketsAccountedFor
    BY DEF PoolInv, TypeOK, Places
  <1>1. /\ wpc[w] = "ready"
        /\ queue # <<>>
        /\ item' = [item EXCEPT ![w] = Head(queue)]
        /\ queue' = Tail(queue)
        /\ running' = running + 1
        /\ wpc' = [notify_all(wpc) EXCEPT ![w] = "executing"]
        /\ UNCHANGED <<completed, next_ticket, next_delivery, settled,
                       unsettled, initialized, available, stopping,
                       generation, result, client>>
    BY DEF WorkerTake
  <1>2. wpc' \in [Workers -> Places]
    BY <1>0, <1>1, NotifyAll DEF Places
  <1>3. Busy' = Busy \cup {w} /\ w \notin Busy
    BY <1>0, <1>1, NotifyAll DEF Busy
  <1>4. /\ queue \in Seq(QueuedJob)
        /\ Queued = Queued' \cup {Head(queue).ticket}
        /\ Head(queue) \in QueuedJob
        /\ queue' \in Seq(QueuedJob)
    BY <1>0, <1>1, TicketsOfTail DEF TypeOK, Queued
  <1>5. /\ \A v \in Busy : item'[v] = item[v]
        /\ item'[w] = Head(queue)
        /\ item' \in [Workers -> QueuedJob]
    BY <1>0, <1>1, <1>3, <1>4 DEF TypeOK, Busy
  <1>6. Running' = Running \cup {Head(queue).ticket}
    BY <1>3, <1>5 DEF Running
  <1>7. /\ Len(queue') = Len(queue) - 1
        /\ Len(queue) \in Nat \ {0}
        /\ Head(queue) = queue[1]
        /\ \A i \in 1..Len(queue') : queue'[i] = queue[i + 1]
    BY <1>1, <1>4
  <1>8. \A i \in 1..Len(queue') : Head(queue).ticket < queue'[i].ticket
    BY <1>0, <1>7 DEF TicketsAccountedFor
  <1>9. \A v \in Busy : item[v].ticket < Head(queue).ticket
    BY <1>0, <1>7 DEF TicketsAccountedFor
  <1>10. TicketsAccountedFor'
    <2>1. /\ (next_delivery..(next_ticket - 1))' = (Queued \cup Running \cup DOMAIN completed)'
          /\ (Queued \cap DOMAIN completed)' = {}
          /\ (Running \cap DOMAIN completed)' = {}
      BY <1>0, <1>1, <1>4, <1>6 DEF TicketsAccountedFor
    <2>2. \A i, j \in 1..Len(queue') : i < j => queue'[i].ticket < queue'[j].ticket
      BY <1>0, <1>7 DEF TicketsAccountedFor
    <2>3. \A v \in Busy' : \A i \in 1..Len(queue') : item'[v].ticket < queue'[i].ticket
      BY <1>0, <1>3, <1>5, <1>7, <1>8 DEF TicketsAccountedFor
    <2>4. \A u, v \in Busy' : item'[u].ticket = item'[v].ticket => u = v
      <3>1. Head(queue).ticket \in Nat /\ \A v \in Busy : item[v].ticket \in Nat
        BY <1>0, <1>4 DEF QueuedJob, TypeOK, Busy
      <3>2. \A v \in Busy : item[v].ticket # Head(queue).ticket
        BY <1>9, <3>1
      <3> QED BY <1>0, <1>3, <1>5, <3>2 DEF TicketsAccountedFor
    <2> QED BY <2>1, <2>2, <2>3, <2>4 DEF TicketsAccountedFor
  <1>11. TypeOK'
    BY <1>0, <1>1, <1>2, <1>4, <1>5 DEF TypeOK, Places
  <1> QED BY <1>10, <1>11 DEF PoolInv

(* The end of execute changes the worker's state only.                    *)
LEMMA WorkerReturnInv ==
    ASSUME PoolInv, NEW w \in Workers, WorkerReturn(w)
    PROVE  PoolInv'
  <1>0. TypeOK /\ TicketsAccountedFor
    BY DEF PoolInv
  <1>1. /\ wpc[w] = "executing"
        /\ wpc' = [wpc EXCEPT ![w] = "returned"]
        /\ UNCHANGED <<queue, completed, next_ticket, next_delivery, settled,
                       unsettled, running, initialized, available, stopping,
                       generation, item, client>>
    BY DEF WorkerReturn
  <1>2. result' \in [Workers -> Statuses]
    BY <1>0 DEF WorkerReturn, ExecuteOutcomes, Statuses, TypeOK
  <1>3. Busy' = Busy
    BY <1>0, <1>1 DEF Busy, TypeOK
  <1>4. wpc' \in [Workers -> Places]
    BY <1>0, <1>1 DEF TypeOK, Places
  <1>5. TicketsAccountedFor'
    BY <1>0, <1>1, <1>3, NoTicketMoves
  <1>6. TypeOK'
    BY <1>0, <1>1, <1>2, <1>4 DEF TypeOK, Places
  <1> QED BY <1>5, <1>6 DEF PoolInv

(* Settling hands the ticket from the worker to the results.              *)
LEMMA WorkerSettleInv ==
    ASSUME PoolInv, NEW w \in Workers, WorkerSettle(w)
    PROVE  PoolInv'
  <1>0. wpc \in [Workers -> Places] /\ TypeOK /\ TicketsAccountedFor
    BY DEF PoolInv, TypeOK, Places
  <1>1. /\ wpc[w] = "returned"
        /\ running' = IF running # 0 THEN running - 1 ELSE 0
        /\ settle_locked({item[w].ticket}, SettledStatus(w), unsettled)
        /\ wpc' = [notify_all(wpc) EXCEPT ![w] = "ready"]
        /\ item' = [item EXCEPT ![w] = NoJob]
        /\ result' = [result EXCEPT ![w] = "FAILED"]
        /\ UNCHANGED <<queue, next_ticket, next_delivery, initialized,
                       available, stopping, generation, client>>
    BY DEF WorkerSettle
  <1>2. wpc' \in [Workers -> Places]
    BY <1>0, <1>1, NotifyAll DEF Places
  <1>3. Busy' = Busy \ {w} /\ w \in Busy
    BY <1>0, <1>1, NotifyAll DEF Busy
  <1>4. item[w].ticket \in Nat /\ unsettled \in Nat /\ SettledStatus(w) \in Statuses
    BY <1>0 DEF TypeOK, QueuedJob, SettledStatus, Statuses
  <1>5. IsFiniteSet({item[w].ticket}) /\ {item[w].ticket} \in SUBSET Nat
    BY <1>4, FS_Singleton, Zenon
  <1>6. /\ DOMAIN completed' = DOMAIN completed \cup {item[w].ticket}
        /\ DOMAIN completed' \subseteq Nat
        /\ \A t \in DOMAIN completed' : completed'[t] \in Statuses
        /\ settled' \in Nat
        /\ unsettled' \in Nat
    BY <1>0, <1>1, <1>4, <1>5, SettleLocked, Zenon
  <1>7. /\ item' \in [Workers -> QueuedJob]
        /\ \A v \in Busy' : item'[v] = item[v]
        /\ result' \in [Workers -> Statuses]
    BY <1>0, <1>1, <1>3 DEF TypeOK, QueuedJob, NoJob, Statuses, Busy
  <1>8. Running' = Running \ {item[w].ticket}
    <2>1. \A v \in Busy \ {w} : item[v].ticket # item[w].ticket
      BY <1>0, <1>3 DEF TicketsAccountedFor
    <2> QED BY <1>3, <1>7, <2>1 DEF Running
  <1>9. item[w].ticket \in Running /\ item[w].ticket \notin Queued
    <2>1. \A i \in 1..Len(queue) : queue[i].ticket \in Nat
      <3>1. queue \in Seq(QueuedJob)
        BY <1>0 DEF TypeOK
      <3>2. \A i \in 1..Len(queue) : queue[i] \in QueuedJob
        BY <3>1
      <3> QED BY <3>2 DEF QueuedJob
    <2>2. \A i \in 1..Len(queue) : item[w].ticket < queue[i].ticket
      BY <1>0, <1>3 DEF TicketsAccountedFor
    <2> QED BY <1>3, <1>4, <2>1, <2>2 DEF Running, Queued, TicketsOf
  <1>10. TicketsAccountedFor'
    <2>1. Queued' = Queued
      BY <1>1 DEF Queued
    <2>2. /\ (next_delivery..(next_ticket - 1))' = (Queued \cup Running \cup DOMAIN completed)'
          /\ (Queued \cap DOMAIN completed)' = {}
          /\ (Running \cap DOMAIN completed)' = {}
      BY <1>0, <1>1, <1>6, <1>8, <1>9, <2>1 DEF TicketsAccountedFor
    <2>3. \A i, j \in 1..Len(queue') : i < j => queue'[i].ticket < queue'[j].ticket
      BY <1>0, <1>1 DEF TicketsAccountedFor
    <2>4. /\ \A v \in Busy' : \A i \in 1..Len(queue') : item'[v].ticket < queue'[i].ticket
          /\ \A u, v \in Busy' : item'[u].ticket = item'[v].ticket => u = v
      BY <1>0, <1>1, <1>3, <1>7 DEF TicketsAccountedFor
    <2> QED BY <2>2, <2>3, <2>4 DEF TicketsAccountedFor
  <1>11. running' \in Nat
    BY <1>0, <1>1 DEF TypeOK
  <1>12. TypeOK'
    BY <1>0, <1>1, <1>2, <1>6, <1>7, <1>11 DEF TypeOK, Places
  <1> QED BY <1>10, <1>12 DEF PoolInv

(* The constructor's return, with or without ready workers.               *)
LEMMA FinishConstructionInv ==
    ASSUME PoolInv, FinishConstruction
    PROVE  PoolInv'
  <1> DEFINE missing == {w \in Workers : wpc[w] = "absent"}
  <1>0. wpc \in [Workers -> Places] /\ TypeOK /\ TicketsAccountedFor
    BY DEF PoolInv, TypeOK, Places
  <1>1. /\ client' = "idle"
        /\ initialized' = initialized + Cardinality(missing)
        /\ IF missing = Workers
           THEN drain_queued_locked("UNAVAILABLE")
           ELSE UNCHANGED <<queue, completed, settled, unsettled>>
        /\ wpc' = IF missing # {} THEN notify_all(wpc) ELSE wpc
        /\ UNCHANGED <<next_ticket, next_delivery, running, available,
                       stopping, generation, item, result>>
    BY DEF FinishConstruction
  <1>2. Cardinality(missing) \in Nat
    <2>1. IsFiniteSet(missing)
      <3>1. missing \in SUBSET Workers
        OBVIOUS
      <3> QED BY <3>1, PoolAssumption, FS_Subset
    <2> QED BY <2>1, FS_CardinalityType
  <1>3. initialized' \in Nat
    BY <1>0, <1>1, <1>2 DEF TypeOK
  <1>4. wpc' \in [Workers -> Places] /\ Busy' = Busy
    BY <1>0, <1>1, NotifyAll DEF Busy
  <1>5. /\ TicketsAccountedFor'
        /\ queue' \in Seq(QueuedJob)
        /\ DOMAIN completed' \subseteq Nat
        /\ \A t \in DOMAIN completed' : completed'[t] \in Statuses
        /\ settled' \in Nat
        /\ unsettled' \in Nat
    <2>1. CASE missing = Workers
      BY <1>1, <1>4, <2>1, DrainInv DEF Statuses
    <2>2. CASE missing # Workers
      BY <1>0, <1>1, <1>4, <2>2, NoTicketMoves, SMTT(30) DEF TypeOK
    <2> QED BY <2>1, <2>2
  <1>6. TypeOK'
    BY <1>0, <1>1, <1>3, <1>4, <1>5, SMTT(30) DEF TypeOK, Places
  <1> QED BY <1>5, <1>6 DEF PoolInv

(* cancel_pending and shutdown settle what is queued.                     *)
LEMMA CancelInv ==
    ASSUME PoolInv, CancelPending \/ Shutdown
    PROVE  PoolInv'
  <1>0. wpc \in [Workers -> Places] /\ TypeOK /\ TicketsAccountedFor
    BY DEF PoolInv, TypeOK, Places
  <1>1. /\ wpc' = notify_all(wpc)
        /\ UNCHANGED <<next_ticket, next_delivery, running, initialized,
                       available, item, result>>
        /\ \/ drain_queued_locked("CANCELLED")
           \/ UNCHANGED <<queue, completed, settled, unsettled>>
    BY DEF CancelPending, Shutdown
  <1>2. generation' \in Nat \ {0} /\ client' \in {"constructing", "idle", "joining"}
    BY <1>0, SMTT(30) DEF CancelPending, Shutdown, TypeOK
  <1>3. stopping' \in BOOLEAN
    BY <1>0, Zenon DEF CancelPending, Shutdown, TypeOK
  <1>4. wpc' \in [Workers -> Places] /\ Busy' = Busy
    BY <1>0, <1>1, NotifyAll DEF Busy
  <1>5. /\ TicketsAccountedFor'
        /\ queue' \in Seq(QueuedJob)
        /\ DOMAIN completed' \subseteq Nat
        /\ \A t \in DOMAIN completed' : completed'[t] \in Statuses
        /\ settled' \in Nat
        /\ unsettled' \in Nat
    <2>1. CASE drain_queued_locked("CANCELLED")
      BY <1>1, <1>4, <2>1, DrainInv DEF Statuses
    <2>2. CASE UNCHANGED <<queue, completed, settled, unsettled>>
      BY <1>0, <1>1, <1>4, <2>2, NoTicketMoves, SMTT(30) DEF TypeOK
    <2> QED BY <1>1, <2>1, <2>2
  <1>6. TypeOK'
    BY <1>0, <1>1, <1>2, <1>3, <1>4, <1>5 DEF TypeOK, Places
  <1> QED BY <1>5, <1>6 DEF PoolInv

(* An accepted job gets the next ticket and the queue's last place.       *)
LEMMA TrySubmitInv ==
    ASSUME PoolInv, TrySubmit
    PROVE  PoolInv'
  <1> DEFINE job == [ticket |-> next_ticket, generation |-> generation]
  <1>0. wpc \in [Workers -> Places] /\ TypeOK /\ TicketsAccountedFor
    BY DEF PoolInv, TypeOK, Places
  <1>1. /\ next_ticket' = next_ticket + 1
        /\ next_ticket # TicketLimit
        /\ UNCHANGED <<next_delivery, running, initialized, available,
                       stopping, generation, item, result, client>>
    BY DEF TrySubmit, Accepts
  <1>2. /\ next_ticket \in Nat /\ next_delivery \in Nat /\ unsettled \in Nat
        /\ next_ticket' \in 1..TicketLimit
        /\ next_delivery' \in 1..next_ticket'
        /\ next_delivery <= next_ticket
    BY <1>0, <1>1, PoolAssumption, SMTT(30) DEF TypeOK
  <1>3. (next_delivery..(next_ticket - 1))' =
           (next_delivery..(next_ticket - 1)) \cup {next_ticket}
    BY <1>1, <1>2
  <1>4. wpc' \in [Workers -> Places] /\ Busy' = Busy
    BY <1>0, NotifyAll DEF TrySubmit, notify_one, Busy, Places
  <1>5. Running' = Running
    BY <1>1, <1>4 DEF Running
  <1>6. /\ \A i \in 1..Len(queue) : queue[i].ticket < next_ticket
        /\ \A v \in Busy : item[v].ticket < next_ticket
        /\ next_ticket \notin Queued \cup Running \cup DOMAIN completed
    <2>1. \A t \in Queued \cup Running \cup DOMAIN completed : t < next_ticket
      BY <1>0, <1>2 DEF TicketsAccountedFor
    <2>2. next_ticket \notin Queued \cup Running \cup DOMAIN completed
      BY <1>2, <2>1
    <2>3. \A i \in 1..Len(queue) : queue[i].ticket \in Queued
      BY DEF Queued, TicketsOf
    <2>4. \A v \in Busy : item[v].ticket \in Running
      BY DEF Running
    <2> QED BY <2>1, <2>2, <2>3, <2>4
  <1>7. CASE /\ settle_locked({next_ticket}, "UNAVAILABLE", unsettled + 1)
             /\ UNCHANGED queue
    <2>1. IsFiniteSet({next_ticket}) /\ {next_ticket} \in SUBSET Nat
      BY <1>2, FS_Singleton, Zenon
    <2>2. unsettled + 1 \in Nat /\ "UNAVAILABLE" \in Statuses
      BY <1>2 DEF Statuses
    <2>3. /\ DOMAIN completed' = DOMAIN completed \cup {next_ticket}
          /\ DOMAIN completed' \subseteq Nat
          /\ \A t \in DOMAIN completed' : completed'[t] \in Statuses
          /\ settled' \in Nat
          /\ unsettled' \in Nat
      BY <1>0, <1>7, <2>1, <2>2, SettleLocked, Zenon
    <2>4. TicketsAccountedFor'
      <3>1. Queued' = Queued
        BY <1>7 DEF Queued
      <3>2. /\ (next_delivery..(next_ticket - 1))' = (Queued \cup Running \cup DOMAIN completed)'
            /\ (Queued \cap DOMAIN completed)' = {}
            /\ (Running \cap DOMAIN completed)' = {}
        BY <1>0, <1>3, <1>5, <1>6, <2>3, <3>1, SMTT(30) DEF TicketsAccountedFor
      <3> QED BY <1>0, <1>1, <1>4, <1>7, <3>2 DEF TicketsAccountedFor
    <2>5. TypeOK'
      BY <1>0, <1>1, <1>2, <1>4, <1>7, <2>3 DEF TypeOK, Places
    <2> QED BY <2>4, <2>5 DEF PoolInv
  <1>8. CASE /\ queue' = Append(queue, job)
             /\ unsettled' = unsettled + 1
             /\ UNCHANGED <<completed, settled>>
    <2>1. job \in QueuedJob /\ queue \in Seq(QueuedJob)
      BY <1>0, <1>2 DEF TypeOK, QueuedJob
    <2>2. Queued' = Queued \cup {next_ticket} /\ queue' \in Seq(QueuedJob)
      BY <1>8, <2>1, TicketsOfAppend DEF Queued
    <2>3. /\ Len(queue') = Len(queue) + 1
          /\ Len(queue) \in Nat
          /\ \A i \in 1..Len(queue) : queue'[i] = queue[i]
          /\ queue'[Len(queue) + 1] = job
      BY <1>8, <2>1
    <2>4. TicketsAccountedFor'
      <3>1. /\ (next_delivery..(next_ticket - 1))' = (Queued \cup Running \cup DOMAIN completed)'
            /\ (Queued \cap DOMAIN completed)' = {}
            /\ (Running \cap DOMAIN completed)' = {}
        BY <1>0, <1>3, <1>5, <1>6, <1>8, <2>2 DEF TicketsAccountedFor
      <3>2. \A i, j \in 1..Len(queue') : i < j => queue'[i].ticket < queue'[j].ticket
        <4>1. ASSUME NEW i \in 1..Len(queue'), NEW j \in 1..Len(queue'), i < j
              PROVE  queue'[i].ticket < queue'[j].ticket
          <5>1. i \in 1..Len(queue) /\ queue'[i] = queue[i]
            BY <2>3, <4>1
          <5>2. CASE j \in 1..Len(queue)
            BY <1>0, <2>3, <4>1, <5>1, <5>2 DEF TicketsAccountedFor
          <5>3. CASE j = Len(queue) + 1
            BY <1>6, <2>3, <5>1, <5>3
          <5> QED BY <2>3, <5>2, <5>3
        <4> QED BY <4>1
      <3>3. \A v \in Busy' : \A i \in 1..Len(queue') : item'[v].ticket < queue'[i].ticket
        BY <1>0, <1>1, <1>4, <1>6, <2>3 DEF TicketsAccountedFor
      <3>4. \A u, v \in Busy' : item'[u].ticket = item'[v].ticket => u = v
        BY <1>0, <1>1, <1>4 DEF TicketsAccountedFor
      <3> QED BY <3>1, <3>2, <3>3, <3>4 DEF TicketsAccountedFor
    <2>5. TypeOK'
      BY <1>0, <1>1, <1>2, <1>4, <1>8, <2>2 DEF TypeOK, Places
    <2> QED BY <2>4, <2>5 DEF PoolInv
  <1> QED BY <1>7, <1>8 DEF TrySubmit

(* A delivery takes the results from the cursor on.                       *)
LEMMA DeliverInv ==
    ASSUME PoolInv, NEW n \in Nat \ {0},
           next_delivery..(next_delivery + n - 1) \subseteq DOMAIN completed,
           Deliver(n)
    PROVE  PoolInv'
  <1> DEFINE last == next_delivery + n - 1
  <1>0. wpc \in [Workers -> Places] /\ TypeOK /\ TicketsAccountedFor
    BY DEF PoolInv, TypeOK, Places
  <1>1. /\ completed' = [t \in DOMAIN completed \ (next_delivery..last) |-> completed[t]]
        /\ next_delivery' = next_delivery + n
        /\ wpc' = notify_all(wpc)
        /\ UNCHANGED <<queue, next_ticket, settled, unsettled, running,
                       initialized, available, stopping, generation, item,
                       result, client>>
    BY DEF Deliver
  <1>2. /\ next_delivery \in Nat \ {0} /\ next_ticket \in Nat
        /\ last \in next_delivery..last
    BY <1>0, PoolAssumption, SMTT(30) DEF TypeOK
  <1>3. last \in next_delivery..(next_ticket - 1)
    BY <1>0, <1>2 DEF TicketsAccountedFor
  <1>4. next_delivery' \in 1..next_ticket
    BY <1>1, <1>2, <1>3
  <1>5. wpc' \in [Workers -> Places] /\ Busy' = Busy
    BY <1>0, <1>1, NotifyAll DEF Busy
  <1>6. Running' = Running /\ Queued' = Queued
    BY <1>1, <1>5 DEF Running, Queued
  <1>7. /\ DOMAIN completed' = DOMAIN completed \ (next_delivery..last)
        /\ \A t \in DOMAIN completed' : completed'[t] \in Statuses
    BY <1>0, <1>1 DEF TypeOK
  <1>8. (next_delivery..(next_ticket - 1))' =
           (next_delivery..(next_ticket - 1)) \ (next_delivery..last)
    BY <1>1, <1>2, <1>3, SMTT(30)
  <1>9. TicketsAccountedFor'
    <2>1. /\ (next_delivery..(next_ticket - 1))' = (Queued \cup Running \cup DOMAIN completed)'
          /\ (Queued \cap DOMAIN completed)' = {}
          /\ (Running \cap DOMAIN completed)' = {}
      BY <1>0, <1>6, <1>7, <1>8 DEF TicketsAccountedFor
    <2> QED BY <1>0, <1>1, <1>5, <2>1 DEF TicketsAccountedFor
  <1>10. TypeOK'
    BY <1>0, <1>1, <1>4, <1>5, <1>7 DEF TypeOK, Places
  <1> QED BY <1>9, <1>10 DEF PoolInv

(* The invariant is inductive.                                            *)
LEMMA NextInv == PoolInv /\ [Next]_vars => PoolInv'
  <1> SUFFICES ASSUME PoolInv, [Next]_vars PROVE PoolInv'
    OBVIOUS
  <1>0. TypeOK /\ TicketsAccountedFor
    BY DEF PoolInv
  <1>1. ASSUME NEW w \in Workers, WorkerStep(w) \/ SpuriousWakeup(w)
        PROVE  PoolInv'
    BY <1>1, WorkerInitializeInv, WorkerMovesInv, WorkerTakeInv,
       WorkerReturnInv, WorkerSettleInv DEF WorkerStep
  <1>2. CASE FinishConstruction
    BY <1>2, FinishConstructionInv
  <1>3. CASE TrySubmit
    BY <1>3, TrySubmitInv
  <1>4. CASE TakeNext
    <2>1. next_delivery..(next_delivery + 1 - 1) \subseteq DOMAIN completed
      BY <1>0, <1>4, PoolAssumption DEF TakeNext, TypeOK
    <2> QED BY <1>4, <2>1, DeliverInv DEF TakeNext
  <1>5. ASSUME NEW maximum \in 0..2, TakeReady(maximum)
        PROVE  PoolInv'
    <2>1. Outstanding \in Nat
      BY <1>0, PoolAssumption DEF Outstanding, TypeOK
    <2>2. PICK n \in 1..Outstanding :
             /\ next_delivery..(next_delivery + n - 1) \subseteq DOMAIN completed
             /\ Deliver(n)
      BY <1>5 DEF TakeReady
    <2> QED BY <2>1, <2>2, DeliverInv
  <1>6. CASE CancelPending \/ Shutdown
    BY <1>6, CancelInv
  <1>7. CASE JoinReturns \/ UNCHANGED vars
    <2>1. UNCHANGED <<queue, completed, next_ticket, next_delivery, settled,
                      unsettled, running, initialized, available, stopping,
                      generation, wpc, item, result>>
          /\ client' \in {"constructing", "idle", "joining"}
      BY <1>0, <1>7 DEF JoinReturns, vars, TypeOK
    <2>2. Busy' = Busy
      BY <2>1 DEF Busy
    <2>3. TicketsAccountedFor'
      BY <1>0, <2>1, <2>2, NoTicketMoves
    <2>4. TypeOK'
      BY <1>0, <2>1 DEF TypeOK
    <2> QED BY <2>3, <2>4 DEF PoolInv
  <1> QED BY <1>1, <1>2, <1>3, <1>4, <1>5, <1>6, <1>7 DEF Next

-----------------------------------------------------------------------------
(* The theorems *)

(* The invariant holds in every reachable state.                          *)
LEMMA PoolInvariant == Spec => []PoolInv
  BY InitInv, NextInv, PTL DEF Spec

(* Every field of the pool keeps its type, and next_ticket never passes   *)
(* the limit, for every number of workers, queue bound and ticket limit.  *)
THEOREM PoolTypeCorrect == Spec => []TypeOK
  <1>1. PoolInv => TypeOK
    BY DEF PoolInv
  <1> QED BY <1>1, PoolInvariant, PTL

(* Every accepted, undelivered ticket is queued, held by one worker, or   *)
(* settled, and in exactly one of these places.                           *)
THEOREM EveryTicketAccountedFor == Spec => []TicketsAccountedFor
  <1>1. PoolInv => TicketsAccountedFor
    BY DEF PoolInv
  <1> QED BY <1>1, PoolInvariant, PTL

(* Only taking a job and settling one change who is busy.                 *)
LEMMA BusyUnchanged ==
    ASSUME PoolInv, [Next]_vars,
           ~ \E w \in Workers : WorkerTake(w) \/ WorkerSettle(w)
    PROVE  Busy' = Busy
  <1>0. wpc \in [Workers -> Places]
    BY DEF PoolInv, TypeOK, Places
  <1>1. ASSUME NEW w \in Workers, WorkerInitialize(w)
        PROVE  Busy' = Busy
    BY <1>0, <1>1, NotifyAll DEF WorkerInitialize, Busy
  <1>2. ASSUME NEW w \in Workers,
               WorkerWait(w) \/ SpuriousWakeup(w) \/ WorkerExit(w) \/ WorkerReturn(w)
        PROVE  Busy' = Busy
    BY <1>0, <1>2 DEF WorkerWait, SpuriousWakeup, WorkerExit, WorkerReturn, Busy
  <1>3. CASE \/ FinishConstruction \/ CancelPending \/ Shutdown \/ TrySubmit
             \/ TakeNext \/ \E maximum \in 0..2 : TakeReady(maximum)
    <2>1. \/ wpc' = wpc \/ wpc' = notify_all(wpc)
          \/ \E w \in Workers : wpc[w] = "asleep" /\ wpc' = [wpc EXCEPT ![w] = "ready"]
      BY <1>3, Zenon DEF FinishConstruction, CancelPending, Shutdown, TrySubmit,
                  notify_one, TakeNext, TakeReady, Deliver
    <2> QED BY <1>0, <2>1, NotifyAll DEF Busy
  <1>4. CASE JoinReturns \/ UNCHANGED vars
    BY <1>4 DEF JoinReturns, vars, Busy
  <1> QED BY <1>1, <1>2, <1>3, <1>4 DEF Next, WorkerStep

(* Only try_submit adds to the queue or to the outstanding tickets.       *)
LEMMA BacklogGrowsBySubmitOnly ==
    ASSUME PoolInv, Next, ~TrySubmit
    PROVE  Len(queue') <= Len(queue) /\ Outstanding' <= Outstanding
  <1>1. /\ queue \in Seq(QueuedJob) /\ Len(queue) \in Nat
        /\ next_ticket \in Nat /\ next_delivery \in Nat /\ Outstanding \in Nat
    BY PoolAssumption DEF PoolInv, TypeOK, Outstanding
  <1>2. \/ queue' = queue \/ queue' = <<>>
        \/ queue # <<>> /\ queue' = Tail(queue)
    BY Zenon DEF Next, WorkerStep, WorkerInitialize, WorkerWait, WorkerTake,
           WorkerExit, WorkerReturn, WorkerSettle, SpuriousWakeup,
           FinishConstruction, TakeNext, TakeReady, Deliver, CancelPending,
           Shutdown, JoinReturns, drain_queued_locked
  <1>3. Len(queue') <= Len(queue)
    BY <1>1, <1>2
  <1>4. /\ next_ticket' = next_ticket
        /\ \/ next_delivery' = next_delivery
           \/ \E n \in 1..Outstanding : next_delivery' = next_delivery + n
           \/ next_delivery' = next_delivery + 1
    BY Zenon DEF Next, WorkerStep, WorkerInitialize, WorkerWait, WorkerTake,
           WorkerExit, WorkerReturn, WorkerSettle, SpuriousWakeup,
           FinishConstruction, TakeNext, TakeReady, Deliver, CancelPending,
           Shutdown, JoinReturns
  <1>5. Outstanding' <= Outstanding
    BY <1>1, <1>4 DEF Outstanding
  <1> QED BY <1>3, <1>5

(* The backlog bound of emulation_workers.hpp:148: the queue holds at     *)
(* most max_queued_jobs jobs and at most max_queued_jobs + worker_count   *)
(* tickets are outstanding, results not yet taken included.               *)
THEOREM BacklogBounded == Spec => []BoundedBacklog
  <1>1. Init => BoundedBacklog
    <2>1. Requested \in Nat
      BY PoolAssumption, FS_CardinalityType DEF Requested
    <2> QED BY <2>1, PoolAssumption DEF Init, BoundedBacklog, Outstanding
  <1>2. PoolInv /\ BoundedBacklog /\ [Next]_vars => BoundedBacklog'
    <2> SUFFICES ASSUME PoolInv, BoundedBacklog, [Next]_vars, MaxQueued # 0
                 PROVE  /\ Len(queue') <= MaxQueued
                        /\ Outstanding' <= MaxQueued + Requested
      BY DEF BoundedBacklog, Requested
    <2>0. TypeOK /\ TypeOK'
      BY NextInv DEF PoolInv
    <2>1. /\ Requested \in Nat /\ MaxQueued \in Nat
          /\ queue \in Seq(QueuedJob) /\ Len(queue) \in Nat
          /\ next_ticket \in Nat /\ next_delivery \in Nat
          /\ next_ticket' \in Nat /\ next_delivery' \in Nat
          /\ queue' \in Seq(QueuedJob) /\ Len(queue') \in Nat
      <3>1. Requested \in Nat /\ MaxQueued \in Nat
        BY PoolAssumption, FS_CardinalityType DEF Requested
      <3>2. queue \in Seq(QueuedJob) /\ queue' \in Seq(QueuedJob)
        BY <2>0 DEF TypeOK
      <3>3. /\ next_ticket \in Nat /\ next_delivery \in Nat
            /\ next_ticket' \in Nat /\ next_delivery' \in Nat
        BY <2>0, PoolAssumption, SMTT(30) DEF TypeOK
      <3> QED BY <3>1, <3>2, <3>3
    <2>2. CASE TrySubmit
      <3>1. /\ Len(queue) < MaxQueued /\ Outstanding < Requested + MaxQueued
            /\ next_ticket' = next_ticket + 1 /\ next_delivery' = next_delivery
        BY <2>2 DEF TrySubmit, Accepts
      <3>2. \/ queue' = queue
            \/ \E job \in {[ticket |-> next_ticket, generation |-> generation]} :
                  queue' = Append(queue, job)
        BY <2>2 DEF TrySubmit
      <3>3. Len(queue') <= Len(queue) + 1
        BY <2>1, <3>2
      <3> QED BY <2>1, <3>1, <3>3 DEF Outstanding
    <2>3. CASE Next /\ ~TrySubmit
      <3>1. Len(queue') <= Len(queue) /\ Outstanding' <= Outstanding
        BY <2>3, BacklogGrowsBySubmitOnly
      <3>2. Outstanding \in Int /\ Outstanding' \in Int
        BY <2>1 DEF Outstanding
      <3>3. Len(queue) <= MaxQueued /\ Outstanding <= MaxQueued + Requested
        BY DEF BoundedBacklog
      <3> QED BY <2>1, <3>1, <3>2, <3>3
    <2>4. CASE UNCHANGED vars
      BY <2>4 DEF BoundedBacklog, Outstanding, vars
    <2> QED BY <2>2, <2>3, <2>4
  <1> QED BY <1>1, <1>2, PoolInvariant, PTL DEF Spec

(* A worker's step, or a settled busy ticket, comes from its own worker.  *)
LEMMA OnlyOwnerSettles ==
    ASSUME PoolInv, Next, NEW w \in Busy,
           item[w].ticket \in DOMAIN completed' \ DOMAIN completed
    PROVE  WorkerSettle(w)
  <1>1. /\ item[w].ticket \in Running
        /\ item[w].ticket \notin Queued
        /\ item[w].ticket # next_ticket
    <2>1. item[w].ticket \in Running
      BY DEF Running
    <2>2. item[w].ticket \in next_delivery..(next_ticket - 1)
      BY <2>1 DEF PoolInv, TicketsAccountedFor
    <2>3. item[w].ticket # next_ticket
      BY <2>2, PoolAssumption, SMTT(30) DEF PoolInv, TypeOK
    <2>4. \A i \in 1..Len(queue) : item[w].ticket < queue[i].ticket
      BY DEF PoolInv, TicketsAccountedFor
    <2>5. \A i \in 1..Len(queue) : queue[i].ticket \in Nat
      <3>1. queue \in Seq(QueuedJob)
        BY DEF PoolInv, TypeOK
      <3>2. \A i \in 1..Len(queue) : queue[i] \in QueuedJob
        BY <3>1
      <3> QED BY <3>2 DEF QueuedJob
    <2> QED BY <2>1, <2>2, <2>3, <2>4, <2>5 DEF Queued, TicketsOf
  <1>2. \/ DOMAIN completed' \subseteq DOMAIN completed
        \/ DOMAIN completed' = DOMAIN completed \cup Queued
        \/ DOMAIN completed' = DOMAIN completed \cup {next_ticket}
        \/ \E v \in Workers :
              WorkerSettle(v) /\ DOMAIN completed' = DOMAIN completed \cup {item[v].ticket}
    <2>1. ASSUME NEW v \in Workers, WorkerSettle(v)
          PROVE  DOMAIN completed' = DOMAIN completed \cup {item[v].ticket}
      BY <2>1 DEF WorkerSettle, settle_locked, Emplace
    <2>2. ASSUME NEW status, drain_queued_locked(status)
          PROVE  DOMAIN completed' = DOMAIN completed \cup Queued
      BY <2>2 DEF drain_queued_locked, settle_locked, Emplace
    <2>3. ASSUME NEW n, Deliver(n)
          PROVE  DOMAIN completed' \subseteq DOMAIN completed
      BY <2>3 DEF Deliver
    <2>4. CASE TrySubmit
      BY <2>4 DEF TrySubmit, settle_locked, Emplace
    <2>5. CASE TakeNext \/ \E maximum \in 0..2 : TakeReady(maximum)
      BY <2>3, <2>5 DEF TakeNext, TakeReady
    <2>6. CASE \/ FinishConstruction \/ CancelPending \/ Shutdown
               \/ \E v \in Workers : WorkerInitialize(v)
      BY <2>2, <2>6, Zenon DEF FinishConstruction, CancelPending, Shutdown, WorkerInitialize
    <2>7. CASE \/ JoinReturns
               \/ \E v \in Workers : \/ WorkerWait(v) \/ WorkerTake(v)
                                     \/ WorkerExit(v) \/ WorkerReturn(v)
                                     \/ SpuriousWakeup(v)
      BY <2>7, Zenon DEF JoinReturns, WorkerWait, WorkerTake, WorkerExit,
                  WorkerReturn, SpuriousWakeup
    <2> QED BY <2>1, <2>4, <2>5, <2>6, <2>7, Zenon DEF Next, WorkerStep
  <1>3. PICK v \in Workers :
          WorkerSettle(v) /\ DOMAIN completed' = DOMAIN completed \cup {item[v].ticket}
    BY <1>1, <1>2, SMTT(30)
  <1>4. v \in Busy /\ item[v].ticket = item[w].ticket
    BY <1>3 DEF WorkerSettle, Busy
  <1>5. v = w
    BY <1>4 DEF PoolInv, TicketsAccountedFor
  <1> QED BY <1>3, <1>5

(* A job whose generation was cancelled settles only as CANCELLED, also   *)
(* when its executor had returned before the cancellation                 *)
(* (emulation_workers.cpp:282-289).                                       *)
THEOREM CancellationWins == Spec => CancelledNeverCompletes
  <1>1. PoolInv /\ [Next]_vars =>
          [\A w \in Busy :
              (/\ item[w].ticket \in DOMAIN completed' \ DOMAIN completed
               /\ item[w].generation # generation)
                => completed'[item[w].ticket] = "CANCELLED"]_vars
    <2> SUFFICES ASSUME PoolInv, Next, NEW w \in Busy,
                        item[w].ticket \in DOMAIN completed' \ DOMAIN completed,
                        item[w].generation # generation
                 PROVE  completed'[item[w].ticket] = "CANCELLED"
      OBVIOUS
    <2>1. WorkerSettle(w)
      BY OnlyOwnerSettles
    <2>2. SettledStatus(w) = "CANCELLED"
      BY DEF SettledStatus
    <2> QED BY <2>1, <2>2 DEF WorkerSettle, settle_locked, Emplace
  <1> QED BY <1>1, PoolInvariant, PTL DEF Spec, CancelledNeverCompletes
-----------------------------------------------------------------------------
(* The counters: running, unsettled and settled count what they are named  *)
(* after, initialized and available count the workers that have reported   *)
(* and those with an executor.  From the first follows that shutdown       *)
(* leaves nothing behind, from the second that no job is ever stranded.    *)

(* The workers that are counted by initialized, and by available while    *)
(* the pool is not stopping.  Threads that could not be created count     *)
(* once the constructor has returned.                                     *)
Reported == {w \in Workers : /\ wpc[w] # "starting"
                             /\ wpc[w] = "absent" => client # "constructing"}
Usable == {w \in Workers : wpc[w] \in {"ready", "asleep", "executing", "returned"}}

(* The counters that idle(), wait_until_idle and stats() read.            *)
CountersExact ==
    /\ running = Cardinality(Busy)
    /\ unsettled = Len(queue) + running
    /\ settled = delivered + Cardinality(DOMAIN completed)

(* Nothing is queued before the constructor returns or once shutdown has  *)
(* begun, and no worker is left when shutdown has returned.               *)
StopOrder ==
    /\ client = "constructing" => ~stopping /\ queue = <<>>
    /\ stopping => queue = <<>>
    /\ stopping /\ client = "idle" => Joined

(* The counters that NoExecutor reads.                                    *)
ReportsExact ==
    /\ initialized = Cardinality(Reported)
    /\ ~stopping => available = Cardinality(Usable)

-----------------------------------------------------------------------------
(* Lemmas about the sets that are counted *)

(* Tickets in increasing order are different, so the queue holds as many  *)
(* tickets as jobs.                                                       *)
LEMMA QueuedCount ==
    ASSUME PoolInv
    PROVE  /\ IsFiniteSet(Queued)
           /\ Len(queue) \in Nat
           /\ Cardinality(Queued) = Len(queue)
  <1> DEFINE f == [i \in 1..Len(queue) |-> queue[i].ticket]
  <1>1. queue \in Seq(QueuedJob) /\ Len(queue) \in Nat
    BY DEF PoolInv, TypeOK
  <1>2. \A i \in 1..Len(queue) : queue[i].ticket \in Nat
    BY QueuedFinite DEF Queued, TicketsOf
  <1>3. \A i, j \in 1..Len(queue) : i < j => queue[i].ticket < queue[j].ticket
    BY DEF PoolInv, TicketsAccountedFor
  <1>4. \A i, j \in 1..Len(queue) : queue[i].ticket = queue[j].ticket => i = j
    BY <1>1, <1>2, <1>3
  <1>5. f \in Bijection(1..Len(queue), Queued)
    BY <1>4 DEF Bijection, Injection, IsInjective, Surjection, Queued, TicketsOf
  <1>6. ExistsBijection(1..Len(queue), Queued)
    BY <1>5 DEF ExistsBijection
  <1>7. IsFiniteSet(1..Len(queue)) /\ Cardinality(1..Len(queue)) = Len(queue)
    BY <1>1, FS_Interval, SMTT(30)
  <1> QED BY <1>1, <1>6, <1>7, FS_Bijection

(* The undelivered results are finitely many.                             *)
LEMMA CompletedFinite ==
    ASSUME PoolInv
    PROVE  /\ IsFiniteSet(DOMAIN completed)
           /\ Cardinality(DOMAIN completed) \in Nat
  <1>1. next_delivery \in Nat /\ next_ticket \in Nat
    BY PoolAssumption DEF PoolInv, TypeOK
  <1>2. DOMAIN completed \subseteq next_delivery..(next_ticket - 1)
    BY DEF PoolInv, TicketsAccountedFor
  <1>3. IsFiniteSet(next_delivery..(next_ticket - 1))
    BY <1>1, FS_Interval
  <1>4. IsFiniteSet(DOMAIN completed)
    BY <1>2, <1>3, FS_Subset, Zenon
  <1> QED BY <1>4, FS_CardinalityType

(* A set of workers is finite.                                            *)
LEMMA WorkerSets ==
    ASSUME NEW S \in SUBSET Workers
    PROVE  /\ IsFiniteSet(S)
           /\ Cardinality(S) \in Nat
           /\ Cardinality(S) = Requested => S = Workers
           /\ Cardinality(S) = 0 <=> S = {}
  <1>1. IsFiniteSet(S) /\ (Cardinality(Workers) = Cardinality(S) => Workers = S)
    BY PoolAssumption, FS_Subset
  <1> QED BY <1>1, FS_CardinalityType, FS_EmptySet DEF Requested

-----------------------------------------------------------------------------
(* running, unsettled and settled *)

(* Draining moves as many jobs from the queue to the results.             *)
LEMMA DrainCounts ==
    ASSUME PoolInv, CountersExact, NEW status, drain_queued_locked(status),
           Busy' = Busy, UNCHANGED <<next_delivery, running>>
    PROVE  CountersExact'
  <1>1. Queued \ DOMAIN completed = Queued
    BY DEF PoolInv, TicketsAccountedFor
  <1>2. /\ queue' = <<>>
        /\ DOMAIN completed' = DOMAIN completed \cup Queued
        /\ settled' = settled + Cardinality(Queued)
        /\ unsettled' = IF unsettled >= Cardinality(Queued)
                        THEN unsettled - Cardinality(Queued) ELSE 0
    BY <1>1, Zenon DEF drain_queued_locked, settle_locked, Emplace
  <1>3. /\ Len(queue) \in Nat /\ Cardinality(Queued) = Len(queue)
        /\ running \in Nat /\ next_delivery \in Nat
        /\ Cardinality(DOMAIN completed) \in Nat
    BY QueuedCount, CompletedFinite, PoolAssumption DEF PoolInv, TypeOK
  <1>4. Cardinality(DOMAIN completed') = Cardinality(DOMAIN completed) + Len(queue)
    <2>1. DOMAIN completed \cap Queued = {}
      BY <1>1
    <2>2. Cardinality(DOMAIN completed \cup Queued)
            = Cardinality(DOMAIN completed) + Cardinality(Queued)
                - Cardinality(DOMAIN completed \cap Queued)
      BY QueuedCount, CompletedFinite, FS_Union
    <2>3. Cardinality(DOMAIN completed \cap Queued) = 0
      BY <2>1, FS_EmptySet
    <2>4. Cardinality(DOMAIN completed \cup Queued)
            = Cardinality(DOMAIN completed) + Len(queue)
      BY <1>3, <2>2, <2>3
    <2> QED BY <1>2, <2>4
  <1>5. Len(queue') = 0
    BY <1>2
  <1>6. /\ running = Cardinality(Busy) /\ unsettled = Len(queue) + running
        /\ settled = next_delivery - 1 + Cardinality(DOMAIN completed)
    BY DEF CountersExact, delivered
  <1>7. settled' = settled + Len(queue)
    BY <1>2, <1>3
  <1>8. unsettled' = running
    <2>1. unsettled >= Len(queue) /\ unsettled - Len(queue) = running
      BY <1>3, <1>6
    <2> QED BY <1>2, <1>3, <2>1
  <1>9. unsettled' = Len(queue') + running' /\ running' = Cardinality(Busy')
    BY <1>3, <1>5, <1>6, <1>8
  <1>10. settled' = delivered' + Cardinality(DOMAIN completed')
    BY <1>3, <1>4, <1>6, <1>7 DEF delivered
  <1> QED BY <1>9, <1>10 DEF CountersExact

(* Results, queue and counters that stay keep agreeing.                   *)
LEMMA CountsUnchanged ==
    ASSUME CountersExact, Busy' = Busy,
           UNCHANGED <<queue, completed, next_delivery, settled, unsettled, running>>
    PROVE  CountersExact'
  BY DEF CountersExact, delivered

(* A popped job moves from the queue to the running ones.                 *)
LEMMA TakeCounts ==
    ASSUME PoolInv, CountersExact, NEW w \in Workers, WorkerTake(w)
    PROVE  CountersExact'
  <1>0. wpc \in [Workers -> Places] /\ queue \in Seq(QueuedJob)
    BY DEF PoolInv, TypeOK, Places
  <1>1. /\ wpc[w] = "ready" /\ queue # <<>> /\ queue' = Tail(queue)
        /\ running' = running + 1
        /\ wpc' = [notify_all(wpc) EXCEPT ![w] = "executing"]
        /\ UNCHANGED <<completed, next_delivery, settled, unsettled>>
    BY DEF WorkerTake
  <1>2. Busy' = Busy \cup {w} /\ w \notin Busy
    BY <1>0, <1>1, NotifyAll DEF Busy
  <1>3. IsFiniteSet(Busy) /\ Cardinality(Busy) \in Nat
    BY WorkerSets DEF Busy
  <1>4. Cardinality(Busy') = Cardinality(Busy) + 1
    BY <1>2, <1>3, FS_AddElement
  <1>5. Len(queue') = Len(queue) - 1 /\ Len(queue) \in Nat
    BY <1>0, <1>1
  <1>6. running' = Cardinality(Busy')
    BY <1>1, <1>4 DEF CountersExact
  <1>7. unsettled' = Len(queue') + running'
    BY <1>1, <1>3, <1>5 DEF CountersExact
  <1> QED BY <1>1, <1>6, <1>7 DEF CountersExact, delivered

(* A settled job moves from the running ones to the results.              *)
LEMMA SettleCounts ==
    ASSUME PoolInv, CountersExact, NEW w \in Workers, WorkerSettle(w)
    PROVE  CountersExact'
  <1>0. wpc \in [Workers -> Places]
    BY DEF PoolInv, TypeOK, Places
  <1>1. /\ wpc[w] = "returned"
        /\ running' = IF running # 0 THEN running - 1 ELSE 0
        /\ wpc' = [notify_all(wpc) EXCEPT ![w] = "ready"]
        /\ queue' = queue /\ next_delivery' = next_delivery
    BY DEF WorkerSettle
  <1>s. settle_locked({item[w].ticket}, SettledStatus(w), unsettled)
    BY DEF WorkerSettle
  <1>2. Busy' = Busy \ {w} /\ w \in Busy
    BY <1>0, <1>1, NotifyAll DEF Busy
  <1>3. IsFiniteSet(Busy) /\ Cardinality(Busy) \in Nat /\ Cardinality(Busy) # 0
    BY <1>2, WorkerSets DEF Busy
  <1>4. Cardinality(Busy') = Cardinality(Busy) - 1
    BY <1>2, <1>3, FS_RemoveElement
  <1>5. item[w].ticket \notin DOMAIN completed
    BY <1>2 DEF PoolInv, TicketsAccountedFor, Running
  <1>6. Cardinality({item[w].ticket} \ DOMAIN completed) = 1
    <2>1. {item[w].ticket} \ DOMAIN completed = {item[w].ticket}
      BY <1>5
    <2> QED BY <2>1, FS_Singleton, Zenon
  <1>7. /\ DOMAIN completed' = DOMAIN completed \cup {item[w].ticket}
        /\ settled' = settled + 1
        /\ unsettled' = IF unsettled >= 1 THEN unsettled - 1 ELSE 0
    BY <1>s, <1>6, SMTT(30) DEF settle_locked, Emplace
  <1>8. Cardinality(DOMAIN completed') = Cardinality(DOMAIN completed) + 1
    BY <1>5, <1>7, CompletedFinite, FS_AddElement, SMTT(30)
  <1>9. /\ Len(queue) \in Nat /\ next_delivery \in Nat
        /\ Cardinality(DOMAIN completed) \in Nat
    BY QueuedCount, CompletedFinite, PoolAssumption, SMTT(30) DEF PoolInv, TypeOK
  <1>10. running' = Cardinality(Busy') /\ unsettled' = Len(queue') + running'
    BY <1>1, <1>3, <1>4, <1>7, <1>9, SMTT(30) DEF CountersExact
  <1>d. delivered' = delivered /\ delivered \in Int
    BY <1>1, <1>9 DEF delivered
  <1>11. settled' = delivered' + Cardinality(DOMAIN completed')
    <2>1. settled = delivered + Cardinality(DOMAIN completed)
      BY DEF CountersExact
    <2> QED BY <2>1, <1>7, <1>8, <1>9, <1>d
  <1> QED BY <1>10, <1>11 DEF CountersExact

(* An accepted job is one more unsettled job, or one more result.         *)
LEMMA SubmitCounts ==
    ASSUME PoolInv, CountersExact, TrySubmit, Busy' = Busy
    PROVE  CountersExact'
  <1>0. /\ queue \in Seq(QueuedJob) /\ Len(queue) \in Nat
        /\ running \in Nat /\ unsettled \in Nat
        /\ next_delivery \in Nat /\ next_ticket \in Nat /\ generation \in Nat
        /\ Cardinality(DOMAIN completed) \in Nat
    BY QueuedCount, CompletedFinite, PoolAssumption DEF PoolInv, TypeOK
  <1>1. UNCHANGED <<next_delivery, running>>
    BY DEF TrySubmit
  <1>2. CASE /\ settle_locked({next_ticket}, "UNAVAILABLE", unsettled + 1)
             /\ UNCHANGED queue
    <2>1. next_ticket \notin DOMAIN completed
      BY <1>0 DEF PoolInv, TicketsAccountedFor
    <2>2. Cardinality({next_ticket} \ DOMAIN completed) = 1
      <3>1. {next_ticket} \ DOMAIN completed = {next_ticket}
        BY <2>1
      <3> QED BY <3>1, FS_Singleton
    <2>3. /\ DOMAIN completed' = DOMAIN completed \cup {next_ticket}
          /\ settled' = settled + 1
          /\ unsettled' = unsettled
      BY <1>0, <1>2, <2>2 DEF settle_locked, Emplace
    <2>4. Cardinality(DOMAIN completed') = Cardinality(DOMAIN completed) + 1
      BY <2>1, <2>3, CompletedFinite, FS_AddElement
    <2>5. running' = Cardinality(Busy)'
      BY <1>1 DEF CountersExact
    <2>6. unsettled' = Len(queue') + running'
      BY <1>1, <1>2, <2>3 DEF CountersExact
    <2>7. settled' = delivered' + Cardinality(DOMAIN completed')
      <3>1. delivered' = delivered /\ delivered \in Int
        BY <1>0, <1>1 DEF delivered
      <3>2. settled = delivered + Cardinality(DOMAIN completed)
        BY DEF CountersExact
      <3> QED BY <1>0, <2>3, <2>4, <3>1, <3>2
    <2> QED BY <2>5, <2>6, <2>7 DEF CountersExact
  <1>3. CASE /\ \E job : queue' = Append(queue, job)
             /\ unsettled' = unsettled + 1
             /\ UNCHANGED <<completed, settled>>
    <2>1. Len(queue') = Len(queue) + 1
      BY <1>0, <1>3
    <2> QED BY <1>0, <1>1, <1>3, <2>1 DEF CountersExact, delivered
  <1> QED BY <1>2, <1>3 DEF TrySubmit

(* A delivery moves results to the delivered ones.                        *)
LEMMA DeliverCounts ==
    ASSUME PoolInv, CountersExact, NEW n \in Nat \ {0},
           next_delivery..(next_delivery + n - 1) \subseteq DOMAIN completed,
           Deliver(n), Busy' = Busy
    PROVE  CountersExact'
  <1> DEFINE taken == next_delivery..(next_delivery + n - 1)
  <1>0. next_delivery \in Nat /\ Cardinality(DOMAIN completed) \in Nat
    BY CompletedFinite, PoolAssumption DEF PoolInv, TypeOK
  <1>1. /\ DOMAIN completed' = DOMAIN completed \ taken
        /\ next_delivery' = next_delivery + n
        /\ UNCHANGED <<queue, settled, unsettled, running>>
    BY DEF Deliver
  <1>2. DOMAIN completed \cap taken = taken
    OBVIOUS
  <1>3. Cardinality(taken) = n
    BY <1>0, FS_Interval
  <1>4. Cardinality(DOMAIN completed') = Cardinality(DOMAIN completed) - n
    <2>1. Cardinality(DOMAIN completed \ taken)
            = Cardinality(DOMAIN completed) - Cardinality(DOMAIN completed \cap taken)
      BY CompletedFinite, FS_Difference, Zenon
    <2>2. Cardinality(DOMAIN completed \ taken) = Cardinality(DOMAIN completed) - n
      BY <1>2, <1>3, <2>1, Zenon
    <2> QED BY <1>1, <2>2
  <1> QED BY <1>0, <1>1, <1>4 DEF CountersExact, delivered

(* Every step keeps the counters exact.                                   *)
LEMMA CountersStep ==
    ASSUME PoolInv, CountersExact, [Next]_vars
    PROVE  CountersExact'
  <1>1. ASSUME NEW w \in Workers, WorkerTake(w) \/ WorkerSettle(w)
        PROVE  CountersExact'
    BY <1>1, TakeCounts, SettleCounts
  <1>2. CASE ~ \E w \in Workers : WorkerTake(w) \/ WorkerSettle(w)
    <2>0. Busy' = Busy
      BY <1>2, BusyUnchanged
    <2>1. CASE \/ \E w \in Workers : WorkerInitialize(w)
               \/ FinishConstruction \/ CancelPending \/ Shutdown
      <3>1. /\ UNCHANGED <<next_delivery, running>>
            /\ \/ UNCHANGED <<queue, completed, settled, unsettled>>
               \/ \E status : drain_queued_locked(status)
        BY <2>1 DEF WorkerInitialize, FinishConstruction, CancelPending, Shutdown
      <3> QED BY <2>0, <3>1, DrainCounts, CountsUnchanged
    <2>2. CASE \/ JoinReturns \/ UNCHANGED vars
               \/ \E w \in Workers : \/ WorkerWait(w) \/ SpuriousWakeup(w)
                                     \/ WorkerExit(w) \/ WorkerReturn(w)
      <3>1. UNCHANGED <<queue, completed, next_delivery, settled, unsettled, running>>
        BY <2>2 DEF JoinReturns, vars, WorkerWait, SpuriousWakeup, WorkerExit, WorkerReturn
      <3> QED BY <2>0, <3>1, CountsUnchanged, SMTT(30)
    <2>3. CASE TrySubmit
      BY <2>0, <2>3, SubmitCounts
    <2>4. CASE TakeNext
      <3>1. next_delivery..(next_delivery + 1 - 1) \subseteq DOMAIN completed
        BY <2>4, PoolAssumption DEF TakeNext, PoolInv, TypeOK
      <3> QED BY <2>0, <2>4, <3>1, DeliverCounts DEF TakeNext
    <2>5. ASSUME NEW maximum \in 0..2, TakeReady(maximum)
          PROVE  CountersExact'
      <3>1. Outstanding \in Nat
        BY PoolAssumption DEF Outstanding, PoolInv, TypeOK
      <3>2. PICK n \in 1..Outstanding :
               /\ next_delivery..(next_delivery + n - 1) \subseteq DOMAIN completed
               /\ Deliver(n)
        BY <2>5 DEF TakeReady
      <3> QED BY <2>0, <3>1, <3>2, DeliverCounts
    <2> QED BY <1>2, <2>1, <2>2, <2>3, <2>4, <2>5 DEF Next, WorkerStep
  <1> QED BY <1>1, <1>2

-----------------------------------------------------------------------------
(* The order of construction, shutdown and join *)

(* Once every thread is gone it stays gone.                               *)
LEMMA JoinedIsStable ==
    ASSUME PoolInv, Joined, [Next]_vars
    PROVE  Joined'
  <1>0. wpc \in [Workers -> Places]
    BY DEF PoolInv, TypeOK, Places
  <1>1. \A w \in Workers : wpc[w] \in {"exited", "absent"}
    BY DEF Joined
  <1>2. \A w \in Workers : ~WorkerStep(w) /\ ~SpuriousWakeup(w)
    BY <1>1 DEF WorkerStep, WorkerInitialize, WorkerWait, WorkerTake,
                WorkerExit, WorkerReturn, WorkerSettle, SpuriousWakeup
  <1>3. notify_all(wpc) = wpc
    BY <1>0, <1>1 DEF notify_all
  <1>4. wpc' = wpc
    BY <1>1, <1>2, <1>3, Zenon DEF Next, vars, FinishConstruction, TrySubmit, notify_one,
          TakeNext, TakeReady, Deliver, CancelPending, Shutdown, JoinReturns
  <1> QED BY <1>1, <1>4 DEF Joined

(* Who may change client and stopping, and what is queued then.           *)
LEMMA StopOrderStep ==
    ASSUME PoolInv, StopOrder, [Next]_vars
    PROVE  StopOrder'
  <1>0. stopping \in BOOLEAN /\ client \in {"constructing", "idle", "joining"}
    BY DEF PoolInv, TypeOK
  <1>1. CASE Shutdown
    <2>1. client' = "joining" /\ queue' = <<>>
      BY <1>1 DEF Shutdown, drain_queued_locked, StopOrder
    <2> QED BY <2>1 DEF StopOrder
  <1>2. CASE JoinReturns
    BY <1>0, <1>2, JoinedIsStable DEF JoinReturns, StopOrder, Joined
  <1>3. CASE TrySubmit
    <2>1. ~stopping /\ ~stopping' /\ client' = "idle"
      BY <1>3 DEF TrySubmit, Accepts
    <2> QED BY <2>1 DEF StopOrder
  <1>4. CASE FinishConstruction
    <2>1. ~stopping' /\ client' = "idle"
      BY <1>4 DEF FinishConstruction, StopOrder
    <2> QED BY <2>1 DEF StopOrder
  <1>5. CASE ~Shutdown /\ ~JoinReturns /\ ~TrySubmit /\ ~FinishConstruction
    <2>1. /\ UNCHANGED <<stopping, client>>
          /\ queue = <<>> => queue' = <<>>
      BY <1>5, Zenon DEF Next, vars, WorkerStep, WorkerInitialize, WorkerWait, WorkerTake,
            WorkerExit, WorkerReturn, WorkerSettle, SpuriousWakeup, TakeNext,
            TakeReady, Deliver, CancelPending, drain_queued_locked
    <2> QED BY <2>1, JoinedIsStable DEF StopOrder
  <1> QED BY <1>1, <1>2, <1>3, <1>4, <1>5

-----------------------------------------------------------------------------
(* initialized and available *)

(* What a notification and a failed wait leave alone.                     *)
LEMMA NotifyCounts ==
    ASSUME wpc \in [Workers -> Places],
           \/ wpc' = notify_all(wpc)
           \/ \E w \in Workers : \E place \in {"ready", "asleep", "executing", "returned"} :
                 /\ wpc[w] \in {"ready", "asleep", "executing", "returned"}
                 /\ \/ wpc' = [wpc EXCEPT ![w] = place]
                    \/ wpc' = [notify_all(wpc) EXCEPT ![w] = place]
           \/ wpc' = wpc
    PROVE  /\ Usable' = Usable
           /\ client' = client \/ {client, client'} = {"idle", "joining"}
                 => Reported' = Reported
  <1>1. \A w \in Workers :
           /\ wpc'[w] \in {"ready", "asleep", "executing", "returned"}
                <=> wpc[w] \in {"ready", "asleep", "executing", "returned"}
           /\ wpc'[w] = "starting" <=> wpc[w] = "starting"
           /\ wpc'[w] = "absent" <=> wpc[w] = "absent"
    BY Zenon DEF notify_all, Places
  <1> QED BY <1>1 DEF Usable, Reported

(* Every step keeps initialized and available exact.                      *)
LEMMA ReportsStep ==
    ASSUME PoolInv, StopOrder, ReportsExact, [Next]_vars
    PROVE  ReportsExact'
  <1>0. /\ wpc \in [Workers -> Places]
        /\ stopping \in BOOLEAN /\ client \in {"constructing", "idle", "joining"}
    BY DEF PoolInv, TypeOK, Places
  <1>1. /\ IsFiniteSet(Reported) /\ Cardinality(Reported) \in Nat
        /\ IsFiniteSet(Usable) /\ Cardinality(Usable) \in Nat
    BY WorkerSets DEF Reported, Usable
  <1>2. ASSUME NEW w \in Workers, WorkerInitialize(w)
        PROVE  ReportsExact'
    <2>1. PICK usable \in BOOLEAN :
            /\ initialized' = initialized + 1
            /\ available' = available + (IF usable THEN 1 ELSE 0)
            /\ wpc' = [notify_all(wpc) EXCEPT
                         ![w] = IF usable THEN "ready" ELSE "exited"]
      BY <1>2, Zenon DEF WorkerInitialize
    <2>2. wpc[w] = "starting" /\ UNCHANGED <<client, stopping>>
      BY <1>2 DEF WorkerInitialize
    <2>3. \A v \in Workers \ {w} :
            /\ wpc'[v] \in {"ready", "asleep", "executing", "returned"}
                 <=> wpc[v] \in {"ready", "asleep", "executing", "returned"}
            /\ wpc'[v] = "starting" <=> wpc[v] = "starting"
            /\ wpc'[v] = "absent" <=> wpc[v] = "absent"
      BY <1>0, <2>1 DEF notify_all, Places
    <2>4. wpc'[w] = IF usable THEN "ready" ELSE "exited"
      BY <1>0, <2>1 DEF notify_all, Places
    <2>5. Reported' = Reported \cup {w} /\ w \notin Reported
      BY <2>2, <2>3, <2>4 DEF Reported
    <2>6. Usable' = IF usable THEN Usable \cup {w} ELSE Usable
      BY <2>2, <2>3, <2>4 DEF Usable
    <2>7. w \notin Usable
      BY <2>2 DEF Usable
    <2>8. Cardinality(Reported') = Cardinality(Reported) + 1
      BY <1>1, <2>5, FS_AddElement, Zenon
    <2>9. Cardinality(Usable') = Cardinality(Usable) + (IF usable THEN 1 ELSE 0)
      <3>1. Cardinality(Usable \cup {w}) = Cardinality(Usable) + 1
        BY <1>1, <2>7, FS_AddElement, Zenon
      <3>2. CASE usable
        BY <2>6, <3>1, <3>2
      <3>3. CASE ~usable
        BY <1>1, <2>6, <3>3
      <3> QED BY <3>2, <3>3
    <2> QED BY <2>1, <2>2, <2>8, <2>9 DEF ReportsExact
  <1>3. CASE FinishConstruction
    <2> DEFINE missing == {w \in Workers : wpc[w] = "absent"}
    <2>1. /\ client = "constructing" /\ client' = "idle"
          /\ initialized' = initialized + Cardinality(missing)
          /\ wpc' = IF missing # {} THEN notify_all(wpc) ELSE wpc
          /\ UNCHANGED <<available, stopping>>
      BY <1>3 DEF FinishConstruction
    <2>2. Usable' = Usable
      BY <1>0, <2>1, NotifyCounts
    <2>3. \A w \in Workers : /\ wpc'[w] = "starting" <=> wpc[w] = "starting"
                             /\ wpc'[w] = "absent" <=> wpc[w] = "absent"
      BY <1>0, <2>1 DEF notify_all, Places
    <2>4. Reported' = Reported \cup missing /\ Reported \cap missing = {}
      BY <2>1, <2>3 DEF Reported
    <2>5. IsFiniteSet(missing) /\ Cardinality(missing) \in Nat
      BY WorkerSets
    <2>6. Cardinality(Reported \cup missing) = Cardinality(Reported) + Cardinality(missing)
      <3>1. Cardinality(Reported \cap missing) = 0
        BY <2>4, FS_EmptySet, SMTT(30)
      <3>2. Cardinality(Reported \cup missing)
              = Cardinality(Reported) + Cardinality(missing) - Cardinality(Reported \cap missing)
        BY <1>1, <2>5, FS_Union, SMTT(30)
      <3> QED BY <1>1, <2>5, <3>1, <3>2
    <2>7. initialized' = Cardinality(Reported')
      BY <2>1, <2>4, <2>6 DEF ReportsExact
    <2> QED BY <2>1, <2>2, <2>7 DEF ReportsExact
  <1>4. ASSUME NEW w \in Workers, WorkerExit(w)
        PROVE  ReportsExact'
    <2>1. /\ wpc[w] = "ready" /\ wpc' = [wpc EXCEPT ![w] = "exited"]
          /\ stopping /\ UNCHANGED <<initialized, available, stopping, client>>
      BY <1>4 DEF WorkerExit
    <2>2. Reported' = Reported
      BY <1>0, <2>1 DEF Reported
    <2> QED BY <2>1, <2>2 DEF ReportsExact
  <1>5. CASE Shutdown
    <2>1. /\ wpc' = notify_all(wpc) /\ client = "idle" /\ client' = "joining"
          /\ UNCHANGED <<initialized, available>>
      BY <1>5 DEF Shutdown
    <2>2. stopping' = TRUE
      BY <1>0, <1>5, Zenon DEF Shutdown
    <2>3. Reported' = Reported
      BY <1>0, <2>1, NotifyCounts
    <2> QED BY <2>1, <2>2, <2>3 DEF ReportsExact
  <1>6. CASE JoinReturns
    <2>1. /\ wpc' = wpc /\ client = "joining" /\ client' = "idle"
          /\ UNCHANGED <<initialized, available, stopping>>
      BY <1>6 DEF JoinReturns
    <2>2. Reported' = Reported /\ Usable' = Usable
      BY <1>0, <2>1, NotifyCounts
    <2> QED BY <2>1, <2>2 DEF ReportsExact
  <1>7. ASSUME NEW w \in Workers,
               \/ WorkerWait(w) \/ SpuriousWakeup(w) \/ WorkerTake(w)
               \/ WorkerReturn(w) \/ WorkerSettle(w)
        PROVE  ReportsExact'
    <2>1. /\ UNCHANGED <<initialized, available, stopping, client>>
          /\ \E place \in {"ready", "asleep", "executing", "returned"} :
                 /\ wpc[w] \in {"ready", "asleep", "executing", "returned"}
                 /\ \/ wpc' = [wpc EXCEPT ![w] = place]
                    \/ wpc' = [notify_all(wpc) EXCEPT ![w] = place]
      BY <1>7 DEF WorkerWait, SpuriousWakeup, WorkerTake, WorkerReturn, WorkerSettle
    <2>2. Reported' = Reported /\ Usable' = Usable
      BY <1>0, <2>1, NotifyCounts
    <2> QED BY <2>1, <2>2, SMTT(30) DEF ReportsExact
  <1>8. CASE \/ TrySubmit \/ TakeNext \/ CancelPending \/ UNCHANGED vars
             \/ \E maximum \in 0..2 : TakeReady(maximum)
    <2>1. /\ UNCHANGED <<initialized, available, stopping, client>>
          /\ \/ wpc' = notify_all(wpc) \/ wpc' = wpc
             \/ \E w \in Workers : /\ wpc[w] = "asleep"
                                   /\ wpc' = [wpc EXCEPT ![w] = "ready"]
      BY <1>8, Zenon DEF TrySubmit, notify_one, TakeNext, TakeReady, Deliver,
                  CancelPending, vars
    <2>2. Reported' = Reported /\ Usable' = Usable
      BY <1>0, <2>1, NotifyCounts
    <2> QED BY <2>1, <2>2 DEF ReportsExact
  <1> QED BY <1>2, <1>3, <1>4, <1>5, <1>6, <1>7, <1>8, SMTT(30) DEF Next, WorkerStep

-----------------------------------------------------------------------------
(* No job is stranded *)

Awake == {w \in Workers : wpc[w] \in {"starting", "ready", "executing", "returned"}}

(* Sleepers aside, a notification loses nobody, and it wakes whoever has  *)
(* an executor.                                                           *)
LEMMA NotifyAwake ==
    ASSUME wpc \in [Workers -> Places]
    PROVE  \A w \in Workers :
              /\ w \in Awake \/ w \in Usable =>
                    notify_all(wpc)[w] \in {"starting", "ready", "executing", "returned"}
  BY DEF notify_all, Places, Awake, Usable

(* A queued job keeps a worker that is neither gone nor asleep: who takes *)
(* the last awake worker away has found the queue empty, and who queues   *)
(* into an empty queue wakes a worker or knows one that still starts.     *)
LEMMA NoStrandedStep ==
    ASSUME PoolInv, StopOrder, ReportsExact, NoStrandedJob, [Next]_vars
    PROVE  NoStrandedJob'
  <1> SUFFICES ASSUME queue' # <<>> PROVE Awake' # {}
    BY DEF NoStrandedJob, Awake
  <1>0. /\ wpc \in [Workers -> Places]
        /\ stopping \in BOOLEAN /\ client \in {"constructing", "idle", "joining"}
    BY DEF PoolInv, TypeOK, Places
  <1>1. queue # <<>> => Awake # {}
    BY DEF NoStrandedJob, Awake
  <1>2. StopOrder' /\ ReportsExact'
    BY StopOrderStep, ReportsStep
  <1>3. ~stopping' /\ client' # "constructing"
    BY <1>2 DEF StopOrder
  <1>4. ASSUME NEW w \in Workers, WorkerInitialize(w)
        PROVE  Awake' # {}
    <2>1. PICK usable \in BOOLEAN :
            /\ IF NoExecutor(initialized', available')
               THEN drain_queued_locked("UNAVAILABLE")
               ELSE UNCHANGED <<queue, completed, settled, unsettled>>
            /\ wpc' = [notify_all(wpc) EXCEPT
                         ![w] = IF usable THEN "ready" ELSE "exited"]
      BY <1>4, Zenon DEF WorkerInitialize
    <2>2. ~NoExecutor(initialized', available')
      BY <2>1 DEF drain_queued_locked
    <2>3. CASE initialized' # Requested
      <3>1. Reported' # Workers
        BY <1>2, <2>3 DEF ReportsExact, Requested
      <3>2. \E v \in Workers : wpc'[v] = "starting"
        BY <1>3, <3>1 DEF Reported
      <3> QED BY <3>2 DEF Awake
    <2>4. CASE available' # 0
      <3>1. Usable' # {}
        BY <1>2, <1>3, <2>4, FS_EmptySet DEF ReportsExact
      <3>2. PICK v \in Workers : wpc'[v] \in {"ready", "asleep", "executing", "returned"}
        BY <3>1 DEF Usable
      <3>3. wpc'[v] # "asleep"
        BY <1>0, <2>1 DEF notify_all, Places
      <3> QED BY <3>2, <3>3 DEF Awake
    <2> QED BY <2>2, <2>3, <2>4 DEF NoExecutor
  <1>5. CASE TrySubmit
    <2>1. CASE queue' = queue /\ wpc' = notify_all(wpc)
      BY <1>0, <1>1, <2>1, NotifyAwake DEF Awake
    <2>2. CASE ~NoExecutor(initialized, available) /\ notify_one(wpc, wpc')
      <3>1. /\ ~stopping /\ client = "idle"
            /\ UNCHANGED <<initialized, available, stopping, client>>
        BY <1>5 DEF TrySubmit, Accepts
      <3>2. CASE initialized # Requested
        <4>1. Reported # Workers
          BY <3>2 DEF ReportsExact, Requested
        <4>2. PICK v \in Workers : wpc[v] = "starting"
          BY <3>1, <4>1 DEF Reported
        <4>3. wpc'[v] = "starting"
          BY <1>0, <2>2, <4>2 DEF notify_one
        <4> QED BY <4>3 DEF Awake
      <3>3. CASE available # 0
        <4>1. Usable # {}
          BY <3>1, <3>3, FS_EmptySet DEF ReportsExact
        <4>2. PICK v \in Workers : wpc[v] \in {"ready", "asleep", "executing", "returned"}
          BY <4>1 DEF Usable
        <4>3. CASE \E u \in Workers : /\ wpc[u] = "asleep"
                                      /\ wpc' = [wpc EXCEPT ![u] = "ready"]
          BY <1>0, <4>3 DEF Awake
        <4>4. CASE (\A u \in Workers : wpc[u] # "asleep") /\ wpc' = wpc
          BY <4>2, <4>4 DEF Awake
        <4> QED BY <2>2, <4>3, <4>4 DEF notify_one
      <3> QED BY <2>2, <3>2, <3>3 DEF NoExecutor
    <2> QED BY <1>5, <2>1, <2>2 DEF TrySubmit
  <1>6. ASSUME NEW w \in Workers,
               WorkerTake(w) \/ SpuriousWakeup(w) \/ WorkerReturn(w) \/ WorkerSettle(w)
        PROVE  Awake' # {}
    <2>1. wpc'[w] \in {"ready", "executing", "returned"}
      BY <1>0, <1>6, NotifyAll DEF WorkerTake, SpuriousWakeup, WorkerReturn, WorkerSettle
    <2> QED BY <2>1, SMTT(30) DEF Awake
  <1>7. ASSUME NEW w \in Workers, WorkerWait(w) \/ WorkerExit(w)
        PROVE  Awake' # {}
    <2>1. queue' = <<>>
      BY <1>7 DEF WorkerWait, WorkerExit, StopOrder
    <2> QED BY <2>1
  <1>8. CASE \/ FinishConstruction \/ CancelPending \/ Shutdown \/ TakeNext
             \/ JoinReturns \/ UNCHANGED vars
             \/ \E maximum \in 0..2 : TakeReady(maximum)
    <2>1. /\ wpc' = wpc \/ wpc' = notify_all(wpc)
          /\ queue' = queue \/ queue' = <<>>
      BY <1>8, Zenon DEF FinishConstruction, CancelPending, Shutdown, TakeNext, TakeReady,
                  Deliver, JoinReturns, vars, drain_queued_locked
    <2> QED BY <1>0, <1>1, <2>1, NotifyAwake DEF Awake
  <1> QED BY <1>4, <1>5, <1>6, <1>7, <1>8 DEF Next, WorkerStep

-----------------------------------------------------------------------------
(* The theorems *)

CountInv == CountersExact /\ StopOrder /\ ReportsExact /\ NoStrandedJob

(* The counters are exact, and nothing is queued, in a new pool.          *)
LEMMA InitCounts == Init => CountInv
  <1> SUFFICES ASSUME Init PROVE CountInv
    OBVIOUS
  <1>1. queue = <<>> /\ Len(queue) = 0 /\ DOMAIN completed = {}
    BY DEF Init
  <1>2. Busy = {} /\ Reported = {} /\ Usable = {}
    BY DEF Init, Busy, Reported, Usable
  <1>3. Cardinality({}) = 0
    BY FS_EmptySet
  <1>4. CountersExact
    BY <1>1, <1>2, <1>3 DEF Init, CountersExact, delivered
  <1>5. StopOrder /\ ReportsExact /\ NoStrandedJob
    BY <1>1, <1>2, <1>3 DEF Init, StopOrder, ReportsExact, NoStrandedJob
  <1> QED BY <1>4, <1>5 DEF CountInv

(* The counters stay exact in every reachable state.                      *)
LEMMA CountInvariant == Spec => []CountInv
  <1>1. PoolInv /\ CountInv /\ [Next]_vars => CountInv'
    BY CountersStep, StopOrderStep, ReportsStep, NoStrandedStep DEF CountInv
  <1> QED BY <1>1, InitCounts, PoolInvariant, PTL DEF Spec

(* A queued job always has a worker that is neither gone nor asleep: no   *)
(* wake-up of notify_one is lost, and no job is queued behind executors   *)
(* that all turn out unavailable (emulation_workers.cpp, try_submit and   *)
(* worker_main).                                                          *)
THEOREM NoJobIsStranded == Spec => []NoStrandedJob
  <1>1. CountInv => NoStrandedJob
    BY DEF CountInv
  <1> QED BY <1>1, CountInvariant, PTL

(* idle(), wait_until_idle and stats() read counters that are exact, and  *)
(* once shutdown has returned every accepted ticket has its result and no *)
(* worker is left (stop_and_join).                                        *)
THEOREM ShutdownLeavesNothing == Spec => []ShutdownSettlesEverything
  <1>1. PoolInv /\ CountInv => ShutdownSettlesEverything
    <2> SUFFICES ASSUME PoolInv, CountInv PROVE ShutdownSettlesEverything
      OBVIOUS
    <2>1. CountersExact /\ StopOrder
      BY DEF CountInv
    <2>2. ASSUME stopping, client = "idle"
          PROVE  Joined /\ next_delivery..(next_ticket - 1) = DOMAIN completed
      <3>1. Joined /\ queue = <<>>
        BY <2>1, <2>2 DEF StopOrder
      <3>2. Busy = {} /\ Queued = {}
        BY <3>1 DEF Joined, Busy, Queued, TicketsOf
      <3>3. Running = {}
        BY <3>2 DEF Running
      <3> QED BY <3>1, <3>2, <3>3 DEF PoolInv, TicketsAccountedFor
    <2> QED BY <2>1, <2>2 DEF CountersExact, ShutdownSettlesEverything
  <1> QED BY <1>1, PoolInvariant, CountInvariant, PTL

-----------------------------------------------------------------------------
(* The pool implements the ordered job service: threads, queue, lock and   *)
(* counters are hidden, and every critical section is one step of the      *)
(* service or none.                                                        *)

(* A queued job is always of the current generation, since a cancellation *)
(* drains the queue under the lock that raises the generation; a job that *)
(* a worker holds may be of an older one, never of a later one.           *)
GenerationsInOrder ==
    /\ \A i \in 1..Len(queue) : queue[i].generation = generation
    /\ \A w \in Busy : item[w].generation <= generation

(* Every step keeps the generations in order.                             *)
LEMMA GenerationsStep ==
    ASSUME PoolInv, GenerationsInOrder, [Next]_vars
    PROVE  GenerationsInOrder'
  <1>0. /\ wpc \in [Workers -> Places] /\ queue \in Seq(QueuedJob)
        /\ generation \in Nat /\ Len(queue) \in Nat
        /\ item \in [Workers -> QueuedJob]
        /\ \A w \in Workers : item[w].generation \in Nat
    BY DEF PoolInv, TypeOK, Places, QueuedJob
  <1>1. ASSUME NEW w \in Workers, WorkerTake(w)
        PROVE  GenerationsInOrder'
    <2>1. /\ wpc[w] = "ready" /\ queue # <<>> /\ queue' = Tail(queue)
          /\ item' = [item EXCEPT ![w] = Head(queue)]
          /\ wpc' = [notify_all(wpc) EXCEPT ![w] = "executing"]
          /\ generation' = generation
      BY <1>1 DEF WorkerTake
    <2>2. /\ Len(queue') = Len(queue) - 1 /\ Len(queue) # 0
          /\ Head(queue) = queue[1]
          /\ \A i \in 1..Len(queue') : queue'[i] = queue[i + 1]
      BY <1>0, <2>1
    <2>3. Busy' = Busy \cup {w}
      BY <1>0, <2>1, NotifyAll DEF Busy
    <2>4. item'[w].generation = generation
      BY <1>0, <2>1, <2>2 DEF GenerationsInOrder
    <2>5. \A v \in Busy' \ {w} : item'[v] = item[v] /\ v \in Busy
      BY <1>0, <2>1, <2>3 DEF Busy
    <2>6. \A i \in 1..Len(queue') : queue'[i].generation = generation
      BY <1>0, <2>2, SMTT(30) DEF GenerationsInOrder
    <2>7. \A v \in Busy' : item'[v].generation <= generation
      BY <1>0, <2>4, <2>5, SMTT(30) DEF GenerationsInOrder
    <2> QED BY <2>1, <2>6, <2>7, SMTT(30) DEF GenerationsInOrder
  <1>2. ASSUME NEW w \in Workers, WorkerSettle(w)
        PROVE  GenerationsInOrder'
    <2>1. /\ wpc[w] = "returned"
          /\ item' = [item EXCEPT ![w] = NoJob]
          /\ wpc' = [notify_all(wpc) EXCEPT ![w] = "ready"]
          /\ UNCHANGED <<queue, generation>>
      BY <1>2 DEF WorkerSettle
    <2>2. Busy' = Busy \ {w}
      BY <1>0, <2>1, NotifyAll DEF Busy
    <2>3. \A v \in Busy' : item'[v] = item[v]
      BY <1>0, <2>1, <2>2 DEF Busy
    <2> QED BY <2>1, <2>2, <2>3, SMTT(30) DEF GenerationsInOrder
  <1>3. CASE ~ \E w \in Workers : WorkerTake(w) \/ WorkerSettle(w)
    <2>0. Busy' = Busy
      BY <1>3, BusyUnchanged
    <2>1. CASE TrySubmit
      <3>1. UNCHANGED <<generation, item>>
        BY <2>1 DEF TrySubmit
      <3>2. \A i \in 1..Len(queue') : queue'[i].generation = generation
        <4>1. CASE queue' = queue
          BY <4>1 DEF GenerationsInOrder
        <4>2. CASE queue' = Append(queue, [ticket |-> next_ticket, generation |-> generation])
          <5>1. /\ Len(queue') = Len(queue) + 1
                /\ \A i \in 1..Len(queue) : queue'[i] = queue[i]
                /\ queue'[Len(queue) + 1].generation = generation
            BY <1>0, <4>2
          <5> QED BY <1>0, <5>1 DEF GenerationsInOrder
        <4> QED BY <2>1, <4>1, <4>2 DEF TrySubmit
      <3> QED BY <2>0, <3>1, <3>2 DEF GenerationsInOrder
    <2>2. CASE ~TrySubmit
      <3>1. /\ item' = item
            /\ \/ generation' = generation /\ (queue' = queue \/ queue' = <<>>)
               \/ generation' = generation + 1 /\ queue' = <<>>
        BY <1>3, <2>2, Zenon DEF Next, vars, WorkerStep, WorkerInitialize, WorkerWait,
              WorkerExit, WorkerReturn, SpuriousWakeup, FinishConstruction,
              TakeNext, TakeReady, Deliver, CancelPending, Shutdown,
              JoinReturns, drain_queued_locked
      <3>2. \A i \in 1..Len(queue') : queue'[i].generation = generation'
        BY <3>1 DEF GenerationsInOrder
      <3>3. \A w \in Busy : item[w].generation <= generation'
        BY <1>0, <3>1 DEF GenerationsInOrder, Busy
      <3> QED BY <2>0, <3>1, <3>2, <3>3 DEF GenerationsInOrder
    <2> QED BY <2>1, <2>2
  <1> QED BY <1>1, <1>2, <1>3

(* No thread holds a job of a later generation, in any reachable state.   *)
LEMMA GenerationsInvariant == Spec => []GenerationsInOrder
  <1>1. Init => GenerationsInOrder
    BY DEF Init, GenerationsInOrder, Busy
  <1>2. PoolInv /\ GenerationsInOrder /\ [Next]_vars => GenerationsInOrder'
    BY GenerationsStep
  <1> QED BY <1>1, <1>2, PoolInvariant, PTL DEF Spec

(* completed is a map: it is what it says of each of its tickets.         *)
CompletedIsMap == completed = [t \in DOMAIN completed |-> completed[t]]

(* The map of results stays a map.                                        *)
LEMMA CompletedMapInvariant == Spec => []CompletedIsMap
  <1>1. Init => CompletedIsMap
    BY DEF Init, CompletedIsMap
  <1>2. CompletedIsMap /\ [Next]_vars => CompletedIsMap'
    <2> SUFFICES ASSUME CompletedIsMap, [Next]_vars PROVE CompletedIsMap'
      OBVIOUS
    <2>1. ASSUME NEW tickets, NEW status, completed' = Emplace(completed, tickets, status)
          PROVE  CompletedIsMap'
      BY <2>1 DEF Emplace, CompletedIsMap
    <2>2. ASSUME NEW n, Deliver(n)
          PROVE  CompletedIsMap'
      BY <2>2 DEF Deliver, CompletedIsMap
    <2>3. CASE completed' = completed
      BY <2>3 DEF CompletedIsMap
    <2>4. \/ completed' = completed
          \/ \E n : Deliver(n)
          \/ \E tickets, status : completed' = Emplace(completed, tickets, status)
      BY Zenon DEF Next, vars, WorkerStep, WorkerInitialize, WorkerWait, WorkerTake,
             WorkerExit, WorkerReturn, WorkerSettle, SpuriousWakeup,
             FinishConstruction, TrySubmit, TakeNext, TakeReady,
             CancelPending, Shutdown, JoinReturns, drain_queued_locked, settle_locked
    <2> QED BY <2>1, <2>2, <2>3, <2>4
  <1> QED BY <1>1, <1>2, PTL DEF Spec

-----------------------------------------------------------------------------
(* The service's view of a state *)

(* What the service calls pending is queued or held by a worker.          *)
LEMMA PendingTickets ==
    ASSUME PoolInv
    PROVE  /\ Service!Pending = Queued \cup Running
           /\ Queued \cap Running = {}
           /\ Doomed \subseteq Running
           /\ Doomed \cap Queued = {}
  <1>1. next_delivery \in Nat /\ next_ticket \in Nat
    BY PoolAssumption DEF PoolInv, TypeOK
  <1>2. (next_delivery - 1) + 1 = next_delivery
    BY <1>1
  <1>3. Service!Pending = Queued \cup Running
    BY <1>2 DEF Service!Pending, PoolInv, TicketsAccountedFor
  <1>4. Queued \cap Running = {}
    <2> SUFFICES ASSUME NEW w \in Busy, NEW i \in 1..Len(queue),
                        item[w].ticket = queue[i].ticket
                 PROVE  FALSE
      BY DEF Running, Queued, TicketsOf
    <2>1. queue[i].ticket \in Nat
      BY QueuedFinite DEF Queued, TicketsOf
    <2>2. item[w].ticket < queue[i].ticket
      BY DEF PoolInv, TicketsAccountedFor
    <2> QED BY <2>1, <2>2
  <1>5. Doomed \subseteq Running
    BY DEF Doomed, Running
  <1> QED BY <1>3, <1>4, <1>5

(* Steps that the service does not see.                                   *)
LEMMA Stutters ==
    ASSUME UNCHANGED <<next_ticket, next_delivery, completed, stopping>>,
           Doomed' = Doomed
    PROVE  UNCHANGED Service!serviceVars
  BY DEF Service!serviceVars

(* Settling the queued tickets, none of which is doomed.                  *)
LEMMA DrainSettles ==
    ASSUME PoolInv, CompletedIsMap, NEW status \in Statuses,
           drain_queued_locked(status), Doomed' = Doomed,
           UNCHANGED <<next_ticket, next_delivery, stopping>>
    PROVE  [Service!Next]_(Service!serviceVars)
  <1>1. completed' = Emplace(completed, Queued, status)
    BY DEF drain_queued_locked, settle_locked
  <1>2. CASE Queued = {}
    <2>1. completed' = completed
      BY <1>1, <1>2 DEF Emplace, CompletedIsMap
    <2> QED BY <2>1, Stutters
  <1>3. CASE Queued # {}
    <2> DEFINE fresh == [t \in Queued |-> status]
    <2>1. Queued \in (SUBSET Service!Pending) \ {{}}
      BY <1>3, PendingTickets
    <2>2. fresh \in [Queued -> Statuses]
      OBVIOUS
    <2>3. Queued \cap Doomed = {} /\ Doomed' = Doomed \ Queued
      BY PendingTickets
    <2>4. completed' = Service!Extend(fresh)
      BY <1>1 DEF Emplace, Service!Extend
    <2>5. Service!Settle
      BY <2>1, <2>2, <2>3, <2>4 DEF Service!Settle
    <2> QED BY <2>5 DEF Service!Next
  <1> QED BY <1>2, <1>3

(* A popped job is of the current generation: it is not doomed.           *)
LEMMA TakeStutters ==
    ASSUME PoolInv, GenerationsInOrder, NEW w \in Workers, WorkerTake(w)
    PROVE  UNCHANGED Service!serviceVars
  <1>0. /\ wpc \in [Workers -> Places] /\ queue \in Seq(QueuedJob)
        /\ item \in [Workers -> QueuedJob]
    BY DEF PoolInv, TypeOK, Places
  <1>1. /\ wpc[w] = "ready" /\ queue # <<>>
        /\ item' = [item EXCEPT ![w] = Head(queue)]
        /\ wpc' = [notify_all(wpc) EXCEPT ![w] = "executing"]
        /\ UNCHANGED <<completed, next_ticket, next_delivery, stopping, generation>>
    BY DEF WorkerTake
  <1>2. Busy' = Busy \cup {w} /\ w \notin Busy
    BY <1>0, <1>1, NotifyAll DEF Busy
  <1>3. /\ item'[w].generation = generation
        /\ \A v \in Busy : item'[v] = item[v]
    <2>1. Head(queue) = queue[1] /\ 1 \in 1..Len(queue)
      BY <1>0, <1>1
    <2>2. item'[w] = queue[1] /\ \A v \in Busy : item'[v] = item[v]
      BY <1>0, <1>1, <1>2, <2>1, SMTT(30) DEF Busy
    <2> QED BY <2>1, <2>2 DEF GenerationsInOrder
  <1>4. Doomed' = Doomed
    BY <1>1, <1>2, <1>3, SMTT(30) DEF Doomed
  <1> QED BY <1>1, <1>4, Stutters

(* A worker settles the ticket it holds, as CANCELLED if it is doomed.    *)
LEMMA SettleSettles ==
    ASSUME PoolInv, NEW w \in Workers, WorkerSettle(w)
    PROVE  Service!Settle
  <1> DEFINE S == {item[w].ticket}
             fresh == [t \in S |-> SettledStatus(w)]
  <1>0. /\ wpc \in [Workers -> Places]
        /\ item \in [Workers -> QueuedJob] /\ result \in [Workers -> Statuses]
    BY SMTT(30) DEF PoolInv, TypeOK, Places
  <1>1. /\ wpc[w] = "returned"
        /\ completed' = Emplace(completed, {item[w].ticket}, SettledStatus(w))
        /\ item' = [item EXCEPT ![w] = NoJob]
        /\ wpc' = [notify_all(wpc) EXCEPT ![w] = "ready"]
        /\ UNCHANGED <<next_ticket, next_delivery, stopping, generation>>
    BY DEF WorkerSettle, settle_locked
  <1>2. Busy' = Busy \ {w} /\ w \in Busy
    BY <1>0, <1>1, NotifyAll DEF Busy
  <1>3. \A v \in Busy : item[v].ticket = item[w].ticket => v = w
    BY <1>2 DEF PoolInv, TicketsAccountedFor
  <1>4. S \in (SUBSET Service!Pending) \ {{}}
    BY <1>2, PendingTickets DEF Running
  <1>5. fresh \in [S -> Statuses]
    BY <1>0 DEF SettledStatus, Statuses
  <1>6. \A t \in S \cap Doomed : fresh[t] = "CANCELLED"
    BY <1>3, SMTT(30) DEF Doomed, SettledStatus
  <1>7. completed' = Service!Extend(fresh)
    BY <1>1 DEF Emplace, Service!Extend
  <1>8. Doomed' = Doomed \ S
    <2>1. \A v \in Busy' : item'[v] = item[v]
      BY <1>0, <1>1, <1>2, SMTT(30) DEF Busy
    <2>2. Doomed' = {item[v].ticket : v \in {u \in Busy \ {w} : item[u].generation # generation}}
      BY <1>1, <1>2, <2>1 DEF Doomed
    <2> QED BY <1>3, <2>2, Zenon DEF Doomed
  <1> QED BY <1>1, <1>4, <1>5, <1>6, <1>7, <1>8, SMTT(30) DEF Service!Settle

(* try_submit assigns the next ticket while there is room.                *)
LEMMA SubmitAccepts ==
    ASSUME PoolInv, TrySubmit, Busy' = Busy
    PROVE  Service!Accept
  <1>0. /\ next_delivery \in Nat /\ next_ticket \in Nat /\ MaxQueued \in Nat
        /\ Requested \in Nat
    BY PoolAssumption, FS_CardinalityType DEF PoolInv, TypeOK, Requested
  <1>1. /\ ~stopping
        /\ MaxQueued # 0 => Outstanding < Requested + MaxQueued
        /\ next_ticket' = next_ticket + 1
        /\ UNCHANGED <<next_delivery, stopping, generation, item>>
    BY DEF TrySubmit, Accepts
  <1>2. Service!HasRoom
    BY <1>0, <1>1 DEF Service!HasRoom, Outstanding
  <1>3. Doomed' = Doomed
    BY <1>1 DEF Doomed
  <1>4. \/ completed' = completed
        \/ completed' = Service!Extend([t \in {(next_ticket - 1) + 1} |-> "UNAVAILABLE"])
    <2>1. CASE completed' = Emplace(completed, {next_ticket}, "UNAVAILABLE")
      <3>1. (next_ticket - 1) + 1 = next_ticket
        BY <1>0
      <3> QED BY <2>1, <3>1 DEF Emplace, Service!Extend
    <2> QED BY <2>1 DEF TrySubmit, settle_locked
  <1>5. (next_ticket - 1)' = (next_ticket - 1) + 1 /\ (next_delivery - 1)' = next_delivery - 1
    BY <1>0, <1>1
  <1> QED BY <1>1, <1>2, <1>3, <1>4, <1>5, SMTT(30) DEF Service!Accept

(* take_next and take_ready take the oldest outcomes.                     *)
LEMMA DeliverTakes ==
    ASSUME PoolInv, NEW n \in Nat \ {0},
           next_delivery..(next_delivery + n - 1) \subseteq DOMAIN completed,
           Deliver(n), Busy' = Busy
    PROVE  Service!Take
  <1>0. next_delivery \in Nat /\ next_ticket \in Nat
    BY PoolAssumption DEF PoolInv, TypeOK
  <1>1. /\ completed' = [t \in DOMAIN completed \ (next_delivery..(next_delivery + n - 1))
                            |-> completed[t]]
        /\ next_delivery' = next_delivery + n
        /\ UNCHANGED <<next_ticket, stopping, generation, item>>
    BY DEF Deliver
  <1>2. /\ (next_delivery - 1) + 1 = next_delivery
        /\ (next_delivery - 1) + n = next_delivery + n - 1
    BY <1>0
  <1>3. next_delivery + n - 1 \in next_delivery..(next_ticket - 1)
    <2>1. next_delivery + n - 1 \in next_delivery..(next_delivery + n - 1)
      BY <1>0
    <2> QED BY <2>1 DEF PoolInv, TicketsAccountedFor
  <1>4. n \in 1..((next_ticket - 1) - (next_delivery - 1))
    BY <1>0, <1>3
  <1>5. (next_delivery - 1)' = (next_delivery - 1) + n
    BY <1>0, <1>1
  <1>6. Doomed' = Doomed
    BY <1>1 DEF Doomed
  <1> QED BY <1>1, <1>2, <1>4, <1>5, <1>6 DEF Service!Take

(* cancel_pending and shutdown settle what is queued and doom what runs.  *)
LEMMA CancelCancels ==
    ASSUME PoolInv, GenerationsInOrder, ~stopping,
           drain_queued_locked("CANCELLED"), generation' = generation + 1,
           stopping' \in BOOLEAN, Busy' = Busy,
           UNCHANGED <<next_ticket, next_delivery, item>>
    PROVE  Service!Cancel
  <1>0. /\ item \in [Workers -> QueuedJob] /\ generation \in Nat
        /\ \A w \in Busy : item[w].generation \in Nat
    BY DEF PoolInv, TypeOK, QueuedJob, Busy
  <1>1. completed' = Emplace(completed, Queued, "CANCELLED")
    BY DEF drain_queued_locked, settle_locked
  <1>2. completed' = Service!Extend([t \in Queued |-> "CANCELLED"])
    BY <1>1 DEF Emplace, Service!Extend
  <1>3. \A w \in Busy : item[w].generation # generation'
    BY <1>0, SMTT(30) DEF GenerationsInOrder
  <1>4. Doomed' = Running
    BY <1>3 DEF Doomed, Running
  <1>5. Queued \in SUBSET Service!Pending /\ Doomed' = Service!Pending \ Queued
    BY <1>4, PendingTickets
  <1> QED BY <1>2, <1>5 DEF Service!Cancel

-----------------------------------------------------------------------------
(* Every step of the pool is one step of the service, or none.            *)
LEMMA PoolSimulates ==
    ASSUME PoolInv, GenerationsInOrder, CompletedIsMap, [Next]_vars
    PROVE  [Service!Next]_(Service!serviceVars)
  <1>0. Outstanding \in Nat /\ next_delivery \in Nat /\ stopping \in BOOLEAN
    BY PoolAssumption DEF PoolInv, TypeOK, Outstanding
  <1>1. ASSUME NEW w \in Workers, WorkerTake(w)
        PROVE  UNCHANGED Service!serviceVars
    BY <1>1, TakeStutters
  <1>2. ASSUME NEW w \in Workers, WorkerSettle(w)
        PROVE  Service!Next
    BY <1>2, SettleSettles DEF Service!Next
  <1>3. CASE ~ \E w \in Workers : WorkerTake(w) \/ WorkerSettle(w)
    <2>0. Busy' = Busy
      BY <1>3, BusyUnchanged
    <2>1. ASSUME UNCHANGED <<item, generation>>
          PROVE  Doomed' = Doomed
      BY <2>0, <2>1 DEF Doomed
    <2>2. ASSUME NEW w \in Workers, WorkerInitialize(w)
          PROVE  [Service!Next]_(Service!serviceVars)
      <3>1. UNCHANGED <<next_ticket, next_delivery, stopping, generation, item>>
        BY <2>2 DEF WorkerInitialize
      <3>2. drain_queued_locked("UNAVAILABLE") \/ completed' = completed
        BY <2>2 DEF WorkerInitialize
      <3> QED BY <2>1, <3>1, <3>2, DrainSettles, Stutters DEF Statuses
    <2>3. CASE FinishConstruction
      <3>1. UNCHANGED <<next_ticket, next_delivery, stopping, generation, item>>
        BY <2>3 DEF FinishConstruction
      <3>2. drain_queued_locked("UNAVAILABLE") \/ completed' = completed
        BY <2>3 DEF FinishConstruction
      <3> QED BY <2>1, <3>1, <3>2, DrainSettles, Stutters DEF Statuses
    <2>4. ASSUME NEW w \in Workers,
                 WorkerWait(w) \/ SpuriousWakeup(w) \/ WorkerExit(w) \/ WorkerReturn(w)
          PROVE  UNCHANGED Service!serviceVars
      <3>1. UNCHANGED <<next_ticket, next_delivery, completed, stopping, generation, item>>
        BY <2>4 DEF WorkerWait, SpuriousWakeup, WorkerExit, WorkerReturn
      <3> QED BY <2>1, <3>1, Stutters
    <2>5. CASE TrySubmit
      BY <2>0, <2>5, SubmitAccepts DEF Service!Next
    <2>6. CASE TakeNext
      <3>1. next_delivery..(next_delivery + 1 - 1) \subseteq DOMAIN completed
        BY <1>0, <2>6 DEF TakeNext
      <3> QED BY <2>0, <2>6, <3>1, DeliverTakes DEF TakeNext, Service!Next
    <2>7. ASSUME NEW maximum \in 0..2, TakeReady(maximum)
          PROVE  Service!Next
      <3>1. PICK n \in 1..Outstanding :
               /\ next_delivery..(next_delivery + n - 1) \subseteq DOMAIN completed
               /\ Deliver(n)
        BY <2>7 DEF TakeReady
      <3>2. n \in Nat \ {0}
        BY <1>0
      <3> QED BY <2>0, <3>1, <3>2, DeliverTakes DEF Service!Next
    <2>8. CASE CancelPending
      <3>1. /\ ~stopping /\ generation' = generation + 1 /\ stopping' = stopping
            /\ drain_queued_locked("CANCELLED")
            /\ UNCHANGED <<next_ticket, next_delivery, item>>
        BY <2>8 DEF CancelPending
      <3> QED BY <1>0, <2>0, <3>1, CancelCancels DEF Service!Next
    <2>9. CASE Shutdown
      <3>1. CASE stopping
        <4>1. UNCHANGED <<next_ticket, next_delivery, completed, stopping, generation, item>>
          BY <2>9, <3>1 DEF Shutdown
        <4> QED BY <2>1, <4>1, Stutters
      <3>2. CASE ~stopping
        <4>1. /\ generation' = generation + 1 /\ stopping' = TRUE
              /\ drain_queued_locked("CANCELLED")
              /\ UNCHANGED <<next_ticket, next_delivery, item>>
          BY <2>9, <3>2, Zenon DEF Shutdown
        <4>2. stopping' \in BOOLEAN
          BY <4>1, Zenon
        <4> QED BY <2>0, <3>2, <4>1, <4>2, CancelCancels DEF Service!Next
      <3> QED BY <3>1, <3>2
    <2>10. CASE JoinReturns \/ UNCHANGED vars
      <3>1. UNCHANGED <<next_ticket, next_delivery, completed, stopping, generation, item>>
        BY <2>10 DEF JoinReturns, vars
      <3> QED BY <2>1, <3>1, Stutters
    <2> QED BY <1>3, <2>2, <2>3, <2>4, <2>5, <2>6, <2>7, <2>8, <2>9, <2>10
            DEF Next, WorkerStep
  <1> QED BY <1>1, <1>2, <1>3

(* emulation_workers.hpp keeps its promise for every number of workers,   *)
(* queue bound and ticket limit: hiding threads, queue and counters, the  *)
(* pool accepts tickets in order and within capacity, gives each one      *)
(* outcome, delivers outcomes in ticket order, and ends CANCELLED every   *)
(* ticket that was pending when a cancellation or a shutdown came.        *)
THEOREM PoolImplementsService == Spec => ImplementsService
  <1>1. Init => Service!Init
    BY DEF Init, Service!Init, Doomed, Busy
  <1>2. PoolInv /\ GenerationsInOrder /\ CompletedIsMap /\ [Next]_vars
            => [Service!Next]_(Service!serviceVars)
    BY PoolSimulates
  <1> QED BY <1>1, <1>2, PoolInvariant, GenerationsInvariant,
             CompletedMapInvariant, PTL DEF Spec, ImplementsService, Service!Spec
=============================================================================
