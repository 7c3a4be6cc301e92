------------------------------- MODULE DelayQueue -------------------------------
(***************************************************************************)
(* The delay queue of unpaid orders: two zsets in Redis, polled by every   *)
(* process that believes to be the leader, each with a few goroutines that *)
(* cancel orders under a lock that may expire.  Redis commands, scripts    *)
(* and the cancelling transaction are atomic.                              *)
(***************************************************************************)
EXTENDS Naturals, FiniteSets, Nil

CONSTANTS
    QueueOrder,
    Poller,         \* goroutines that run DelayQueue.Start's function
    Worker,         \* goroutines that handle an order: maxCancelWorkers of each poller
    PollerOf,       \* the poller each of them works for
    Batch,          \* batchSize
    MaxPollerCrash, \* bound on the number of crashes
    QueueFaults

(***************************************************************************)
(* StoreError  a command to Redis fails                                    *)
(* TxError     the cancelling transaction fails and is rolled back         *)
(* LockExpiry  the 30 seconds of lock:order:<order_no> end                 *)
(***************************************************************************)
QueueFault == {"StoreError", "TxError", "LockExpiry"}

ASSUME DelayQueueAssumption ==
    /\ PollerOf \in [Worker -> Poller]
    /\ Batch \in Nat \ {0}
    /\ MaxPollerCrash \in Nat
    /\ QueueFaults \subseteq QueueFault
    /\ None \notin Worker \cup QueueOrder

VARIABLES
    queued,     \* seckill_order.status, which tells here who cancelled
    due,        \* members of delay:orders
    processing, \* members of delay:orders:processing
    elapsed,    \* orders whose 15 minutes are over
    stale,      \* members of processing whose 60 seconds are over
    orderLock,  \* the worker whose token is in lock:order:<order_no>, or None
    restored,   \* how often the units of an order were given back to Redis
    ppc,        \* what each poller does next
    todo,       \* the orders it has claimed and not yet dispatched
    wpc,        \* what each worker does next
    task,       \* the order it handles
    pollerCrashes

redisVars == <<due, processing, stale, orderLock>>
pollerVars == <<ppc, todo>>
workerVars == <<wpc, task>>
queueVars == <<queued, elapsed, redisVars, restored, pollerVars, workerVars, pollerCrashes>>

\* Closed by its buyer, who paid or cancelled, or cancelled by the queue.
Status == {"none", "Pending", "Closed", "TimedOut"}
Steps == {"idle", "lock", "tx", "restock", "unlock", "fail", "remove"}

QueueTypeOK ==
    /\ queued \in [QueueOrder -> Status]
    /\ due \subseteq QueueOrder
    /\ processing \subseteq QueueOrder
    /\ due \cap processing = {}
    /\ elapsed \subseteq QueueOrder
    /\ stale \subseteq processing
    /\ orderLock \in [QueueOrder -> Worker \cup {None}]
    /\ restored \in [QueueOrder -> Nat]
    /\ ppc \in [Poller -> {"requeue", "claim", "dispatch"}]
    /\ todo \in [Poller -> SUBSET QueueOrder]
    /\ wpc \in [Worker -> Steps]
    /\ task \in [Worker -> QueueOrder \cup {None}]
    /\ \A w \in Worker : task[w] = None <=> wpc[w] = "idle"
    /\ pollerCrashes \in 0 .. MaxPollerCrash

QueueInit ==
    /\ queued = [o \in QueueOrder |-> "none"]
    /\ due = {} /\ processing = {} /\ elapsed = {} /\ stale = {}
    /\ orderLock = [o \in QueueOrder |-> None]
    /\ restored = [o \in QueueOrder |-> 0]
    /\ ppc = [p \in Poller |-> "requeue"]
    /\ todo = [p \in Poller |-> {}]
    /\ wpc = [w \in Worker |-> "idle"]
    /\ task = [w \in Worker |-> None]
    /\ pollerCrashes = 0

-------------------------------------------------------------------------------
(* Orders, their buyers and the clock. *)

\* ConfirmSeckillOrder creates the order and adds it to the queue.
Add(o) ==
    /\ queued[o] = "none"
    /\ queued' = [queued EXCEPT ![o] = "Pending"]
    /\ due' = due \cup {o}
    /\ UNCHANGED <<elapsed, processing, stale, orderLock, restored, pollerVars,
                   workerVars, pollerCrashes>>

\* The buyer pays, or cancels without the lock of the queue.
Close(o) ==
    /\ queued[o] = "Pending"
    /\ queued' = [queued EXCEPT ![o] = "Closed"]
    /\ UNCHANGED <<elapsed, redisVars, restored, pollerVars, workerVars, pollerCrashes>>

Elapse(o) ==
    /\ o \in due \ elapsed
    /\ elapsed' = elapsed \cup {o}
    /\ UNCHANGED <<queued, redisVars, restored, pollerVars, workerVars, pollerCrashes>>

ProcessingExpires(o) ==
    /\ o \in processing \ stale
    /\ stale' = stale \cup {o}
    /\ UNCHANGED <<queued, elapsed, due, processing, orderLock, restored, pollerVars,
                   workerVars, pollerCrashes>>

LockExpires(o) ==
    /\ "LockExpiry" \in QueueFaults
    /\ orderLock[o] # None
    /\ orderLock' = [orderLock EXCEPT ![o] = None]
    /\ UNCHANGED <<queued, elapsed, due, processing, stale, restored, pollerVars,
                   workerVars, pollerCrashes>>

-------------------------------------------------------------------------------
(* runOnce *)

PollerGoes(p, from, to) == ppc[p] = from /\ ppc' = [ppc EXCEPT ![p] = to]

\* The batches a script may take out of a zset.
Batches(S) == {T \in SUBSET S : Cardinality(T) =
                    IF Cardinality(S) < Batch THEN Cardinality(S) ELSE Batch}

\* requeueExpiredProcessing; its error is only logged.
Requeue(p) ==
    /\ PollerGoes(p, "requeue", "claim")
    /\ \/ \E T \in Batches(stale) :
            /\ due' = due \cup T
            /\ processing' = processing \ T
            /\ stale' = stale \ T
       \/ "StoreError" \in QueueFaults /\ UNCHANGED <<due, processing, stale>>
    /\ UNCHANGED <<queued, elapsed, orderLock, restored, todo, workerVars, pollerCrashes>>

\* Mutant: an order leaves the queue when it is claimed.
ClaimAndForget(p) ==
    /\ ppc[p] = "claim"
    /\ \E T \in Batches(due \cap elapsed) :
        /\ due' = due \ T
        /\ todo' = [todo EXCEPT ![p] = T]
        /\ ppc' = [ppc EXCEPT ![p] = IF T = {} THEN "requeue" ELSE "dispatch"]
    /\ UNCHANGED <<queued, elapsed, processing, stale, orderLock, restored, workerVars,
                   pollerCrashes>>

\* claimDueOrders
Claim(p) ==
    /\ ppc[p] = "claim"
    /\ \E T \in Batches(due \cap elapsed) :
        /\ due' = due \ T
        /\ processing' = processing \cup T
        /\ todo' = [todo EXCEPT ![p] = T]
        /\ ppc' = [ppc EXCEPT ![p] = IF T = {} THEN "requeue" ELSE "dispatch"]
    /\ UNCHANGED <<queued, elapsed, stale, orderLock, restored, workerVars, pollerCrashes>>

ClaimFails(p) ==
    /\ "StoreError" \in QueueFaults
    /\ PollerGoes(p, "claim", "requeue")
    /\ UNCHANGED <<queued, elapsed, redisVars, restored, todo, workerVars, pollerCrashes>>

\* dispatchCancel waits until one of the poller's goroutines is free.
Dispatch(p, w) ==
    /\ ppc[p] = "dispatch"
    /\ PollerOf[w] = p
    /\ wpc[w] = "idle"
    /\ \E o \in todo[p] :
        /\ task' = [task EXCEPT ![w] = o]
        /\ todo' = [todo EXCEPT ![p] = @ \ {o}]
        /\ ppc' = [ppc EXCEPT ![p] = IF todo[p] = {o} THEN "requeue" ELSE "dispatch"]
    /\ wpc' = [wpc EXCEPT ![w] = "lock"]
    /\ UNCHANGED <<queued, elapsed, redisVars, restored, pollerCrashes>>

-------------------------------------------------------------------------------
(* handleTimeout and what dispatchCancel's goroutine does after it. *)

WorkerGoes(w, from, to) ==
    /\ wpc[w] = from
    /\ wpc' = [wpc EXCEPT ![w] = to]
    /\ task' = [task EXCEPT ![w] = IF to = "idle" THEN None ELSE @]

Acquire(w) ==
    /\ WorkerGoes(w, "lock", "tx")
    /\ orderLock[task[w]] = None
    /\ orderLock' = [orderLock EXCEPT ![task[w]] = w]
    /\ UNCHANGED <<queued, elapsed, due, processing, stale, restored, pollerVars,
                   pollerCrashes>>

\* Busy, or an error: the order stays in processing.
AcquireFails(w) ==
    /\ WorkerGoes(w, "lock", "idle")
    /\ orderLock[task[w]] # None \/ "StoreError" \in QueueFaults
    /\ UNCHANGED <<queued, elapsed, redisVars, restored, pollerVars, pollerCrashes>>

\* Mutant: the status of the order is not checked.
CancelAnyway(w) ==
    /\ WorkerGoes(w, "tx", "restock")
    /\ queued' = [queued EXCEPT ![task[w]] = "TimedOut"]
    /\ UNCHANGED <<elapsed, redisVars, restored, pollerVars, pollerCrashes>>

\* The transaction of CancelTimeoutOrder: the row lock of the order decides who
\* finds it pending.
CancelTimeoutOrder(w) ==
    /\ \/ /\ WorkerGoes(w, "tx", "restock")
          /\ queued[task[w]] = "Pending"
          /\ queued' = [queued EXCEPT ![task[w]] = "TimedOut"]
       \/ /\ WorkerGoes(w, "tx", "unlock")
          /\ queued[task[w]] # "Pending"
          /\ queued' = queued
    /\ UNCHANGED <<elapsed, redisVars, restored, pollerVars, pollerCrashes>>

CancelFails(w) ==
    /\ "TxError" \in QueueFaults
    /\ WorkerGoes(w, "tx", "fail")
    /\ UNCHANGED <<queued, elapsed, redisVars, restored, pollerVars, pollerCrashes>>

\* RollbackStock and RemoveUserBuy, whose errors are only logged.
Restock(w) ==
    /\ WorkerGoes(w, "restock", "unlock")
    /\ \/ restored' = [restored EXCEPT ![task[w]] = @ + 1]
       \/ "StoreError" \in QueueFaults /\ restored' = restored
    /\ UNCHANGED <<queued, elapsed, redisVars, pollerVars, pollerCrashes>>

\* Mutant: a failed cancellation leaves the queue like one that succeeded.
UnlockAndRemove(w) ==
    /\ WorkerGoes(w, "unlock", "remove") \/ WorkerGoes(w, "fail", "remove")
    /\ orderLock' = [orderLock EXCEPT ![task[w]] = IF @ = w THEN None ELSE @]
    /\ UNCHANGED <<queued, elapsed, due, processing, stale, restored, pollerVars,
                   pollerCrashes>>

\* The deferred script deletes the lock if it still holds the worker's token.
Unlock(w) ==
    /\ WorkerGoes(w, "unlock", "remove") \/ WorkerGoes(w, "fail", "idle")
    /\ orderLock' = [orderLock EXCEPT ![task[w]] = IF @ = w THEN None ELSE @]
    /\ UNCHANGED <<queued, elapsed, due, processing, stale, restored, pollerVars,
                   pollerCrashes>>

\* ZREM of the order that was handled.
Remove(w) ==
    /\ WorkerGoes(w, "remove", "idle")
    /\ \/ /\ processing' = processing \ {task[w]}
          /\ stale' = stale \ {task[w]}
       \/ "StoreError" \in QueueFaults /\ UNCHANGED <<processing, stale>>
    /\ UNCHANGED <<queued, elapsed, due, orderLock, restored, pollerVars, pollerCrashes>>

\* A process stops, or its context is cancelled; its locks stay in Redis.
PollerCrash(p) ==
    /\ pollerCrashes < MaxPollerCrash
    /\ pollerCrashes' = pollerCrashes + 1
    /\ ppc' = [ppc EXCEPT ![p] = "requeue"]
    /\ todo' = [todo EXCEPT ![p] = {}]
    /\ wpc' = [w \in Worker |-> IF PollerOf[w] = p THEN "idle" ELSE wpc[w]]
    /\ task' = [w \in Worker |-> IF PollerOf[w] = p THEN None ELSE task[w]]
    /\ UNCHANGED <<queued, elapsed, redisVars, restored>>

-------------------------------------------------------------------------------

runOnce(p) ==
    \/ Requeue(p) \/ Claim(p) \/ ClaimFails(p)
    \/ \E w \in Worker : Dispatch(p, w)

handleTimeout(w) ==
    \/ Acquire(w) \/ AcquireFails(w)
    \/ CancelTimeoutOrder(w) \/ CancelFails(w)
    \/ Restock(w) \/ Unlock(w) \/ Remove(w)

QueueNext ==
    \/ \E o \in QueueOrder :
        Add(o) \/ Close(o) \/ Elapse(o) \/ ProcessingExpires(o) \/ LockExpires(o)
    \/ \E p \in Poller : runOnce(p) \/ PollerCrash(p)
    \/ \E w \in Worker : handleTimeout(w)

QueueSpec == QueueInit /\ [][QueueNext]_queueVars

\* Time passes, goroutines are scheduled, and MySQL and Redis do not fail for
\* ever.  An order is claimed in the end although a batch is limited, because
\* ZRANGEBYSCORE takes the earliest first and a requeued order goes to the back.
QueueFairness ==
    /\ \A o \in QueueOrder :
        /\ WF_queueVars(Elapse(o)) /\ WF_queueVars(ProcessingExpires(o))
        /\ WF_queueVars(LockExpires(o))
        /\ SF_queueVars(\E p \in Poller : Requeue(p) /\ o \notin stale')
        /\ SF_queueVars(\E p \in Poller : Claim(p) /\ o \notin due')
    /\ \A p \in Poller : WF_queueVars(runOnce(p))
    /\ \A w \in Worker :
        /\ WF_queueVars(handleTimeout(w))
        /\ SF_queueVars(Acquire(w)) /\ SF_queueVars(CancelTimeoutOrder(w))

QueueFairSpec == QueueSpec /\ QueueFairness

-------------------------------------------------------------------------------
(* Properties. *)

\* An order is in one of the two zsets from Add until it is closed: no crash,
\* expiry, failed or repeated cancellation takes it out of both.
NothingForgotten == \A o \in QueueOrder : queued[o] = "Pending" => o \in due \cup processing

\* However many pollers and workers met over an order, its units went back to
\* Redis once, and only when the order was cancelled here.
RestoredOnce ==
    \A o \in QueueOrder :
        restored[o] > 0 => restored[o] = 1 /\ queued[o] = "TimedOut"

\* The two zsets are the queue: whatever its pollers and workers do is a step of
\* TimeoutQueue.
Queue == INSTANCE TimeoutQueue WITH
            Order <- QueueOrder, status <- queued, tracked <- due \cup processing

ImplementsQueue == Queue!Init /\ [][Queue!Next]_Queue!vars

\* The steps of the queue are taken as promised: time-outs are not put off for ever.
ImplementsFairQueue == Queue!Spec
===============================================================================
