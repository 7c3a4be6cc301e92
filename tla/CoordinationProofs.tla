-------------------------- MODULE CoordinationProofs --------------------------
(***************************************************************************)
(* What goroutines of several processes share through a store.             *)
(*                                                                         *)
(* What is handed over for later and worked off by others: the delay queue *)
(* keeps an order until it is closed and gives its units back once, and a  *)
(* partition hands every message to a consumer before it is behind the     *)
(* committed offset.  For any number of orders, pollers, workers, members  *)
(* and messages and any batch size; both implement what they promise.      *)
(*                                                                         *)
(* What rests on the time to live of a key: the lease of the leader, for   *)
(* any number of processes, and the token bucket, for every limit, burst   *)
(* and window.                                                             *)
(***************************************************************************)
EXTENDS DelayQueue, PartitionConsumer, LeaderElection, TokenBucket, TLAPS

-------------------------------------------------------------------------------
(* DelayQueue. *)

\* What a batch is, of which nothing more is needed.
LEMMA BatchWithin == ASSUME NEW S, NEW T \in Batches(S) PROVE T \subseteq S
  BY DEF Batches

\* What the queue knows of the orders it holds: they exist, those that were
\* claimed are overdue, and those a worker is done with are closed.
Known ==
    /\ \A o \in due \cup elapsed : queued[o] # "none"
    /\ processing \subseteq elapsed
    /\ \A p \in Poller : todo[p] \subseteq elapsed
    /\ \A w \in Worker : wpc[w] # "idle" => task[w] \in elapsed
    /\ \A w \in Worker : wpc[w] \in {"restock", "unlock", "remove"} =>
        queued[task[w]] # "Pending"
    /\ NothingForgotten

\* Each step keeps the types; the two zsets stay disjoint.
LEMMA QueueTypeStep ==
    ASSUME QueueTypeOK, Known, [QueueNext]_queueVars
    PROVE  QueueTypeOK'
<1> USE DelayQueueAssumption
<1>0. CASE UNCHANGED queueVars
  BY <1>0 DEF QueueTypeOK, queueVars, redisVars, pollerVars, workerVars
<1>1. ASSUME NEW o \in QueueOrder,
             \/ Add(o) \/ Close(o) \/ Elapse(o)
             \/ ProcessingExpires(o) \/ LockExpires(o)
      PROVE  QueueTypeOK'
  BY <1>1 DEF QueueTypeOK, Known, Status, Add, Close, Elapse, ProcessingExpires,
              LockExpires, redisVars, pollerVars, workerVars
<1>2. ASSUME NEW p \in Poller, runOnce(p)
      PROVE  QueueTypeOK'
  <2>1. CASE Requeue(p)
    BY <2>1, BatchWithin DEF QueueTypeOK, Requeue, PollerGoes, workerVars
  <2>2. CASE Claim(p)
    BY <2>2, BatchWithin DEF QueueTypeOK, Claim, workerVars
  <2>3. CASE ClaimFails(p)
    BY <2>3 DEF QueueTypeOK, ClaimFails, PollerGoes, redisVars, workerVars
  <2>4. ASSUME NEW w \in Worker, Dispatch(p, w)
        PROVE  QueueTypeOK'
    BY <2>4 DEF QueueTypeOK, Dispatch, redisVars, Steps
  <2> QED
    BY <1>2, <2>1, <2>2, <2>3, <2>4 DEF runOnce
<1>3. ASSUME NEW p \in Poller, PollerCrash(p)
      PROVE  QueueTypeOK'
  BY <1>3 DEF QueueTypeOK, PollerCrash, redisVars, Steps
<1>4. ASSUME NEW w \in Worker, handleTimeout(w)
      PROVE  QueueTypeOK'
  <2>1. wpc[w] # "idle" => task[w] \in QueueOrder
    BY DEF QueueTypeOK
  <2>2. CASE Acquire(w) \/ AcquireFails(w)
    BY <2>1, <2>2 DEF QueueTypeOK, Acquire, AcquireFails, WorkerGoes, redisVars, pollerVars, Steps
  <2>3. CASE CancelTimeoutOrder(w) \/ CancelFails(w)
    BY <2>1, <2>3 DEF QueueTypeOK, Status, CancelTimeoutOrder, CancelFails, WorkerGoes,
                      redisVars, pollerVars, Steps
  <2>4. CASE Restock(w)
    BY <2>1, <2>4 DEF QueueTypeOK, Restock, WorkerGoes, redisVars, pollerVars, Steps
  <2>5. CASE Unlock(w)
    BY <2>1, <2>5 DEF QueueTypeOK, Unlock, WorkerGoes, pollerVars, Steps
  <2>6. CASE Remove(w)
    BY <2>1, <2>6 DEF QueueTypeOK, Remove, WorkerGoes, pollerVars, Steps
  <2> QED
    BY <1>4, <2>2, <2>3, <2>4, <2>5, <2>6 DEF handleTimeout
<1> QED
  BY <1>0, <1>1, <1>2, <1>3, <1>4 DEF QueueNext

\* Each step keeps what the queue knows.
LEMMA KnownStep ==
    ASSUME QueueTypeOK, Known, [QueueNext]_queueVars
    PROVE  Known'
<1> USE DelayQueueAssumption
<1>0. CASE UNCHANGED queueVars
  BY <1>0 DEF Known, NothingForgotten, queueVars, redisVars, pollerVars, workerVars
<1>1. ASSUME NEW o \in QueueOrder,
             \/ Add(o) \/ Close(o) \/ Elapse(o)
             \/ ProcessingExpires(o) \/ LockExpires(o)
      PROVE  Known'
  BY <1>1 DEF QueueTypeOK, Known, NothingForgotten, Add, Close, Elapse,
              ProcessingExpires, LockExpires, redisVars, pollerVars, workerVars
<1>2. ASSUME NEW p \in Poller, runOnce(p)
      PROVE  Known'
  <2>1. CASE Requeue(p)
    BY <2>1, BatchWithin DEF QueueTypeOK, Known, NothingForgotten, Requeue, workerVars
  <2>2. CASE Claim(p)
    BY <2>2, BatchWithin DEF QueueTypeOK, Known, NothingForgotten, Claim, workerVars
  <2>3. CASE ClaimFails(p)
    BY <2>3 DEF Known, NothingForgotten, ClaimFails, redisVars, workerVars
  <2>4. ASSUME NEW w \in Worker, Dispatch(p, w)
        PROVE  Known'
    BY <2>4 DEF QueueTypeOK, Known, NothingForgotten, Dispatch, redisVars
  <2> QED
    BY <1>2, <2>1, <2>2, <2>3, <2>4 DEF runOnce
<1>3. ASSUME NEW p \in Poller, PollerCrash(p)
      PROVE  Known'
  BY <1>3 DEF QueueTypeOK, Known, NothingForgotten, PollerCrash, redisVars
<1>4. ASSUME NEW w \in Worker, handleTimeout(w)
      PROVE  Known'
  <2>1. wpc[w] # "idle" => task[w] \in QueueOrder
    BY DEF QueueTypeOK
  <2>2. CASE Acquire(w) \/ AcquireFails(w)
    BY <2>1, <2>2 DEF QueueTypeOK, Known, NothingForgotten, Acquire, AcquireFails, WorkerGoes,
                      redisVars, pollerVars
  <2>3. CASE CancelTimeoutOrder(w) \/ CancelFails(w)
    BY <2>1, <2>3 DEF QueueTypeOK, Known, NothingForgotten, CancelTimeoutOrder, CancelFails,
                      WorkerGoes, redisVars, pollerVars
  <2>4. CASE Restock(w)
    BY <2>1, <2>4 DEF QueueTypeOK, Known, NothingForgotten, Restock, WorkerGoes, redisVars, pollerVars
  <2>5. CASE Unlock(w)
    BY <2>1, <2>5 DEF QueueTypeOK, Known, NothingForgotten, Unlock, WorkerGoes, pollerVars
  <2>6. CASE Remove(w)
    BY <2>1, <2>6 DEF QueueTypeOK, Known, NothingForgotten, Remove, WorkerGoes, pollerVars
  <2> QED
    BY <1>4, <2>2, <2>3, <2>4, <2>5, <2>6 DEF handleTimeout
<1> QED
  BY <1>0, <1>1, <1>2, <1>3, <1>4 DEF QueueNext

\* Together they are inductive.
LEMMA QueueInitOK == QueueInit => QueueTypeOK /\ Known
  BY DelayQueueAssumption DEF QueueInit, QueueTypeOK, Known, NothingForgotten, Status, Steps

LEMMA QueueInvariant == QueueSpec => [](QueueTypeOK /\ Known)
  BY QueueInitOK, QueueTypeStep, KnownStep, PTL DEF QueueSpec

\* The queue keeps its types, and an unpaid order is in one of its zsets, through
\* crashes, expired locks, failed commands and repeated claims.
THEOREM NeverForgotten == QueueSpec => [](QueueTypeOK /\ NothingForgotten)
<1>1. Known => NothingForgotten
  BY DEF Known
<1> QED
  BY <1>1, QueueInvariant, PTL

-------------------------------------------------------------------------------
(* The refinement. *)

LEMMA QueueStep ==
    ASSUME QueueTypeOK, Known, [QueueNext]_queueVars
    PROVE  [Queue!Next]_Queue!vars
<1> USE DelayQueueAssumption
<1> DEFINE tracked == due \cup processing
<1>0. CASE UNCHANGED <<queued, due, processing, elapsed>>
  BY <1>0 DEF Queue!vars
<1>1. ASSUME NEW o \in QueueOrder, Add(o)
      PROVE  Queue!Next
  BY <1>1 DEF Add, Queue!Next, Queue!Add, Queue!Moves
<1>2. ASSUME NEW o \in QueueOrder, Close(o)
      PROVE  Queue!Next
  BY <1>2 DEF Close, redisVars, Queue!Next, Queue!Close, Queue!Moves
<1>3. ASSUME NEW o \in QueueOrder, Elapse(o)
      PROVE  Queue!Next
  BY <1>3 DEF Elapse, redisVars, Queue!Next, Queue!Elapse
<1>4. ASSUME NEW p \in Poller, Requeue(p) \/ Claim(p)
      PROVE  UNCHANGED <<queued, tracked, elapsed>>
  BY <1>4, BatchWithin DEF QueueTypeOK, Requeue, Claim
<1>5. ASSUME NEW w \in Worker, CancelTimeoutOrder(w), queued' # queued
      PROVE  Queue!Next
  <2>1. /\ task[w] \in QueueOrder /\ task[w] \in tracked \cap elapsed
        /\ queued[task[w]] = "Pending"
        /\ queued' = [queued EXCEPT ![task[w]] = "TimedOut"]
        /\ UNCHANGED <<tracked, elapsed>>
    BY <1>5 DEF QueueTypeOK, Known, NothingForgotten, CancelTimeoutOrder, WorkerGoes, redisVars
  <2>2. Queue!TimeOut(task[w])
    BY <2>1 DEF Queue!TimeOut, Queue!Moves
  <2> QED
    BY <2>1, <2>2 DEF Queue!Next
<1>6. ASSUME NEW w \in Worker, Remove(w)
      PROVE  [Queue!Next]_Queue!vars
  <2>1. /\ task[w] \in QueueOrder /\ queued[task[w]] \in {"Closed", "TimedOut"}
        /\ UNCHANGED <<queued, due, elapsed>>
        /\ processing' = processing \/ processing' = processing \ {task[w]}
    BY <1>6 DEF QueueTypeOK, Known, Status, Remove, WorkerGoes
  <2>2. CASE task[w] \in processing /\ processing' # processing
    <3>1. tracked' = tracked \ {task[w]} /\ task[w] \in tracked
      BY <2>1, <2>2 DEF QueueTypeOK
    <3> QED
      BY <2>1, <3>1 DEF Queue!Next, Queue!Forget
  <2>3. CASE processing' = processing
    BY <2>1, <2>3, <1>0
  <2> QED
    BY <2>1, <2>2, <2>3
<1> QED
  <2>1. CASE \E o \in QueueOrder : Add(o) \/ Close(o) \/ Elapse(o)
    BY <2>1, <1>1, <1>2, <1>3
  <2>2. CASE \E o \in QueueOrder : ProcessingExpires(o) \/ LockExpires(o)
    BY <2>2, <1>0 DEF ProcessingExpires, LockExpires
  <2>3. CASE \E p \in Poller : runOnce(p) \/ PollerCrash(p)
    <3>1. CASE \E p \in Poller : Requeue(p) \/ Claim(p)
      BY <3>1, <1>4 DEF Queue!vars
    <3>2. CASE \E p \in Poller : ClaimFails(p) \/ PollerCrash(p) \/ \E w \in Worker : Dispatch(p, w)
      BY <3>2, <1>0 DEF ClaimFails, PollerCrash, Dispatch, redisVars
    <3> QED
      BY <2>3, <3>1, <3>2 DEF runOnce
  <2>4. CASE \E w \in Worker : handleTimeout(w)
    <3>1. CASE \E w \in Worker : CancelTimeoutOrder(w)
      BY <3>1, <1>5, <1>0 DEF CancelTimeoutOrder, redisVars
    <3>2. CASE \E w \in Worker : Remove(w)
      BY <3>2, <1>6
    <3>3. CASE \E w \in Worker : \/ Acquire(w) \/ AcquireFails(w) \/ CancelFails(w)
                                  \/ Restock(w) \/ Unlock(w)
      BY <3>3, <1>0 DEF Acquire, AcquireFails, CancelFails, Restock, Unlock, redisVars
    <3> QED
      BY <2>4, <3>1, <3>2, <3>3 DEF handleTimeout
  <2>5. CASE UNCHANGED queueVars
    BY <2>5, <1>0 DEF queueVars, redisVars
  <2> QED
    BY <2>1, <2>2, <2>3, <2>4, <2>5 DEF QueueNext

\* Claims, retries and removals by any number of pollers and workers are steps of
\* the abstract queue: it forgets closed orders only and cancels overdue ones only.
THEOREM RefinesQueue == QueueSpec => ImplementsQueue
<1>1. QueueInit => Queue!Init
  BY DEF QueueInit, Queue!Init
<1> QED
  BY <1>1, QueueInvariant, QueueStep, PTL DEF QueueSpec, ImplementsQueue

-------------------------------------------------------------------------------
(* The units of an order. *)

\* The worker whose transaction cancelled the order is the only one that gives its
\* units back, and has not done so yet.
Once ==
    /\ RestoredOnce
    /\ \A w \in Worker : wpc[w] = "restock" =>
        queued[task[w]] = "TimedOut" /\ restored[task[w]] = 0
    /\ \A v, w \in Worker :
        wpc[v] = "restock" /\ wpc[w] = "restock" /\ task[v] = task[w] => v = w

\* A step that cancels nothing and gives nothing back.
LEMMA OnceKept ==
    ASSUME QueueTypeOK, Once, UNCHANGED restored,
           \A o \in QueueOrder : queued[o] = "TimedOut" => queued'[o] = "TimedOut",
           \A w \in Worker : wpc'[w] = "restock" => wpc[w] = "restock" /\ task'[w] = task[w]
    PROVE  Once'
  BY DEF QueueTypeOK, Once, RestoredOnce

LEMMA OnceStep ==
    ASSUME QueueTypeOK, Once, [QueueNext]_queueVars
    PROVE  Once'
<1> USE DelayQueueAssumption
<1>0. CASE UNCHANGED queueVars
  BY <1>0, OnceKept DEF queueVars, workerVars
<1>1. ASSUME NEW o \in QueueOrder,
             \/ Add(o) \/ Close(o) \/ Elapse(o)
             \/ ProcessingExpires(o) \/ LockExpires(o)
      PROVE  Once'
  BY <1>1, OnceKept DEF QueueTypeOK, Add, Close, Elapse, ProcessingExpires, LockExpires,
                        workerVars
<1>2. ASSUME NEW p \in Poller, runOnce(p)
      PROVE  Once'
  BY <1>2, OnceKept DEF QueueTypeOK, runOnce, Requeue, Claim, ClaimFails, Dispatch, workerVars
<1>3. ASSUME NEW p \in Poller, PollerCrash(p)
      PROVE  Once'
  BY <1>3, OnceKept DEF QueueTypeOK, PollerCrash
<1>4. ASSUME NEW w \in Worker,
             \/ Acquire(w) \/ AcquireFails(w) \/ CancelFails(w)
             \/ Unlock(w) \/ Remove(w)
      PROVE  Once'
  BY <1>4, OnceKept DEF QueueTypeOK, Acquire, AcquireFails, CancelFails, Unlock, Remove, WorkerGoes
<1>5. ASSUME NEW w \in Worker, CancelTimeoutOrder(w)
      PROVE  Once'
  <2>1. /\ task[w] \in QueueOrder /\ UNCHANGED restored
        /\ wpc[w] = "tx" /\ wpc'[w] \in {"restock", "unlock"}
        /\ \A v \in Worker : task'[v] = task[v]
        /\ \A v \in Worker \ {w} : wpc'[v] = wpc[v]
    BY <1>5 DEF QueueTypeOK, CancelTimeoutOrder, WorkerGoes
  <2>2. CASE wpc'[w] = "unlock"
    <3>1. queued' = queued
      BY <1>5, <2>2 DEF QueueTypeOK, CancelTimeoutOrder, WorkerGoes
    <3> QED
      BY <2>1, <2>2, <3>1, OnceKept
  <2>3. CASE wpc'[w] = "restock"
    <3>1. queued[task[w]] = "Pending" /\ queued' = [queued EXCEPT ![task[w]] = "TimedOut"]
      BY <1>5, <2>3 DEF QueueTypeOK, CancelTimeoutOrder, WorkerGoes
    <3>2. restored[task[w]] = 0
      BY <2>1, <3>1 DEF QueueTypeOK, Once, RestoredOnce
    <3>3. \A v \in Worker : wpc[v] = "restock" => task[v] # task[w]
      BY <3>1 DEF Once
    <3> QED
      BY <2>1, <2>3, <3>1, <3>2, <3>3 DEF QueueTypeOK, Once, RestoredOnce
  <2> QED
    BY <2>1, <2>2, <2>3
<1>6. ASSUME NEW w \in Worker, Restock(w)
      PROVE  Once'
  <2>1. /\ task[w] \in QueueOrder /\ UNCHANGED queued
        /\ wpc[w] = "restock" /\ wpc'[w] = "unlock"
        /\ \A v \in Worker : task'[v] = task[v]
        /\ \A v \in Worker \ {w} : wpc'[v] = wpc[v]
        /\ restored' \in {restored, [restored EXCEPT ![task[w]] = @ + 1]}
    BY <1>6 DEF QueueTypeOK, Restock, WorkerGoes
  <2> QED
    BY <2>1 DEF QueueTypeOK, Once, RestoredOnce
<1> QED
  BY <1>0, <1>1, <1>2, <1>3, <1>4, <1>5, <1>6 DEF QueueNext, handleTimeout

\* Whatever the locks, the zsets and the pollers do, the units of an order are
\* given back to Redis at most once, and only if the queue cancelled it.
THEOREM UnitsReturnOnce == QueueSpec => []RestoredOnce
<1>1. QueueInit => Once
  BY DEF QueueInit, Once, RestoredOnce
<1>2. Once => RestoredOnce
  BY DEF Once
<1> QED
  BY <1>1, <1>2, QueueInvariant, OnceStep, PTL DEF QueueSpec

-------------------------------------------------------------------------------
(* PartitionConsumer. *)

\* Whose commit the brokers take; what a session has read, marked and committed
\* lies in this order, and everything before it was tried.
OffsetInv ==
    /\ \A m, n \in Member : Current(m) /\ Current(n) => m = n
    /\ \A k \in Offset : k < committed => k \in tried
    /\ committed > 0 => committed - 1 \in settled
    /\ \A m \in Member :
          /\ marked[m] <= next[m]
          /\ \A k \in Offset : k < next[m] => k \in tried
          /\ marked[m] > 0 => marked[m] - 1 \in settled
          /\ memberPc[m] \in {"handle", "mark"} => next[m] < end
          /\ memberPc[m] = "mark" => next[m] \in settled
          /\ Current(m) => committed <= marked[m]

PartitionInv == PartitionTypeOK /\ OffsetInv

LEMMA PartitionInitOK == PartitionInit => PartitionInv
  BY PartitionAssumption
     DEF PartitionInit, PartitionInv, PartitionTypeOK, OffsetInv, Current, Position, Offset

LEMMA PartitionTypeStep ==
    ASSUME PartitionInv, [PartitionNext]_partitionVars
    PROVE  PartitionTypeOK'
<1> USE PartitionAssumption DEF PartitionInv, memberVars, Position, Offset
<1>0. PartitionTypeOK /\ \A m \in Member : memberPc[m] \in {"handle", "mark"} => next[m] < end
  BY DEF OffsetInv
<1>1. CASE Produce
  BY <1>0, <1>1 DEF Produce, PartitionTypeOK
<1>2. ASSUME NEW m \in Member, Join(m) PROVE PartitionTypeOK'
  BY <1>0, <1>2 DEF Join, PartitionTypeOK
<1>3. ASSUME NEW m \in Member, Deliver(m) PROVE PartitionTypeOK'
  BY <1>0, <1>3 DEF Deliver, PartitionTypeOK
<1>a. \A m \in Member : memberPc[m] \in {"handle", "mark"} =>
         next[m] \in Offset /\ next[m] + 1 \in 0 .. end
  BY <1>0 DEF PartitionTypeOK
<1>4. ASSUME NEW m \in Member, Failed(m) PROVE PartitionTypeOK'
  <2>1. next' \in [Member -> 0 .. end] /\ tried' \subseteq Offset
    BY <1>0, <1>4, <1>a DEF Failed, PartitionTypeOK
  <2> QED
    BY <1>0, <1>4, <2>1 DEF Failed, PartitionTypeOK
<1>5. ASSUME NEW m \in Member, Handled(m) PROVE PartitionTypeOK'
  <2>1. tried' \subseteq Offset /\ settled' \subseteq tried'
    BY <1>0, <1>5, <1>a DEF Handled, PartitionTypeOK
  <2> QED
    BY <1>0, <1>5, <2>1 DEF Handled, PartitionTypeOK
<1>6. ASSUME NEW m \in Member, MarkAndCommit(m) PROVE PartitionTypeOK'
  BY <1>0, <1>6 DEF MarkAndCommit, Flush, PartitionTypeOK
<1>7. ASSUME NEW m \in Member, AutoCommit(m) PROVE PartitionTypeOK'
  BY <1>0, <1>7 DEF AutoCommit, PartitionTypeOK
<1>8. ASSUME NEW m \in Member, EndSession(m) PROVE PartitionTypeOK'
  BY <1>0, <1>8 DEF EndSession, Ended, Flush, PartitionTypeOK
<1>9. ASSUME NEW m \in Member, MemberCrash(m) PROVE PartitionTypeOK'
  BY <1>0, <1>9 DEF MemberCrash, Ended, PartitionTypeOK
<1>10. CASE UNCHANGED partitionVars
  BY <1>0, <1>10 DEF partitionVars, PartitionTypeOK
<1> QED
  BY <1>1, <1>2, <1>3, <1>4, <1>5, <1>6, <1>7, <1>8, <1>9, <1>10
     DEF PartitionNext, MemberStep

LEMMA OffsetStep ==
    ASSUME PartitionInv, [PartitionNext]_partitionVars
    PROVE  OffsetInv'
<1> USE PartitionAssumption DEF memberVars, Position, Offset
<1>0. PartitionTypeOK /\ OffsetInv
  BY DEF PartitionInv
<1>1. CASE Produce
  BY <1>0, <1>1 DEF Produce, PartitionTypeOK, OffsetInv, Current
<1>2. ASSUME NEW m \in Member, Join(m) PROVE OffsetInv'
  BY <1>0, <1>2 DEF Join, PartitionTypeOK, OffsetInv, Current
<1>3. ASSUME NEW m \in Member, Deliver(m) PROVE OffsetInv'
  BY <1>0, <1>3 DEF Deliver, PartitionTypeOK, OffsetInv, Current
<1>4. ASSUME NEW m \in Member, Failed(m) PROVE OffsetInv'
  BY <1>0, <1>4 DEF Failed, PartitionTypeOK, OffsetInv, Current
<1>5. ASSUME NEW m \in Member, Handled(m) PROVE OffsetInv'
  BY <1>0, <1>5 DEF Handled, PartitionTypeOK, OffsetInv, Current
<1>6. ASSUME NEW m \in Member, MarkAndCommit(m) PROVE OffsetInv'
  BY <1>0, <1>6 DEF MarkAndCommit, Flush, PartitionTypeOK, OffsetInv, Current
<1>7. ASSUME NEW m \in Member, AutoCommit(m) PROVE OffsetInv'
  BY <1>0, <1>7 DEF AutoCommit, PartitionTypeOK, OffsetInv, Current
<1>8. ASSUME NEW m \in Member, EndSession(m) PROVE OffsetInv'
  BY <1>0, <1>8 DEF EndSession, Ended, Flush, PartitionTypeOK, OffsetInv, Current
<1>9. ASSUME NEW m \in Member, MemberCrash(m) PROVE OffsetInv'
  BY <1>0, <1>9 DEF MemberCrash, Ended, PartitionTypeOK, OffsetInv, Current
<1>10. CASE UNCHANGED partitionVars
  BY <1>0, <1>10 DEF partitionVars, OffsetInv, Current
<1> QED
  BY <1>1, <1>2, <1>3, <1>4, <1>5, <1>6, <1>7, <1>8, <1>9, <1>10
     DEF PartitionNext, MemberStep

LEMMA PartitionStep == PartitionInv /\ [PartitionNext]_partitionVars => PartitionInv'
  BY PartitionTypeStep, OffsetStep DEF PartitionInv

LEMMA PartitionInvariant == PartitionSpec => []PartitionInv
  BY PartitionInitOK, PartitionStep, PTL DEF PartitionSpec

LEMMA DeliveryStep ==
    ASSUME PartitionInv, [PartitionNext]_partitionVars
    PROVE  [D!Next]_(D!vars)
<1> SUFFICES D!Next \/ UNCHANGED <<committed, tried, settled>>
  BY DEF D!vars
<1> USE PartitionAssumption DEF memberVars, Position, Offset, PartitionTypeOK
<1>0. PartitionTypeOK /\ OffsetInv
  BY DEF PartitionInv
<1>1. CASE Produce
  BY <1>1 DEF Produce
<1>2. ASSUME NEW m \in Member, Join(m) \/ Deliver(m) \/ MemberCrash(m)
      PROVE  UNCHANGED <<committed, tried, settled>>
  BY <1>2 DEF Join, Deliver, MemberCrash, Ended
<1>3. ASSUME NEW m \in Member, Failed(m) PROVE D!Next
  <2>1. next[m] \in D!Offset /\ D!Try(next[m])
    BY <1>0, <1>3 DEF Failed, OffsetInv, D!Offset, D!Try
  <2> QED
    BY <2>1 DEF D!Next
<1>4. ASSUME NEW m \in Member, Handled(m) PROVE D!Next
  <2>1. next[m] \in D!Offset /\ D!Settle(next[m])
    BY <1>0, <1>4 DEF Handled, OffsetInv, D!Offset, D!Settle
  <2> QED
    BY <2>1 DEF D!Next
<1>5. ASSUME NEW m \in Member, MarkAndCommit(m)
      PROVE  D!Next \/ UNCHANGED <<committed, tried, settled>>
  <2>1. CASE Current(m) /\ committed' = next[m] + 1
    <3>0. next[m] \in 0 .. Messages - 1
      BY <1>0, <1>5 DEF MarkAndCommit, OffsetInv
    <3> DEFINE n == next[m] + 1
    <3>1. /\ n \in 1 .. Messages /\ n - 1 \in settled /\ n > committed
          /\ \A k \in Offset : k < n => k \in tried
      <4>1. memberPc[m] = "mark"
        BY <1>5 DEF MarkAndCommit
      <4>2. next[m] \in settled /\ committed <= marked[m] /\ marked[m] <= next[m]
        BY <1>0, <2>1, <4>1 DEF OffsetInv
      <4>3. settled \subseteq tried /\ \A k \in Offset : k < next[m] => k \in tried
        BY <1>0 DEF OffsetInv
      <4> QED
        BY <1>0, <3>0, <4>2, <4>3
    <3>2. committed' = n /\ UNCHANGED <<tried, settled>>
      BY <1>5, <2>1 DEF MarkAndCommit
    <3> HIDE DEF n
    <3>3. D!Commit(n)
      BY <3>1, <3>2 DEF D!Commit, D!Offset
    <3> QED
      BY <3>1, <3>3 DEF D!Next
  <2> QED
    BY <1>5, <2>1 DEF MarkAndCommit, Flush
<1>6. ASSUME NEW m \in Member, Current(m), committed' = marked[m],
             UNCHANGED <<tried, settled>>
      PROVE  D!Next \/ UNCHANGED <<committed, tried, settled>>
  <2>1. CASE marked[m] > committed
    <3>1. marked[m] \in 1 .. Messages /\ D!Commit(marked[m])
      BY <1>0, <1>6, <2>1 DEF OffsetInv, D!Offset, D!Commit
    <3> QED
      BY <3>1 DEF D!Next
  <2>2. CASE marked[m] = committed
    BY <1>6, <2>2
  <2> QED
    BY <1>0, <1>6, <2>1, <2>2 DEF OffsetInv
<1>7. ASSUME NEW m \in Member, AutoCommit(m) \/ EndSession(m)
      PROVE  D!Next \/ UNCHANGED <<committed, tried, settled>>
  BY <1>6, <1>7 DEF AutoCommit, EndSession, Flush, Ended
<1>8. CASE UNCHANGED partitionVars
  BY <1>8 DEF partitionVars
<1> QED
  BY <1>1, <1>2, <1>3, <1>4, <1>5, <1>7, <1>8 DEF PartitionNext, MemberStep

THEOREM RefinesDelivery == PartitionSpec => ImplementsDelivery
<1>1. PartitionInit => D!Init
  BY DEF PartitionInit, D!Init
<1> QED
  BY <1>1, DeliveryStep, PartitionInvariant, PTL
     DEF PartitionSpec, ImplementsDelivery, D!Spec

-------------------------------------------------------------------------------
(* LeaderElection.  One copy of the job runs, and it is handed over in time. *)

LEMMA LeaderTypeStep ==
    ASSUME LeaderTypeOK, [LeaderNext]_leaderVars
    PROVE  LeaderTypeOK'
<1> USE LeaderAssumption
<1>0. CASE UNCHANGED leaderVars
  BY <1>0 DEF LeaderTypeOK, leaderVars, MaxIdle
<1>1. CASE LeaseTick
  BY <1>1 DEF LeaderTypeOK, LeaseTick, MaxIdle
<1>2. ASSUME NEW p \in Process, Run(p)
      PROVE  LeaderTypeOK'
  <2>1. CASE Lead(p)
    BY <2>1 DEF LeaderTypeOK, Lead, Acquired, Set, MaxIdle
  <2>2. CASE Skip(p)
    BY <2>2 DEF LeaderTypeOK, Skip, Sleeps, Same, Set, MaxIdle
  <2>3. CASE Renew(p)
    BY <2>3 DEF LeaderTypeOK, Renew, Set, MaxIdle
  <2>4. CASE Lose(p)
    BY <2>4 DEF LeaderTypeOK, Lose, Release, Delete, Same, MaxIdle
  <2> QED
    BY <1>2, <2>1, <2>2, <2>3, <2>4 DEF Run
<1>3. ASSUME NEW p \in Process, ProcessStops(p)
      PROVE  LeaderTypeOK'
  BY <1>3 DEF LeaderTypeOK, ProcessStops, MaxIdle
<1>4. ASSUME NEW p \in Process, Restart(p)
      PROVE  LeaderTypeOK'
  BY <1>4 DEF LeaderTypeOK, Restart, MaxIdle
<1> QED
  BY <1>0, <1>1, <1>2, <1>3, <1>4 DEF LeaderNext

LEMMA LeaderTypeInit == LeaderInit => LeaderTypeOK
  BY LeaderAssumption DEF LeaderInit, LeaderTypeOK, MaxIdle

\* The election keeps its types under every fault.
LEMMA LeaderTypes == LeaderSpec => []LeaderTypeOK
  BY LeaderTypeInit, LeaderTypeStep, PTL DEF LeaderSpec

-------------------------------------------------------------------------------
(* A lease is its leader's. *)

LEMMA LeaseStep ==
    ASSUME LeaderTypeOK, [LeaderNext]_leaderVars, NEW p \in Process,
           holder = p, mode[p] = "lead", mode'[p] = "lead", lease > 1
    PROVE  holder' = p
<1> USE LeaderAssumption
<1>1. CASE LeaseTick
  BY <1>1 DEF LeaderTypeOK, LeaseTick
<1>2. ASSUME NEW q \in Process, Lead(q)
      PROVE  holder' = p
  BY <1>2 DEF LeaderTypeOK, Lead, Acquired
<1>3. ASSUME NEW q \in Process, Skip(q)
      PROVE  holder' = p
  BY <1>3 DEF LeaderTypeOK, Skip, Same
<1>4. ASSUME NEW q \in Process, Renew(q)
      PROVE  holder' = p
  BY <1>4 DEF LeaderTypeOK, Renew, Set
<1>5. ASSUME NEW q \in Process, Lose(q)
      PROVE  holder' = p
  BY <1>5 DEF LeaderTypeOK, Lose, Release, Same
<1>6. ASSUME NEW q \in Process, ProcessStops(q) \/ Restart(q)
      PROVE  holder' = p
  BY <1>6 DEF LeaderTypeOK, ProcessStops, Restart
<1>7. CASE UNCHANGED leaderVars
  BY <1>7 DEF leaderVars
<1> QED
  BY <1>1, <1>2, <1>3, <1>4, <1>5, <1>6, <1>7 DEF LeaderNext, Run

\* The token in the scripts keeps a lease its leader's, under every fault.
THEOREM LeaseSafeAlways == LeaderSpec => LeaseIsSafe
<1>1. LeaderTypeOK /\ [LeaderNext]_leaderVars =>
        [\A p \in Process :
            /\ holder = p /\ mode[p] = "lead"
            /\ mode'[p] = "lead" /\ lease > 1
            => holder' = p]_leaderVars
  BY LeaseStep
<1> QED
  BY <1>1, LeaderTypes, PTL DEF LeaderSpec, LeaseIsSafe

-------------------------------------------------------------------------------
(* One copy of the job, and its takeover. *)

\* A leader has the lease and renews it with time to spare, and nobody but a leader
\* runs the job.  While nobody does, what is left of the lease, or of a process's
\* pause when there is none, bounds how long that process still has to wait.
LeaderInv ==
    /\ \A p \in Process : mode[p] = "lead" =>
        /\ holder = p /\ runs[p] = 1
        /\ lease >= timer[p] + (LeaseTtl - Third)
    /\ \A p \in Process : runs[p] > 0 => mode[p] = "lead"
    /\ SomeoneRuns => \A p \in Process : idle[p] = 0
    /\ ~SomeoneRuns => \A p \in Process :
        /\ lease > 0 => idle[p] + lease <= LeaseTtl
        /\ lease = 0 => idle[p] + timer[p] <= LeaseTtl + Third

LEMMA LeaderStep ==
    ASSUME LeaderTypeOK, LeaderInv, [LeaderNext]_leaderVars, LeaderFaults = {}
    PROVE  LeaderInv'
<1> USE LeaderAssumption
<1>0. CASE UNCHANGED leaderVars
  BY <1>0 DEF LeaderInv, SomeoneRuns, leaderVars
<1>1. CASE LeaseTick
  BY <1>1 DEF LeaderTypeOK, LeaderInv, SomeoneRuns, LeaseTick, Due, MaxIdle
<1>2. ASSUME NEW p \in Process, Run(p)
      PROVE  LeaderInv'
  <2>1. CASE Lead(p)
    BY <2>1 DEF LeaderTypeOK, LeaderInv, SomeoneRuns, Lead, Acquired, Set
  <2>2. CASE Skip(p)
    BY <2>2 DEF LeaderTypeOK, LeaderInv, SomeoneRuns, Skip, Sleeps, Same
  <2>3. CASE Renew(p)
    BY <2>3 DEF LeaderTypeOK, LeaderInv, SomeoneRuns, Renew, Set
  <2>4. CASE Lose(p)
    BY <2>4 DEF LeaderTypeOK, LeaderInv, Lose
  <2> QED
    BY <1>2, <2>1, <2>2, <2>3, <2>4 DEF Run
<1>3. ASSUME NEW p \in Process, ProcessStops(p)
      PROVE  LeaderInv'
  BY <1>3 DEF LeaderTypeOK, LeaderInv, SomeoneRuns, ProcessStops
<1>4. ASSUME NEW p \in Process, Restart(p)
      PROVE  LeaderInv'
  BY <1>4 DEF LeaderTypeOK, LeaderInv, SomeoneRuns, Restart
<1> QED
  BY <1>0, <1>1, <1>2, <1>3, <1>4 DEF LeaderNext

LEMMA LeaderInvariant == LeaderFaults = {} => (LeaderSpec => [](LeaderTypeOK /\ LeaderInv))
<1> SUFFICES ASSUME LeaderFaults = {} PROVE LeaderSpec => [](LeaderTypeOK /\ LeaderInv)
  OBVIOUS
<1>1. LeaderInit => LeaderInv
  BY LeaderAssumption DEF LeaderInit, LeaderInv, SomeoneRuns
<1>2. LeaderTypeOK /\ LeaderInv /\ [LeaderNext]_leaderVars => LeaderInv'
  BY LeaderStep
<1> QED
  BY <1>1, <1>2, LeaderTypes, PTL DEF LeaderSpec

\* The job never runs twice as long as commands are answered and nobody pauses.
THEOREM OneRunnerAlways == LeaderFaults = {} => (LeaderSpec => []OneRunner)
<1> SUFFICES ASSUME LeaderFaults = {} PROVE LeaderSpec => []OneRunner
  OBVIOUS
<1>1. LeaderTypeOK /\ LeaderInv => OneRunner
  BY LeaderAssumption DEF LeaderInv, OneRunner
<1> QED
  BY <1>1, LeaderInvariant, PTL

\* The takeover of a job whose leader stopped is bounded.
THEOREM FailoverAlways == LeaderFaults = {} => (LeaderSpec => []FailoverInTime)
<1> SUFFICES ASSUME LeaderFaults = {} PROVE LeaderSpec => []FailoverInTime
  OBVIOUS
<1>1. LeaderTypeOK /\ LeaderInv => FailoverInTime
  BY LeaderAssumption DEF LeaderTypeOK, LeaderInv, FailoverInTime, MaxIdle
<1> QED
  BY <1>1, LeaderInvariant, PTL

-------------------------------------------------------------------------------
(* TokenBucket.  What is in the bucket and what has passed since an observer came is never
   more than the capacity and what the rate has brought since then. *)

\* The parameters are numbers, and the bucket is full again before its key expires.
LEMMA Numbers ==
    /\ Unit \in Nat \ {0} /\ Rate \in Nat \ {0} /\ BucketSize \in Nat
    /\ Unit <= BucketSize
    /\ BucketTtl \in Nat \ {0}
<1>1. Unit \in Nat \ {0} /\ Rate \in Nat \ {0}
  BY BucketAssumption DEF Unit, Rate
<1>2. PICK n \in Nat \ {0} : BucketSize = Unit * n
  BY BucketAssumption DEF BucketSize
<1>3. Unit * n \in Nat /\ Unit <= Unit * n
  <2>1. ASSUME NEW a \in Nat \ {0}, NEW b \in Nat \ {0} PROVE a * b \in Nat /\ a <= a * b
    <3>1. PICK c \in Nat : b = c + 1
      <4>1. b - 1 \in Nat /\ b = (b - 1) + 1
        OBVIOUS
      <4> QED BY <4>1
    <3>2. a * b = a * c + a /\ a * c \in Nat
      BY <3>1
    <3> QED BY <3>2
  <2> QED BY <2>1, <1>1, <1>2
<1> QED BY <1>1, <1>2, <1>3, RefillAssumption

\* A bucket is full again when its key expires.
LEMMA FullAgain == Rate * BucketTtl >= BucketSize
<1>1. BucketTtl * Rate = Rate * BucketTtl
  BY Numbers
<1> QED BY <1>1, RefillAssumption

\* Products of numbers, step by step.
LEMMA OneMore == ASSUME NEW a \in Nat, NEW b \in Int PROVE a * (b + 1) = a * b + a
OBVIOUS

LEMMA Product == ASSUME NEW a \in Nat, NEW b \in Nat PROVE a * b \in Nat
OBVIOUS

LEMMA ProductGrows ==
    ASSUME NEW a \in Nat, NEW b \in Nat, NEW c \in Nat, b <= c PROVE a * b <= a * c
<1>1. c - b \in Nat /\ c = b + (c - b)
  OBVIOUS
<1>2. a * (b + (c - b)) = a * b + a * (c - b)
  BY <1>1
<1>3. a * (c - b) \in Nat
  BY <1>1, Product
<1> QED BY <1>1, <1>2, <1>3

\* What a cap leaves grows no faster than what it caps.
LEMMA LeastGrows ==
    ASSUME NEW c \in Nat, NEW a \in Nat, NEW b \in Nat, NEW r \in Nat, b <= a + r
    PROVE  Least(c, b) <= Least(c, a) + r
BY DEF Least

\* Both sides of the books may grow alike.
LEMMA Balance ==
    ASSUME NEW x \in Nat, NEW c \in Nat, NEW e \in Nat, NEW r \in Nat,
           NEW a \in Nat, NEW b \in Nat,
           x + a <= c + e, b <= a + r
    PROVE  x + b <= c + (e + r)
OBVIOUS

\* The inductive invariant: what has passed, and what is there, came from somewhere.
BucketInv ==
    /\ BucketTypeOK
    /\ passed * Unit + Available <= BucketSize + Rate * observed

LEMMA RefillType == BucketTypeOK => Refill \in Nat
<1> SUFFICES ASSUME BucketTypeOK, age >= 0 PROVE Rate * age \in Nat
  BY DEF Refill, BucketTypeOK
<1>1. age \in Nat /\ Rate \in Nat
  BY Numbers DEF BucketTypeOK
<1> QED BY <1>1, Product

LEMMA AvailableType == BucketTypeOK => Available \in 0 .. BucketSize
<1> SUFFICES ASSUME BucketTypeOK PROVE Available \in 0 .. BucketSize
  OBVIOUS
<1>1. Refill \in Nat /\ tokens \in 0 .. BucketSize /\ BucketSize \in Nat
  BY RefillType, Numbers DEF BucketTypeOK
<1> QED BY <1>1 DEF Available, Least

\* Setting the observer's counts to zero leaves what is there, at most the capacity.
LEMMA BucketInitOK == BucketInit => BucketInv
<1> SUFFICES ASSUME BucketInit PROVE BucketInv
  OBVIOUS
<1>1. BucketTypeOK
  <2>1. key \in BOOLEAN /\ paced \in BOOLEAN /\ refused \in BOOLEAN
    BY DEF BucketInit
  <2>2. tokens \in 0 .. BucketSize /\ age \in (0 - MaxBack) .. (BucketTtl - 1)
    BY Numbers, BucketAssumption DEF BucketInit
  <2>3. passed \in Nat /\ observed \in 0 .. MaxElapsed
    BY BucketAssumption DEF BucketInit
  <2> QED BY <2>1, <2>2, <2>3 DEF BucketTypeOK
<1>2. Available = BucketSize /\ passed = 0 /\ observed = 0
  BY DEF BucketInit, Available
<1>3. 0 * Unit = 0 /\ Rate * 0 = 0
  BY Numbers
<1> QED BY <1>1, <1>2, <1>3, Numbers DEF BucketInv

\* What the script leaves.
LEMMA BucketScriptOK ==
    ASSUME BucketTypeOK, Script
    PROVE  /\ key' /\ age' = 0
           /\ tokens' \in 0 .. BucketSize
           /\ Available' = tokens'
           /\ tokens' = IF Allowed THEN Available - Unit ELSE Available
<1>1. Available \in 0 .. BucketSize /\ Unit \in Nat /\ BucketSize \in Nat
  BY AvailableType, Numbers
<1>2. key' /\ age' = 0 /\ tokens' = IF Allowed THEN Available - Unit ELSE Available
  BY DEF Script
<1>3. tokens' \in 0 .. BucketSize
  BY <1>1, <1>2 DEF Allowed
<1>4. Rate * 0 = 0
  BY Numbers
<1>5. Refill' = 0
  BY <1>2, <1>4 DEF Refill
<1>6. Available' = tokens'
  BY <1>1, <1>2, <1>3, <1>5 DEF Available, Least
<1> QED BY <1>2, <1>3, <1>6

LEMMA BucketTypeStep == BucketTypeOK /\ [BucketNext]_bucketVars => BucketTypeOK'
<1> SUFFICES ASSUME BucketTypeOK, [BucketNext]_bucketVars PROVE BucketTypeOK'
  OBVIOUS
<1>1. BucketSize' = BucketSize /\ BucketTtl' = BucketTtl
  BY DEF BucketSize, Unit, BucketTtl
<1>2. SUFFICES /\ key' \in BOOLEAN /\ paced' \in BOOLEAN /\ refused' \in BOOLEAN
               /\ tokens' \in 0 .. BucketSize /\ age' \in (0 - MaxBack) .. (BucketTtl - 1)
               /\ passed' \in Nat /\ observed' \in 0 .. MaxElapsed
  BY <1>1 DEF BucketTypeOK
<1>3. ASSUME Script PROVE /\ key' \in BOOLEAN /\ tokens' \in 0 .. BucketSize
                          /\ age' \in (0 - MaxBack) .. (BucketTtl - 1)
  <2>1. key' = TRUE /\ age' = 0 /\ tokens' \in 0 .. BucketSize
    BY <1>3, BucketScriptOK DEF Script
  <2>2. 0 \in (0 - MaxBack) .. (BucketTtl - 1)
    BY Numbers, BucketAssumption
  <2> QED BY <2>1, <2>2
<1>4. CASE Calls
  <2>1. refused' \in BOOLEAN /\ paced' \in BOOLEAN
    BY <1>4 DEF Calls, BucketTypeOK
  <2>2. passed' \in Nat /\ observed' \in 0 .. MaxElapsed
    BY <1>4 DEF Calls, BucketTypeOK
  <2> QED BY <1>3, <1>4, <2>1, <2>2 DEF Calls
<1>5. CASE CallFails
  <2>1. refused' \in BOOLEAN /\ paced' \in BOOLEAN
    BY <1>5 DEF CallFails, BucketTypeOK
  <2>2. passed' \in Nat /\ observed' \in 0 .. MaxElapsed
    BY <1>5 DEF CallFails, BucketTypeOK
  <2>3. CASE Script
    BY <1>3, <2>1, <2>2, <2>3
  <2>4. CASE UNCHANGED <<key, tokens, age, paced>>
    BY <2>1, <2>2, <2>4 DEF BucketTypeOK
  <2> QED BY <1>5, <2>3, <2>4 DEF CallFails
<1>6. CASE BucketTick
  <2>1. passed' \in Nat /\ observed' \in 0 .. MaxElapsed
    BY <1>6, BucketAssumption DEF BucketTick, BucketTypeOK
  <2>2. paced' \in BOOLEAN /\ refused' \in BOOLEAN
    BY <1>6 DEF BucketTick, BucketTypeOK
  <2>3. CASE key /\ age + 1 < BucketTtl
    <3>1. key' = key /\ tokens' = tokens /\ age' = age + 1
      BY <1>6, <2>3 DEF BucketTick
    <3>2. age + 1 \in (0 - MaxBack) .. (BucketTtl - 1)
      BY <2>3, Numbers, BucketAssumption DEF BucketTypeOK
    <3> QED BY <2>1, <2>2, <3>1, <3>2 DEF BucketTypeOK
  <2>4. CASE ~(key /\ age + 1 < BucketTtl)
    <3>1. key' = FALSE /\ tokens' = 0 /\ age' = 0
      BY <1>6, <2>4 DEF BucketTick
    <3>2. 0 \in (0 - MaxBack) .. (BucketTtl - 1) /\ 0 \in 0 .. BucketSize
      BY Numbers, BucketAssumption
    <3> QED BY <2>1, <2>2, <3>1, <3>2
  <2> QED BY <2>3, <2>4
<1>7. CASE ClockBack
  <2>1. PICK d \in 1 .. MaxBack : age - d >= 0 - MaxBack /\ age' = age - d
    BY <1>7 DEF ClockBack
  <2>2. age - d \in (0 - MaxBack) .. (BucketTtl - 1)
    BY <2>1, Numbers, BucketAssumption DEF BucketTypeOK
  <2>3. paced' \in BOOLEAN /\ key' = key /\ tokens' = tokens /\ refused' = refused
    BY <1>7 DEF ClockBack
  <2>4. passed' = passed /\ observed' = observed
    BY <1>7 DEF ClockBack
  <2> QED BY <2>1, <2>2, <2>3, <2>4 DEF BucketTypeOK
<1>8. CASE Observe
  <2>1. passed' \in Nat /\ observed' \in 0 .. MaxElapsed
    BY <1>8, BucketAssumption DEF Observe
  <2> QED BY <1>8, <2>1 DEF Observe, BucketTypeOK
<1>9. CASE UNCHANGED bucketVars
  BY <1>9 DEF bucketVars, BucketTypeOK
<1> QED BY <1>4, <1>5, <1>6, <1>7, <1>8, <1>9 DEF BucketNext

\* A tick brings at most Rate, and a key that expires was as good as full.
LEMMA TickBrings == BucketTypeOK /\ BucketTick => Available' <= Available + Rate
<1> SUFFICES ASSUME BucketTypeOK, BucketTick PROVE Available' <= Available + Rate
  OBVIOUS
<1>1. Rate \in Nat /\ BucketSize \in Nat /\ BucketTtl \in Nat \ {0} /\ age \in Int /\ age < BucketTtl
  BY Numbers, BucketAssumption DEF BucketTypeOK
<1>2. Available \in 0 .. BucketSize /\ tokens \in 0 .. BucketSize /\ Refill \in Nat
  BY AvailableType, RefillType DEF BucketTypeOK
<1>3. CASE key /\ age + 1 < BucketTtl
  <2>1. age' = age + 1 /\ key' /\ tokens' = tokens
    BY <1>3 DEF BucketTick
  <2>2. Refill' <= Refill + Rate /\ Refill' \in Nat
    <3>1. CASE age < -1
      BY <3>1, <2>1, <1>1 DEF Refill
    <3>2. CASE age = -1
      <4>1. Rate * 0 = 0
        BY <1>1
      <4> QED BY <3>2, <4>1, <2>1, <1>1 DEF Refill
    <3>3. CASE age >= 0
      <4>1. Rate * (age + 1) = Rate * age + Rate
        BY <1>1, OneMore
      <4>2. Refill = Rate * age /\ Refill' = Rate * (age + 1)
        BY <3>3, <2>1, <1>1 DEF Refill
      <4> QED BY <4>1, <4>2, <1>1, <1>2
    <3> QED BY <3>1, <3>2, <3>3, <1>1
  <2>3. Available = Least(BucketSize, tokens + Refill)
    BY <1>3 DEF Available
  <2>4. PICK r \in Nat : r = Refill' /\ r <= Refill + Rate
    BY <2>2
  <2>5. Available' = Least(BucketSize, tokens + r)
    BY <2>1, <2>4 DEF Available, BucketSize, Unit
  <2>6. tokens + Refill \in Nat /\ tokens + r \in Nat /\ tokens + r <= (tokens + Refill) + Rate
    <3>1. r <= Refill + Rate
      BY <2>4
    <3> QED BY <3>1, <1>1, <1>2
  <2> QED BY <2>3, <2>5, <2>6, <1>1, LeastGrows
<1>4. CASE key /\ ~(age + 1 < BucketTtl)
  <2>1. age + 1 = BucketTtl /\ age \in Nat /\ ~key'
    BY <1>4, <1>1 DEF BucketTick
  <2>2. Rate * (age + 1) = Rate * age + Rate
    BY <1>1, OneMore
  <2>3. Rate * (age + 1) >= BucketSize
    BY FullAgain, <2>1
  <2>4. Refill = Rate * age
    BY <2>1 DEF Refill
  <2>5. Available' = BucketSize
    BY <2>1 DEF Available
  <2>6. Available = Least(BucketSize, tokens + Refill)
    BY <1>4 DEF Available
  <2> QED BY <2>2, <2>3, <2>4, <2>5, <2>6, <1>1, <1>2 DEF Least
<1>5. CASE ~key
  BY <1>5, <1>1 DEF BucketTick, Available
<1> QED BY <1>3, <1>4, <1>5

\* A clock that is set back brings nothing.
LEMMA BackBrings == BucketTypeOK /\ ClockBack => Available' <= Available
<1> SUFFICES ASSUME BucketTypeOK, ClockBack PROVE Available' <= Available
  OBVIOUS
<1>1. Rate \in Nat /\ BucketSize \in Nat /\ tokens \in 0 .. BucketSize /\ Refill \in Nat
  BY Numbers, RefillType DEF BucketTypeOK
<1>2. PICK d \in 1 .. MaxBack : age' = age - d
  BY DEF ClockBack
<1>3. age \in Int /\ d \in Int /\ d >= 1 /\ key /\ key' /\ tokens' = tokens
  BY <1>2, BucketAssumption DEF ClockBack, BucketTypeOK
<1>4. Refill' \in Nat /\ Refill' <= Refill
  <2>1. CASE age' < 0
    BY <2>1, <1>1 DEF Refill
  <2>2. CASE ~(age' < 0)
    <3>1. age \in Nat /\ age' \in Nat /\ age' <= age
      BY <2>2, <1>2, <1>3
    <3>2. Rate * age' <= Rate * age /\ Rate * age' \in Nat
      BY <3>1, <1>1, ProductGrows, Product
    <3>3. Refill' = Rate * age' /\ Refill = Rate * age
      BY <3>1, <2>2 DEF Refill
    <3> QED BY <3>2, <3>3
  <2> QED BY <2>1, <2>2
<1>5. PICK r \in Nat : r = Refill' /\ r <= Refill
  BY <1>4
<1>6. Available = Least(BucketSize, tokens + Refill) /\ Available' = Least(BucketSize, tokens + r)
  BY <1>3, <1>5 DEF Available, BucketSize, Unit
<1>7. tokens + Refill \in Nat /\ tokens + r \in Nat /\ tokens + r <= tokens + Refill
  <2>1. r <= Refill
    BY <1>5
  <2> QED BY <2>1, <1>1
<1>8. Least(BucketSize, tokens + r) <= Least(BucketSize, tokens + Refill)
  BY <1>1, <1>7 DEF Least
<1> QED BY <1>6, <1>8

LEMMA BucketStepOK == BucketInv /\ [BucketNext]_bucketVars => BucketInv'
<1> SUFFICES ASSUME BucketInv, [BucketNext]_bucketVars PROVE BucketInv'
  OBVIOUS
<1>1. BucketTypeOK /\ BucketTypeOK'
  BY BucketTypeStep DEF BucketInv
<1>2. /\ Unit \in Nat \ {0} /\ Rate \in Nat /\ BucketSize \in Nat
      /\ Available \in 0 .. BucketSize /\ passed \in Nat /\ observed \in Nat
  BY <1>1, Numbers, AvailableType, BucketAssumption DEF BucketTypeOK
<1>3. passed * Unit \in Nat /\ Rate * observed \in Nat
  BY <1>2, Product
<1>4. passed * Unit + Available <= BucketSize + Rate * observed
  BY DEF BucketInv
<1> DEFINE Goal == passed' * Unit + Available' <= BucketSize + Rate * observed'
<1>5. SUFFICES Goal
  BY <1>1 DEF BucketInv, Unit, BucketSize, Rate
<1>6. Available' \in 0 .. BucketSize
  <2>1. (BucketTypeOK => Available \in 0 .. BucketSize)'
    BY AvailableType, PTL
  <2> QED BY <1>1, <2>1 DEF BucketSize, Unit
<1>7. ASSUME passed' = passed, observed' = observed, Available' <= Available PROVE Goal
  <2>1. PICK a \in Nat : a = Available' /\ a <= Available
    BY <1>2, <1>6, <1>7
  <2>2. passed * Unit + a <= BucketSize + Rate * observed
    <3>1. a <= Available
      BY <2>1
    <3> QED BY <1>2, <1>3, <1>4, <3>1
  <2> QED BY <1>7, <2>1, <2>2
<1>8. CASE Calls
  <2>1. Available' = (IF Allowed THEN Available - Unit ELSE Available) /\ observed' = observed
    BY <1>1, <1>8, BucketScriptOK DEF Calls
  <2>2. CASE Allowed
    <3>1. passed' = passed + 1
      BY <1>8, <2>2 DEF Calls
    <3>2. (passed + 1) * Unit = passed * Unit + Unit
      BY <1>2
    <3>3. passed' * Unit + Available' = passed * Unit + Available
      BY <2>1, <2>2, <3>1, <3>2, <1>2, <1>3
    <3> QED BY <2>1, <3>3, <1>4
  <2>3. CASE ~Allowed
    BY <1>8, <2>1, <2>3, <1>2, <1>7 DEF Calls
  <2> QED BY <2>2, <2>3
<1>9. CASE CallFails
  <2>1. passed' = passed /\ observed' = observed
    BY <1>9 DEF CallFails
  <2>2. Available' <= Available
    <3>1. CASE Script
      BY <1>1, <1>2, <3>1, BucketScriptOK DEF Allowed
    <3>2. CASE UNCHANGED <<key, tokens, age, paced>>
      <4>1. Available' = Available
        BY <3>2 DEF Available, Refill, BucketSize, Unit, Rate
      <4> QED BY <4>1, <1>2
    <3> QED BY <1>9, <3>1, <3>2 DEF CallFails
  <2> QED BY <2>1, <2>2, <1>7
<1>10. CASE BucketTick
  <2>1. passed' = passed /\ observed' = observed + 1
    BY <1>10 DEF BucketTick
  <2>2. Available' <= Available + Rate
    BY <1>1, <1>10, TickBrings
  <2>3. Rate * observed' = Rate * observed + Rate
    BY <1>2, <2>1, OneMore
  <2>4. PICK a \in Nat : a = Available' /\ a <= Available + Rate
    BY <2>2, <1>2, <1>6
  <2>5. passed * Unit + a <= BucketSize + (Rate * observed + Rate)
    <3>1. a <= Available + Rate
      BY <2>4
    <3> QED BY <3>1, <1>2, <1>3, <1>4, Balance
  <2> QED BY <2>1, <2>3, <2>4, <2>5
<1>11. CASE ClockBack
  <2>1. passed' = passed /\ observed' = observed
    BY <1>11 DEF ClockBack
  <2>2. Available' <= Available
    BY <1>1, <1>11, BackBrings
  <2> QED BY <2>1, <2>2, <1>7
<1>12. CASE Observe
  <2>1. passed' = 0 /\ observed' = 0
    BY <1>12 DEF Observe
  <2>2. 0 * Unit = 0 /\ Rate * 0 = 0
    BY <1>2
  <2>3. PICK a \in Nat : a = Available' /\ a <= BucketSize
    BY <1>2, <1>6
  <2>4. 0 + a <= BucketSize + 0
    <3>1. a <= BucketSize
      BY <2>3
    <3> QED BY <3>1, <1>2
  <2> QED BY <2>1, <2>2, <2>3, <2>4
<1>13. CASE UNCHANGED bucketVars
  <2>1. Available' = Available
    BY <1>13 DEF bucketVars, Available, Refill, BucketSize, Unit, Rate
  <2> QED BY <1>2, <1>7, <1>13, <2>1 DEF bucketVars
<1> QED BY <1>8, <1>9, <1>10, <1>11, <1>12, <1>13 DEF BucketNext

\* In any stretch of time no more calls pass a bucket than its burst and what its rate
\* brings, for every limit, burst and window, with failing scripts and a clock that is
\* set back, as long as the bucket is refilled before its key expires.
THEOREM BucketBounds == BucketSpec => [](BucketTypeOK /\ RateBounded)
<1>1. BucketInv => BucketTypeOK /\ RateBounded
  <2> SUFFICES ASSUME BucketInv PROVE BucketTypeOK /\ RateBounded
    OBVIOUS
  <2>1. BucketTypeOK /\ Available \in 0 .. BucketSize /\ BucketSize \in Nat /\ Unit \in Nat /\ Rate \in Nat
    BY AvailableType, Numbers DEF BucketInv
  <2>2. passed \in Nat /\ observed \in Nat
    BY <2>1, BucketAssumption DEF BucketTypeOK
  <2>3. passed * Unit \in Nat /\ Rate * observed \in Nat
    BY <2>1, <2>2, Product
  <2> QED BY <2>1, <2>3 DEF BucketInv, RateBounded
<1> QED BY BucketInitOK, BucketStepOK, <1>1, PTL DEF BucketSpec

\* The rate brings a token in the time that Pace gives it.
LEMMA PaceBringsOne == Pace \in Nat /\ Rate * Pace >= Unit
<1>1. ASSUME NEW a \in Nat \ {0}, NEW b \in Nat \ {0}
      PROVE  (a + b - 1) \div b \in Nat /\ b * ((a + b - 1) \div b) >= a
  <2>1. (a + b - 1) \div b \in Nat
    BY SMT
  <2>2. b * ((a + b - 1) \div b) >= a
    BY <2>1, SMT
  <2> QED BY <2>1, <2>2
<1> QED BY <1>1, Numbers DEF Pace

\* A caller who leaves one token's time between his calls is never refused.
THEOREM PacedCallsPass == BucketSpec => []PacedIsServed
<1>1. BucketInit => PacedIsServed
  BY DEF BucketInit, PacedIsServed
<1>2. ASSUME BucketTypeOK, PacedIsServed, [BucketNext]_bucketVars PROVE PacedIsServed'
  <2>1. ASSUME key => age >= Pace PROVE Allowed
    <3>1. Unit \in Nat /\ Rate \in Nat /\ BucketSize \in Nat /\ Unit <= BucketSize
      BY Numbers
    <3>2. CASE key
      <4>1. age \in Nat /\ Pace \in Nat /\ Pace <= age
        BY <1>2, <2>1, <3>2, PaceBringsOne, BucketAssumption, Numbers DEF BucketTypeOK
      <4>2. Refill = Rate * age /\ Rate * age >= Unit
        <5>1. Rate * Pace <= Rate * age /\ Rate * Pace \in Nat /\ Rate * age \in Nat
          BY <3>1, <4>1, ProductGrows, Product
        <5> QED BY <3>1, <4>1, <5>1, PaceBringsOne DEF Refill
      <4>3. tokens \in Nat /\ Refill \in Nat /\ Refill >= Unit
        BY <1>2, <4>2, RefillType, Numbers DEF BucketTypeOK
      <4> QED BY <3>1, <3>2, <4>3 DEF Allowed, Available, Least
    <3> QED BY <3>1, <3>2 DEF Allowed, Available
  <2>2. CASE Calls
    BY <2>1, <2>2 DEF Calls, PacedIsServed
  <2>3. CASE CallFails
    BY <2>3 DEF CallFails, PacedIsServed
  <2>4. CASE ClockBack
    BY <2>4 DEF ClockBack, PacedIsServed
  <2>5. CASE BucketTick \/ Observe \/ UNCHANGED bucketVars
    BY <1>2, <2>5 DEF BucketTick, Observe, bucketVars, PacedIsServed
  <2> QED BY <1>2, <2>2, <2>3, <2>4, <2>5 DEF BucketNext
<1> QED BY <1>1, <1>2, BucketBounds, PTL DEF BucketSpec
===============================================================================
