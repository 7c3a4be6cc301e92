------------------------------ MODULE OrderCancel ------------------------------
(***************************************************************************)
(* CancelTimeoutOrder, called for an order that its buyer cancels and for  *)
(* one the delay queue finds unpaid, and the payment that races with it.   *)
(* The zset of due orders and the zset of those being processed are one    *)
(* set here: an order stays in it until handleTimeout finds it closed.     *)
(***************************************************************************)
EXTENDS SeckillState

VARIABLE cpc \* the command the cancellation of each order sends next

CancelTypeOK == cpc \in [Order -> {"idle", "restock", "unmark"}]
CancelInit == cpc = [o \in Order |-> "idle"]

CancelGoes(o, from, to) == cpc[o] = from /\ cpc' = [cpc EXCEPT ![o] = to]

\* Mutants: the status is not checked, or RestoreStock is left out.
CancelTxAnyStatus(o) ==
    /\ order[o] # "none"
    /\ order' = [order EXCEPT ![o] = "Cancel"]
    /\ available' = [available EXCEPT ![SkuOf[o]] = @ + Quantity[o]]
    /\ ReturnCoupon(o)
    /\ CancelGoes(o, "idle", "restock")
    /\ UNCHANGED <<redisVars, kafkaVars, reserved>>

CancelTxKeepStock(o) ==
    /\ order[o] = "Pending"
    /\ order' = [order EXCEPT ![o] = "Cancel"]
    /\ ReturnCoupon(o)
    /\ CancelGoes(o, "idle", "restock")
    /\ UNCHANGED <<redisVars, available, kafkaVars, reserved>>

\* The transaction: the row lock lets one caller find the order pending.  When
\* the commit reports an error the caller returns before it touches Redis.
CancelTx(o) ==
    /\ order[o] = "Pending"
    /\ order' = [order EXCEPT ![o] = "Cancel"]
    /\ available' = [available EXCEPT ![SkuOf[o]] = @ + Quantity[o]]
    /\ ReturnCoupon(o)
    /\ \/ CancelGoes(o, "idle", "restock")
       \/ "CommitAckLost" \in Faults /\ CancelGoes(o, "idle", "idle")
    /\ UNCHANGED <<redisVars, kafkaVars, reserved>>

\* The buyer cancels.
CancelOrder(o) == CancelTx(o)

\* The delay queue finds the order unpaid after its 15 minutes.
HandleTimeout(o) == o \in delayQueue /\ CancelTx(o)

\* Mutant: RollbackStock is not called.
RestoreNoStock(o) == CancelGoes(o, "restock", "unmark") /\ UNCHANGED sharedVars

RestoreStock(o) ==
    /\ CancelGoes(o, "restock", "unmark")
    /\ BestEffort(GiveBack(o), UNCHANGED <<redisStock, reserved>>)
    /\ UNCHANGED <<idempotent, buyMark, pending, delayQueue, mysqlVars, kafkaVars>>

ClearMark(o) ==
    /\ CancelGoes(o, "unmark", "idle")
    /\ BestEffort(Unmark(o), UNCHANGED buyMark)
    /\ UNCHANGED <<idempotent, redisStock, pending, delayQueue, mysqlVars,
                   kafkaVars, reserved>>

\* Mutant: a task leaves the queue whatever became of its order.
DropAnyTask(o) ==
    /\ o \in delayQueue
    /\ delayQueue' = delayQueue \ {o}
    /\ UNCHANGED <<cpc, idempotent, redisStock, buyMark, pending, mysqlVars,
                   kafkaVars, reserved>>

\* handleTimeout has nothing left to do, perhaps because the buyer is cancelling,
\* and the task leaves the queue.
DropTask(o) ==
    /\ o \in delayQueue
    /\ order[o] \in {"Paid", "Cancel"}
    /\ delayQueue' = delayQueue \ {o}
    /\ UNCHANGED <<cpc, idempotent, redisStock, buyMark, pending, mysqlVars,
                   kafkaVars, reserved>>

\* HandlePayCallback marks the pending order paid; the payment itself is not here.
Pay(o) ==
    /\ order[o] = "Pending"
    /\ order' = [order EXCEPT ![o] = "Paid"]
    /\ UNCHANGED <<cpc, redisVars, available, coupon, kafkaVars, reserved>>

CrashCancel(o) ==
    /\ "ProcessCrash" \in Faults
    /\ cpc[o] # "idle"
    /\ cpc' = [cpc EXCEPT ![o] = "idle"]
    /\ UNCHANGED sharedVars

CancelStep(o) == HandleTimeout(o) \/ RestoreStock(o) \/ ClearMark(o) \/ DropTask(o)

CancelNext ==
    \E o \in Order : CancelStep(o) \/ CancelOrder(o) \/ Pay(o) \/ CrashCancel(o)
===============================================================================
