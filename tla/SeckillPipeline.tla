---------------------------- MODULE SeckillPipeline ----------------------------
(***************************************************************************)
(* The whole order pipeline: calls that reserve in Redis, consumers that   *)
(* confirm in the core database, cancellation and payment, dead letters,   *)
(* and keys that expire, in every interleaving and under every fault that  *)
(* Faults allows.                                                          *)
(***************************************************************************)
EXTENDS PlaceOrder, OrderConsumer, OrderCancel, DeadLetters

vars == <<sharedVars, pc, consumerVars, cpc>>

Init == StateInit /\ PlaceInit /\ ConsumerInit /\ CancelInit

Next ==
    \/ PlaceNext /\ UNCHANGED <<consumerVars, cpc>>
    \/ ConsumerNext /\ UNCHANGED <<pc, cpc>>
    \/ CancelNext /\ UNCHANGED <<pc, consumerVars>>
    \/ DeadLettersNext /\ UNCHANGED <<pc, consumerVars, cpc>>
    \/ Expire /\ UNCHANGED <<pc, consumerVars, cpc>>

Spec == Init /\ [][Next]_vars

\* A call that was admitted, a worker with something to do, a cancellation and
\* the delay queue go on: goroutines are scheduled, ConsumeClaim loops over its
\* messages and DelayQueue.Start polls every 30 seconds.  Nobody has to call,
\* to pay or to cancel, and no fault has to happen.
Fairness ==
    /\ \A o \in Order :
        /\ WF_vars(CallStep(o) /\ UNCHANGED <<consumerVars, cpc>>)
        /\ WF_vars(CancelStep(o) /\ UNCHANGED <<pc, consumerVars>>)
    /\ \A w \in Worker : WF_vars(WorkerStep(w) /\ UNCHANGED <<pc, cpc>>)

FairSpec == Spec /\ Fairness

TypeOK == StateTypeOK /\ PlaceTypeOK /\ ConsumerTypeOK /\ CancelTypeOK

\* GetOrderByRequestID
OrdersOfRequest(o) == {p \in Order : RequestOf[p] = RequestOf[o] /\ Ledger!Exists(p)}

\* GetSeckillResult, which a client polls with the request of o: a cancelled order
\* is a failure, any other a success, and no order is still being processed.
ResultOf(o) ==
    LET found == OrdersOfRequest(o) IN
    IF found = {} THEN "processing"
    ELSE IF \E p \in found : order[p] = "Cancel" THEN "failed" ELSE "success"

-------------------------------------------------------------------------------
(* The core database, under every fault. *)

\* Whatever is lost, repeated or undone around it, the core database takes only
\* the steps of OrderLedger: ConfirmSeckillOrder creates an order against stock
\* it takes, once per request and once per user and activity, and
\* CancelTimeoutOrder gives back the stock of an order it found pending.
ImplementsLedger == Ledger!Spec

\* No oversell in the core database: available_stock and the quantity of the
\* pending and paid orders add up to the stock of the activity.
LedgerConserved == Ledger!Conserved

\* No two orders of one request or of one user in one activity.
LedgerNoClash == Ledger!NoClash

-------------------------------------------------------------------------------
(* Redis against the core database. *)

ReservedOf(k) == {o \in reserved : SkuOf[o] = k}

\* Every unit missing from the stock in Redis is held by exactly one reservation
\* that has not been given back: DeductStock takes it and RollbackStock, called
\* from the failed send, the final failure and the cancellation, returns it once.
StockAccounted ==
    \A k \in Sku : redisStock[k] + TotalQuantity(ReservedOf(k)) = Stock[k]

\* An order of the core database that is pending or paid still holds its
\* reservation in Redis: no compensation undoes an order that stands.
OrderBacked == Ledger!Live \subseteq reserved

\* Redis never admits more than the core database can confirm: the stock left in
\* Redis and the reservations without an order fit in available_stock.
NoOverAdmission ==
    \A k \in Sku :
        redisStock[k] + TotalQuantity(ReservedOf(k) \ Ledger!Live) <= available[k]

\* The coupon of an order that stands is used and no other such order has it:
\* RestoreUserCoupon does not ask by whom a coupon is used.
CouponHeld ==
    \A o \in Ledger!Live : HasCoupon(o) =>
        /\ coupon[CouponOf[o]] = "used"
        /\ \A p \in Ledger!Live : CouponOf[p] = CouponOf[o] => p = o

\* While the mark lives a user has one reservation of a sku at a time, through
\* any order of failed sends, rollbacks and cancellations that remove the mark.
OneReservationPerUser ==
    \A o, p \in reserved : Mark(o) = Mark(p) => o = p

-------------------------------------------------------------------------------
(* Nothing is forgotten. *)

\* Some order took the place of o: its own row, or one it clashes with.
Confirmed(o) == Duplicate(o)

Unsettled(o) ==
    \E m \in Message : m[1] = o /\ topic[m] \in {"ready", "taken", "passed"}

DeadLettered(o) == deadRow[o] # None \/ \E m \in dlqTopic : m[1] = o

\* An order number given to a client is confirmed, on its way or dead-lettered:
\* offsets are committed only after the order or its dead letter is written.
NoSilentLoss ==
    \A o \in Order :
        pc[o] = "accepted" => Confirmed(o) \/ Unsettled(o) \/ DeadLettered(o)

\* Somebody still works on the reservation of o.
InProgress(o) ==
    \/ pc[o] \in {"pend", "send", "remark", "unpend", "restock"}
    \/ Unsettled(o)
    \/ \E w \in Worker : wpc[w] # "idle" /\ OrderOf(w) = o
    \/ cpc[o] = "restock"

\* A reservation that no order stands for and nobody works on has a pending
\* record of its own, which is what CompensateTask finds and rolls it back from.
LeakIsRecorded ==
    \A o \in reserved :
        \/ o \in Ledger!Live
        \/ InProgress(o)
        \/ pending[RequestOf[o]] = o

\* A used coupon is used for something: an order, a reservation, or a call or a
\* worker that is about to reserve or to give the coupon back.
NoCouponStranded ==
    \A c \in Coupon : coupon[c] = "used" =>
        \E o \in Order :
            /\ CouponOf[o] = c
            /\ o \in reserved \/ o \in Ledger!Live \/ InProgress(o)
               \/ pc[o] \in {"deduct", "unmark", "uncoupon"}

\* A user whose order failed for good may buy again: nothing of the reservation
\* that was rolled back is left to keep the user out.
FailedMayBuyAgain ==
    \A o \in Order :
        /\ pc[o] = "accepted" /\ o \notin reserved
        /\ ~Ledger!Exists(o) /\ ~InProgress(o)
        /\ Mark(o) \in buyMark
        => \E p \in reserved : Mark(p) = Mark(o)

-------------------------------------------------------------------------------
(* Progress. *)

\* An accepted call is settled: an order stands for it or its reservation has
\* been given back.
AcceptedIsSettled ==
    \A o \in Order : pc[o] = "accepted" ~> Confirmed(o) \/ o \notin reserved

\* An order does not stay unpaid: it is paid or the delay queue cancels it.
PendingIsClosed ==
    \A o \in Order : order[o] = "Pending" ~> order[o] # "Pending"

\* After a cancellation its stock is back in Redis and its user may buy again.
CancelIsUndone ==
    \A o \in Order : order[o] = "Cancel" ~> o \notin reserved

-------------------------------------------------------------------------------
(* What the code does not keep; the README says how it comes about. *)

\* A client that polls gets to know what became of an accepted call.
PollEnds == \A o \in Order : pc[o] = "accepted" ~> ResultOf(o) # "processing"
===============================================================================
