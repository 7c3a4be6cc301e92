-------------------------- MODULE PipelineInvariants --------------------------
(***************************************************************************)
(* Why the pipeline keeps what SeckillPipeline promises of Redis, coupons  *)
(* and messages: for each promise the faults it survives, and the          *)
(* inductive invariant that says who may still touch a reservation, a buy  *)
(* mark, a coupon or a message.                                            *)
(***************************************************************************)
EXTENDS SeckillPipeline

\* Who heeds an error knows that the command had no effect.
HonestErrors == Faults \cap {"SendAckLost", "CommitAckLost"} = {}

\* No message is processed again.
DeliveredOnce == Faults \cap {"Redelivery", "Replay"} = {}

\* A message is not processed again if its first processing may fail: what was
\* compensated once would be confirmed, or compensated twice.
FailedOnce == "TxError" \in Faults => DeliveredOnce

StockFaults == HonestErrors /\ FailedOnce

-------------------------------------------------------------------------------
(* Calls, messages and orders. *)

SentPc == {"remark", "accepted", "crashed"}
HoldingPc == {"pend", "send", "unpend", "restock"}
EarlyPc == {"start", "check", "mark", "record", "coupon", "deduct"}

\* Only an order whose message is out has a message, a worker or a row.
SentFirst ==
    /\ \A m \in Message : topic[m] # "absent" => pc[m[1]] \in SentPc
    /\ \A w \in Worker : wpc[w] # "idle" => pc[OrderOf(w)] \in SentPc
    /\ \A o \in Order : Ledger!Exists(o) => pc[o] \in SentPc

\* A call holds its reservation from the script that takes it to the append, or
\* to the command that gives it back.
CallsHold ==
    \A o \in Order :
        /\ pc[o] \in EarlyPc => o \notin reserved
        /\ pc[o] \in HoldingPc => o \in reserved

\* A cancellation gives back what its order still holds.
CancelsHold ==
    \A o \in Order :
        /\ cpc[o] # "idle" => order[o] = "Cancel"
        /\ cpc[o] = "restock" => o \in reserved

ConfirmingPc == {"confirm", "clear", "schedule"}

\* Where a message may be processed again no transaction fails: no worker
\* compensates, and an order that was sent and has no row keeps its reservation,
\* however often it is delivered.
NeverFails ==
    ~DeliveredOnce =>
        /\ \A w \in Worker : wpc[w] \in {"idle", "ack"} \cup ConfirmingPc
        /\ dlqTopic = {}
        /\ \A o \in Order : deadRow[o] = None
        /\ \A m \in Message :
              topic[m] # "absent" => Ledger!Exists(m[1]) \/ m[1] \in reserved
        /\ \A w \in Worker :
              wpc[w] # "idle" => Ledger!Exists(OrderOf(w)) \/ OrderOf(w) \in reserved

\* The commands of a worker that still decides about an order, and of those the
\* ones before the reservation is given back.
DecidingPc == {"confirm", "route", "dead", "restock", "unmark", "uncoupon"}
KeepingPc == {"confirm", "route", "dead", "restock"}

\* Otherwise one message or one worker decides about an order, the order has no row
\* yet, and the reservation is kept up to its compensation.
OneDecides ==
    DeliveredOnce =>
        /\ \A m \in Message :
              topic[m] = "ready" => ~Ledger!Exists(m[1]) /\ m[1] \in reserved
        /\ \A w \in Worker :
              /\ wpc[w] \in DecidingPc => ~Ledger!Exists(OrderOf(w))
              /\ wpc[w] \in KeepingPc => OrderOf(w) \in reserved
        /\ \A m, n \in Message :
              topic[m] = "ready" /\ topic[n] = "ready" /\ m[1] = n[1] => m = n
        /\ \A m \in Message, w \in Worker :
              topic[m] = "ready" /\ wpc[w] \in DecidingPc => m[1] # OrderOf(w)
        /\ \A v, w \in Worker :
              wpc[v] \in DecidingPc /\ wpc[w] \in DecidingPc
              /\ OrderOf(v) = OrderOf(w) => v = w

HoldInv ==
    /\ SentFirst /\ CallsHold /\ CancelsHold /\ NeverFails /\ OneDecides
    /\ OrderBacked

StockInv == HoldInv /\ StockAccounted

-------------------------------------------------------------------------------
(* Coupons. *)

\* A message of o may still be confirmed or compensated.
Pursued(o) ==
    IF DeliveredOnce
    THEN \/ \E m \in Message : m[1] = o /\ topic[m] = "ready"
         \/ \E w \in Worker : wpc[w] \in DecidingPc /\ OrderOf(w) = o
    ELSE /\ ~Ledger!Exists(o)
         /\ \/ \E m \in Message : m[1] = o /\ topic[m] # "absent"
            \/ \E w \in Worker : wpc[w] # "idle" /\ OrderOf(w) = o

ClaimingPc == {"deduct", "unmark", "uncoupon"} \cup HoldingPc

\* Whoever works for o may still use its coupon or give it back.
ClaimsCoupon(o) ==
    /\ HasCoupon(o)
    /\ \/ pc[o] \in ClaimingPc
       \/ Pursued(o)
       \/ o \in Ledger!Live

\* What is claimed is used, and claimed once.
ClaimedOnce ==
    /\ \A o \in Order : ClaimsCoupon(o) => coupon[CouponOf[o]] = "used"
    /\ \A o, p \in Order :
          ClaimsCoupon(o) /\ ClaimsCoupon(p) /\ CouponOf[o] = CouponOf[p] => o = p

CouponInv ==
    /\ \A o \in Order : pc[o] = "coupon" => HasCoupon(o)
    /\ ClaimedOnce

-------------------------------------------------------------------------------
(* Buy marks. *)

\* Commands that remove a mark come with the one that gave the stock back, and
\* no key expires.
MarkFaults == StockFaults /\ Faults \cap {"StoreError", "Expiry"} = {}

\* Somebody has given the reservation of o back and removes its mark next.
Unmarking(o) ==
    \/ pc[o] = "unmark" \/ cpc[o] = "unmark"
    \/ \E w \in Worker : wpc[w] = "unmark" /\ OrderOf(w) = o

\* The mark of o stands for its reservation up to its removal.
HoldsMark(o) == o \in reserved \/ Unmarking(o)

MarkInv ==
    /\ \A o \in Order : Unmarking(o) => o \notin reserved
    /\ \A o \in Order : HoldsMark(o) => Mark(o) \in buyMark
    /\ \A o, p \in Order : HoldsMark(o) /\ HoldsMark(p) /\ Mark(o) = Mark(p) => o = p

-------------------------------------------------------------------------------
(* Pending records. *)

\* No command fails, and no process stops, between two commands of one call.
WholeCalls ==
    StockFaults /\ Faults \cap {"StoreError", "ProcessCrash", "DeductError"} = {}

\* Nor does a key expire.
RecordFaults == WholeCalls /\ "Expiry" \notin Faults

\* A request is admitted once.
Admitted(o) == pc[o] \notin {"start", "rejected"} \/ o \in reserved

RecordInv ==
    /\ \A o \in Order : Admitted(o) => RequestOf[o] \in idempotent
    /\ \A o, p \in Order :
          Admitted(o) /\ Admitted(p) /\ RequestOf[o] = RequestOf[p] => o = p
    /\ \A o \in reserved :
          ~Ledger!Exists(o) /\ pc[o] \notin {"pend", "restock"}
          => pending[RequestOf[o]] = o
    /\ \A o \in reserved : order[o] = "Cancel" => cpc[o] = "restock"
    /\ \A w \in Worker :
          /\ wpc[w] = "clear" => Ledger!Exists(OrderOf(w))
          /\ wpc[w] \in {"unmark", "uncoupon", "drop"} => OrderOf(w) \notin reserved

\* A used coupon has somebody to answer for it.
UsedInv ==
    \A c \in Coupon : coupon[c] = "used" =>
        \E o \in Order :
            /\ CouponOf[o] = c
            /\ \/ o \in reserved /\ order[o] # "Cancel"
               \/ pc[o] \in {"deduct", "unmark", "uncoupon"}
               \/ \E w \in Worker : wpc[w] \in {"unmark", "uncoupon"} /\ OrderOf(w) = o

-------------------------------------------------------------------------------
(* Messages. *)

\* What is written to the topics and to the dead letters is not lost.
MessageFaults == Faults \cap {"StoreError", "BrokerError"} = {}

\* o is settled, or a later attempt of it than m is on its way.
Succeeded(m) ==
    \/ Confirmed(m[1])
    \/ DeadLettered(m[1])
    \/ \E n \in Message : /\ n[1] = m[1] /\ n[2] > m[2]
                          /\ topic[n] \in {"ready", "taken", "passed"}

LossInv ==
    /\ \A o \in Order : pc[o] \in {"remark", "accepted"} => topic[<<o, 0>>] # "absent"
    /\ \A m \in Message : topic[m] \in {"passed", "done"} => Succeeded(m)
    /\ \A w \in Worker :
          /\ wpc[w] = "ack" => Succeeded(wmsg[w])
          /\ wpc[w] \in {"clear", "schedule"} => Confirmed(OrderOf(w))
          /\ wpc[w] \in {"restock", "unmark", "uncoupon", "drop"} => DeadLettered(OrderOf(w))
          /\ wpc[w] = "route" => RetryCount(w) < MaxRetry

-------------------------------------------------------------------------------
(* Progress: whatever is left to do has somebody who can do it next. *)

\* A message is with at most one worker that has not lost its partition, and such a
\* worker has it for itself.
TakenOnce ==
    /\ \A w \in fenced : wpc[w] # "idle"
    /\ \A w \in Worker \ fenced : wpc[w] # "idle" => topic[wmsg[w]] = "taken"
    /\ \A v, w \in Worker \ fenced :
          wpc[v] # "idle" /\ wpc[w] # "idle" /\ wmsg[v] = wmsg[w] => v = w
    /\ \A m \in Message :
          topic[m] = "taken" => \E w \in Worker \ fenced : wpc[w] # "idle" /\ wmsg[w] = m

\* What a handler gives up on may be lost.
DriveFaults == StockFaults /\ Faults \cap {"StoreError", "BrokerError"} = {}

\* A message or a worker is going to confirm o or to give its reservation back.
Driven(o) ==
    \/ \E m \in Message : m[1] = o /\ topic[m] = "ready"
    \/ \E w \in Worker : wpc[w] \in KeepingPc /\ OrderOf(w) = o

\* An accepted order that has neither been confirmed nor given back is in the topics or
\* with a worker.
AcceptedIsDriven ==
    \A o \in Order :
        pc[o] = "accepted" /\ o \in reserved => Confirmed(o) \/ Driven(o)

\* Nobody is ahead of the attempt that decides about an order.
LaterAbsent ==
    /\ \A m, n \in Message :
          topic[m] = "ready" /\ n[1] = m[1] /\ n[2] > m[2] => topic[n] = "absent"
    /\ \A w \in Worker, n \in Message :
          wpc[w] \in DecidingPc /\ n[1] = OrderOf(w) /\ n[2] > RetryCount(w)
          => topic[n] = "absent"

SentIsDriven ==
    \A m \in Message :
        topic[m] # "absent" /\ m[1] \in reserved => Confirmed(m[1]) \/ Driven(m[1])

\* Where a message may be processed again, nothing but an order ends it.
EndsConfirmed ==
    /\ \A m \in Message : topic[m] # "passed" /\ (topic[m] = "done" => Confirmed(m[1]))
    /\ \A w \in Worker :
          wpc[w] \in {"clear", "schedule", "ack"} => Confirmed(OrderOf(w))

DriveInv ==
    /\ TakenOnce
    /\ IF DeliveredOnce THEN LaterAbsent /\ SentIsDriven ELSE EndsConfirmed

\* An order is added to the delay queue by the worker that confirmed it.
ScheduleFaults == Faults \cap {"StoreError", "CommitAckLost", "Redelivery"} = {}

\* An order that waits to be paid is in the delay queue or about to be added to it.
PendingIsScheduled ==
    \A o \in Order : order[o] = "Pending" =>
        \/ o \in delayQueue
        \/ \E w \in Worker : wpc[w] \in {"clear", "schedule"} /\ OrderOf(w) = o

\* Whoever cancels goes on to Redis.
UndoFaults == StockFaults /\ Faults \cap {"StoreError", "ProcessCrash"} = {}

\* A cancelled order whose stock is not back in Redis is about to give it back.
CancelledIsReturned ==
    \A o \in Order : order[o] = "Cancel" /\ o \in reserved => cpc[o] = "restock"

-------------------------------------------------------------------------------
(* What Redis and the core database promise together. *)

\* An order number is new until its call comes past the script, and over when it has
\* nothing reserved then.
HeldBy(o) ==
    IF o \in reserved THEN "held" ELSE IF pc[o] \in EarlyPc THEN "new" ELSE "over"

Promise == INSTANCE StockPromise WITH held <- [o \in Order |-> HeldBy(o)]

\* Calls, messages, retries, compensations and cancellations together take only the steps
\* of StockPromise: each order number reserves once, is confirmed only while it holds its
\* units, and gives them back once, when it has no order that stands.
ImplementsPromise == Promise!PromiseSpec
===============================================================================
