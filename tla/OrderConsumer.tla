----------------------------- MODULE OrderConsumer -----------------------------
(***************************************************************************)
(* The consumers of the order topic and the retry topic: ConsumeClaim and  *)
(* processMessage with what they call, ConfirmSeckillOrder, routeFailure   *)
(* and handleFinalFailture.  A worker takes one message at a time and      *)
(* commits its offset last; a message whose offset is not committed is     *)
(* delivered again when the partition gets a new consumer.                 *)
(***************************************************************************)
EXTENDS SeckillState

CONSTANT Worker

VARIABLES
    wpc,   \* the command each worker sends next
    wmsg,  \* the message it processes, or None
    fenced \* workers whose partition has been given to another one

consumerVars == <<wpc, wmsg, fenced>>

WpcValues == {"idle", "confirm", "clear", "schedule", "route", "dead",
              "restock", "unmark", "uncoupon", "drop", "ack"}

ConsumerTypeOK ==
    /\ wpc \in [Worker -> WpcValues]
    /\ wmsg \in [Worker -> Message \cup {None}]
    /\ \A w \in Worker : wpc[w] # "idle" => wmsg[w] \in Message
    /\ fenced \subseteq Worker

ConsumerInit ==
    /\ wpc = [w \in Worker |-> "idle"]
    /\ wmsg = [w \in Worker |-> None]
    /\ fenced = {}

OrderOf(w) == wmsg[w][1]
RetryCount(w) == wmsg[w][2]

Moves(w, from, to) ==
    /\ wpc[w] = from
    /\ wpc' = [wpc EXCEPT ![w] = to]
    /\ UNCHANGED <<wmsg, fenced>>

\* The worker is done with its message, which becomes outcome unless the
\* message is not the worker's any more.  t is what the topics hold by then.
Leaves(w, t, outcome) ==
    /\ topic' = IF w \in fenced THEN t ELSE [t EXCEPT ![wmsg[w]] = outcome]
    /\ wpc' = [wpc EXCEPT ![w] = "idle"]
    /\ wmsg' = [wmsg EXCEPT ![w] = None]
    /\ fenced' = fenced \ {w}

\* routeFailure returned no commit: the worker goes on with the next message.
GivesUp(w) == Leaves(w, topic, "passed")

-------------------------------------------------------------------------------

Fetch(w, m) ==
    /\ wpc[w] = "idle"
    /\ topic[m] = "ready"
    /\ topic' = [topic EXCEPT ![m] = "taken"]
    /\ wpc' = [wpc EXCEPT ![w] = "confirm"]
    /\ wmsg' = [wmsg EXCEPT ![w] = m]
    /\ UNCHANGED <<fenced, redisVars, mysqlVars, dlqTopic, deadRow, reserved>>

\* Mutant: the order number is the only unique key.
DuplicateNumber(o) == Ledger!Exists(o)

\* CreateOrder runs into a unique key.
Duplicate(o) == \E p \in Order : Ledger!Exists(p) /\ Clash(o, p)

\* Mutant: DecreaseStock does not ask for enough stock.
ConfirmUnchecked(o) ==
    /\ ~Duplicate(o)
    /\ order' = [order EXCEPT ![o] = "Pending"]
    /\ available' = [available EXCEPT ![SkuOf[o]] = @ - Quantity[o]]

\* The effect of the transaction when it commits: the row and DecreaseStock.
Confirm(o) ==
    /\ ~Duplicate(o)
    /\ Quantity[o] <= available[SkuOf[o]]
    /\ order' = [order EXCEPT ![o] = "Pending"]
    /\ available' = [available EXCEPT ![SkuOf[o]] = @ - Quantity[o]]

\* Mutant: the last failure is dropped.
FailsAndDrops(w, from) ==
    Moves(w, from, IF RetryCount(w) < MaxRetry THEN "route" ELSE "ack")

\* classifyOrderError: an error that may go away is retried up to MaxRetry
\* times, any other, and the last one, is final.
Fails(w, from) ==
    \/ RetryCount(w) < MaxRetry /\ Moves(w, from, "route")
    \/ Moves(w, from, "dead")

\* Mutant: ErrOrderExists is a failure like any other.
DuplicateFails(w) == Moves(w, "confirm", "dead")

\* ErrOrderExists counts as success.
DuplicateSucceeds(w) == Moves(w, "confirm", "ack")

\* ConfirmSeckillOrder up to the end of its transaction.  The address is read
\* first, so that a duplicate can fail as well.
ConfirmTx(w) ==
    /\ wpc[w] = "confirm"
    /\ LET o == OrderOf(w) IN
       \/ Duplicate(o) /\ DuplicateSucceeds(w) /\ UNCHANGED <<order, available>>
       \/ Confirm(o) /\ Moves(w, "confirm", "clear")
       \/ /\ ~Duplicate(o)
          /\ Quantity[o] > available[SkuOf[o]]
          /\ Moves(w, "confirm", "dead")
          /\ UNCHANGED <<order, available>>
       \/ /\ "TxError" \in Faults
          /\ Fails(w, "confirm")
          /\ UNCHANGED <<order, available>>
       \/ "CommitAckLost" \in Faults /\ Confirm(o) /\ Fails(w, "confirm")
    /\ UNCHANGED <<redisVars, coupon, kafkaVars, reserved>>

ClearPending(w) ==
    /\ Moves(w, "clear", "schedule")
    /\ BestEffort(DropPending(OrderOf(w)), UNCHANGED pending)
    /\ UNCHANGED <<idempotent, redisStock, buyMark, delayQueue, mysqlVars,
                   kafkaVars, reserved>>

\* DelayQueue.Add: an error is logged and the message counts as processed.
Schedule(w) ==
    /\ Moves(w, "schedule", "ack")
    /\ BestEffort(delayQueue' = delayQueue \cup {OrderOf(w)}, UNCHANGED delayQueue)
    /\ UNCHANGED <<idempotent, redisStock, buyMark, pending, mysqlVars,
                   kafkaVars, reserved>>

Ack(w) ==
    /\ wpc[w] = "ack"
    /\ Leaves(w, topic, "done")
    /\ UNCHANGED <<redisVars, mysqlVars, dlqTopic, deadRow, reserved>>

-------------------------------------------------------------------------------

\* SendToRetry
RouteRetry(w) ==
    /\ LET next == <<OrderOf(w), RetryCount(w) + 1>> IN
       \/ Moves(w, "route", "ack") /\ Publish(next)
       \/ /\ wpc[w] = "route"
          /\ SendFails(Leaves(w, WithCopy(next), "passed"), GivesUp(w))
    /\ UNCHANGED <<redisVars, mysqlVars, dlqTopic, deadRow, reserved>>

\* Mutant: the dead letter is not written.
DeadLetterUnwritten(w) ==
    /\ Moves(w, "dead", "restock")
    /\ UNCHANGED <<topic, dlqTopic, redisVars, mysqlVars, deadRow, reserved>>

\* SendToDLQ comes before the compensation.
DeadLetter(w) ==
    LET written == dlqTopic' = dlqTopic \cup {wmsg[w]} IN
    /\ \/ Moves(w, "dead", "restock") /\ written /\ UNCHANGED topic
       \/ /\ wpc[w] = "dead"
          /\ GivesUp(w)
          /\ SendFails(written, UNCHANGED dlqTopic)
    /\ UNCHANGED <<redisVars, mysqlVars, deadRow, reserved>>

\* RollbackSeckillReservation: RollbackStock, RemoveUserBuy and, ignoring
\* errors, RestoreUserCoupon and DeletePendingReservation.
Restock(w) ==
    /\ \/ Moves(w, "restock", "unmark") /\ GiveBack(OrderOf(w)) /\ UNCHANGED topic
       \/ /\ wpc[w] = "restock"
          /\ GivesUp(w)
          /\ StoreFails(GiveBack(OrderOf(w)), UNCHANGED <<redisStock, reserved>>)
    /\ UNCHANGED <<idempotent, buyMark, pending, delayQueue, mysqlVars,
                   dlqTopic, deadRow>>

RemoveMark(w) ==
    /\ \/ /\ Moves(w, "unmark", IF HasCoupon(OrderOf(w)) THEN "uncoupon" ELSE "drop")
          /\ Unmark(OrderOf(w))
          /\ UNCHANGED topic
       \/ /\ wpc[w] = "unmark"
          /\ GivesUp(w)
          /\ StoreFails(Unmark(OrderOf(w)), UNCHANGED buyMark)
    /\ UNCHANGED <<idempotent, redisStock, pending, delayQueue, mysqlVars,
                   dlqTopic, deadRow, reserved>>

RestoreCoupon(w) ==
    /\ Moves(w, "uncoupon", "drop")
    /\ BestEffort(ReturnCoupon(OrderOf(w)), UNCHANGED coupon)
    /\ UNCHANGED <<redisVars, order, available, kafkaVars, reserved>>

DropReservation(w) ==
    /\ Moves(w, "drop", "ack")
    /\ BestEffort(DropPending(OrderOf(w)), UNCHANGED pending)
    /\ UNCHANGED <<idempotent, redisStock, buyMark, delayQueue, mysqlVars,
                   kafkaVars, reserved>>

-------------------------------------------------------------------------------

\* The worker dies before it commits the offset, or its context is cancelled.
CrashWorker(w) ==
    /\ "Redelivery" \in Faults
    /\ wpc[w] # "idle"
    /\ Leaves(w, topic, "ready")
    /\ UNCHANGED <<redisVars, mysqlVars, dlqTopic, deadRow, reserved>>

\* Another worker gets the partition while w still processes its message.
Rebalance(w) ==
    /\ "Redelivery" \in Faults
    /\ wpc[w] # "idle"
    /\ w \notin fenced
    /\ fenced' = fenced \cup {w}
    /\ topic' = [topic EXCEPT ![wmsg[w]] = "ready"]
    /\ UNCHANGED <<wpc, wmsg, redisVars, mysqlVars, dlqTopic, deadRow, reserved>>

\* A message passed over is read again from the committed offset, or is lost:
\* a later message of its partition was processed and commits a higher offset.
ResumePassed(m) ==
    /\ topic[m] = "passed"
    /\ \/ "Redelivery" \in Faults /\ topic' = [topic EXCEPT ![m] = "ready"]
       \/ topic' = [topic EXCEPT ![m] = "done"]
    /\ UNCHANGED <<consumerVars, redisVars, mysqlVars, dlqTopic, deadRow, reserved>>

WorkerStep(w) ==
    \/ \E m \in Message : Fetch(w, m)
    \/ ConfirmTx(w) \/ ClearPending(w) \/ Schedule(w) \/ Ack(w)
    \/ RouteRetry(w) \/ DeadLetter(w) \/ Restock(w) \/ RemoveMark(w)
    \/ RestoreCoupon(w) \/ DropReservation(w)

ConsumerNext ==
    \/ \E w \in Worker : WorkerStep(w) \/ CrashWorker(w) \/ Rebalance(w)
    \/ \E m \in Message : ResumePassed(m)
===============================================================================
