----------------------------- MODULE SeckillState -----------------------------
(***************************************************************************)
(* The state the processes of the order pipeline share, and the commands   *)
(* they send to it.  Redis commands and Lua scripts, statements on MySQL   *)
(* and appends to Kafka are atomic; everything between two of them is not. *)
(* A module per process (PlaceOrder, OrderConsumer, OrderCancel,           *)
(* DeadLetters) says in which order it sends them.                         *)
(***************************************************************************)
EXTENDS OrderParams

CONSTANTS
    Coupon,
    CouponOf,   \* user coupon used for each order, or None
    MaxRetry,   \* MaxRetryCount of the consumer
    MaxCount,   \* bound on the retry_count header: replays go above MaxRetry
    Faults,     \* the faults that may happen
    None

(***************************************************************************)
(* ProcessCrash   a process that serves a call or a job stops between two  *)
(*                commands                                                 *)
(* StoreError     a command to Redis or a single statement on MySQL        *)
(*                reports an error                                         *)
(* DeductError    the Lua script that reserves stock reports an error      *)
(* BrokerError    an append to Kafka fails                                 *)
(* SendAckLost    an append to Kafka succeeds but reports an error         *)
(* TxError        a transaction of the consumer is rolled back by an error *)
(* CommitAckLost  a transaction commits but reports an error               *)
(* Redelivery     a consumer dies or its partitions are rebalanced         *)
(* Expiry         a key of Redis outlives its time to live                 *)
(* Replay         an operator replays a dead letter                        *)
(***************************************************************************)
Fault == {"ProcessCrash", "StoreError", "DeductError", "BrokerError",
          "SendAckLost", "TxError", "CommitAckLost", "Redelivery", "Expiry",
          "Replay"}

ASSUME PipelineAssumption ==
    /\ CouponOf \in [Order -> Coupon \cup {None}]
    /\ None \notin Coupon
    /\ None \notin Order
    /\ None \notin 0 .. MaxCount
    /\ MaxRetry \in Nat
    /\ MaxCount \in Nat
    /\ MaxRetry <= MaxCount
    /\ Faults \subseteq Fault

\* An order message is its order number and its retry_count header: on the order
\* topic with count 0, on the retry topic with a higher one.
Message == Order \X (0 .. MaxCount)

VARIABLES
    \* Redis
    idempotent, \* requests with a key idempotent:<request_id>
    redisStock, \* seckill:act:<a>:sku:<k>:stock
    buyMark,    \* the <<sku, user>> with a key seckill:act:<a>:sku:<k>:buy:<u>
    pending,    \* order number in seckill:pending:<request_id>, or None
    delayQueue, \* order numbers in the zset delay:orders
    \* core database
    order, available, coupon,
    \* Kafka, and the table the dead letter topic ends up in
    topic,      \* what became of each message
    dlqTopic,   \* messages in the dead letter topic
    deadRow,    \* retry_count in mq_dead_letter_message of each order, or None
    \* history
    reserved    \* orders whose Redis deduction has not been given back

redisVars == <<idempotent, redisStock, buyMark, pending, delayQueue>>
mysqlVars == <<order, available, coupon>>
kafkaVars == <<topic, dlqTopic, deadRow>>
sharedVars == <<redisVars, mysqlVars, kafkaVars, reserved>>

Ledger == INSTANCE OrderLedger

Mark(o) == <<SkuOf[o], UserOf[o]>>
HasCoupon(o) == CouponOf[o] # None

StateTypeOK ==
    /\ idempotent \subseteq Request
    /\ redisStock \in [Sku -> Nat]
    /\ buyMark \subseteq Sku \X User
    /\ pending \in [Request -> Order \cup {None}]
    /\ delayQueue \subseteq Order
    /\ order \in [Order -> Ledger!Status]
    /\ available \in [Sku -> Nat]
    /\ coupon \in [Coupon -> {"unused", "used"}]
    /\ topic \in [Message -> {"absent", "ready", "taken", "passed", "done"}]
    /\ dlqTopic \subseteq Message
    /\ deadRow \in [Order -> 0 .. MaxCount \cup {None}]
    /\ reserved \subseteq Order

\* The cache is warmed up before the activity starts.
StateInit ==
    /\ idempotent = {}
    /\ redisStock = Stock
    /\ buyMark = {}
    /\ pending = [r \in Request |-> None]
    /\ delayQueue = {}
    /\ order = [o \in Order |-> "none"]
    /\ available = Stock
    /\ coupon = [c \in Coupon |-> "unused"]
    /\ topic = [m \in Message |-> "absent"]
    /\ dlqTopic = {}
    /\ deadRow = [o \in Order |-> None]
    /\ reserved = {}

-------------------------------------------------------------------------------
(* Commands.  Each one primes the variables its name is about. *)

\* RollbackStock
GiveBack(o) ==
    /\ redisStock' = [redisStock EXCEPT ![SkuOf[o]] = @ + Quantity[o]]
    /\ reserved' = reserved \ {o}

\* RemoveUserBuy
Unmark(o) == buyMark' = buyMark \ {Mark(o)}

\* RestoreUserCoupon asks only that the coupon is used, not by which order.
ReturnCoupon(o) ==
    coupon' = [c \in Coupon |-> IF c = CouponOf[o] THEN "unused" ELSE coupon[c]]

\* DeletePendingReservation
DropPending(o) == pending' = [pending EXCEPT ![RequestOf[o]] = None]

\* The topics with one more copy of m.  A copy of a message that is being
\* processed is folded into that message; Redelivery is what processes one
\* message twice.
WithCopy(m) == [topic EXCEPT ![m] = IF @ = "taken" THEN @ ELSE "ready"]

Publish(m) == topic' = WithCopy(m)

\* A command whose error the caller ignores: it has its effect or it has not.
BestEffort(effect, noEffect) == effect \/ ("StoreError" \in Faults /\ noEffect)

\* A command that reports an error to a caller that heeds it.
StoreFails(effect, noEffect) == "StoreError" \in Faults /\ (effect \/ noEffect)

\* An append to Kafka that reports an error.
SendFails(effect, noEffect) ==
    \/ "BrokerError" \in Faults /\ noEffect
    \/ "SendAckLost" \in Faults /\ effect

-------------------------------------------------------------------------------
(* Keys of Redis whose time to live ends: 5 minutes for a request, 15 minutes  *)
(* or an hour for a buy mark, 20 minutes for a pending reservation.            *)

ExpireRequest(r) ==
    /\ r \in idempotent
    /\ idempotent' = idempotent \ {r}
    /\ UNCHANGED <<redisStock, buyMark, pending, delayQueue, mysqlVars,
                   kafkaVars, reserved>>

ExpireMark(m) ==
    /\ m \in buyMark
    /\ buyMark' = buyMark \ {m}
    /\ UNCHANGED <<idempotent, redisStock, pending, delayQueue, mysqlVars,
                   kafkaVars, reserved>>

ExpirePending(r) ==
    /\ pending[r] # None
    /\ pending' = [pending EXCEPT ![r] = None]
    /\ UNCHANGED <<idempotent, redisStock, buyMark, delayQueue, mysqlVars,
                   kafkaVars, reserved>>

Expire ==
    /\ "Expiry" \in Faults
    /\ \/ \E r \in Request : ExpireRequest(r) \/ ExpirePending(r)
       \/ \E m \in Sku \X User : ExpireMark(m)
===============================================================================
