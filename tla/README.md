# TLA+ models of the seckill service

The service sells a limited stock of seckill (flash sale) products. A call is
answered as soon as stock is reserved in Redis and a message is in Kafka; a
consumer turns the message into an order in MySQL; a delay queue cancels orders
that nobody pays. There is no transaction across the three stores
(`src/internal/biz/README.md`, 分布式边界处理): each phase has a compensation of its
own, and whether the compensations add up in every order, after every failure, is
what these models are about.

## Inventory

Paths are relative to `src/internal/`.

| part | state it keeps | operations | correct when |
|---|---|---|---|
| order placement, `biz/seckill.go` `CreateSeckillOrder` | none of its own; a goroutine per call | limits, idempotency key, activity and product checks, buy checks, coupon, Redis deduction, pending record, send, buy mark, undo of a failed send | an accepted call is never forgotten; a refused one leaves nothing behind |
| Redis repository, `data/repo/redis_repo.go` | stock per sku, buy marks, pending records, caches, locks | Lua deduction, `IncrBy`, marks, pending records, cache and lock commands | stock in Redis never admits more than MySQL can confirm |
| request idempotency, `cache/idempotent.go` | a key per request, five minutes | `SETNX` | a request is served once while its key lives |
| rate limiter, `cache/limiter.go` | a token bucket per rule | Lua refill and take | never more than capacity plus refill |
| Kafka producer, `kafka/producer.go` | none | `Send`, `SendToRetry`, `SendToDLQ` | an error may mean that the message is in the topic |
| order and retry consumer, `kafka/consumer.go`, `error_classify.go`, `biz` `ConfirmSeckillOrder`, `RollbackSeckillReservation` | committed offsets, one message per claim | confirm, retry with backoff, dead letter, rollback | every message ends in an order, or in a dead letter and a rollback, once |
| dead letters, `kafka/dlq_consumer.go`, `biz` `ReplayDeadLetter` | `mq_dead_letter_message` | persist, list, replay | no dead letter is lost; a replay does no harm |
| cancellation, `biz/order_cancel.go` | none | one transaction, then Redis | one of cancel and pay wins; stock comes back once |
| delay queue, `job/delay_queue.go` | zsets of due and claimed orders, a lock per order | add, claim, dispatch, requeue | every unpaid order is cancelled in the end |
| compensation, `job/compensate.go` | none | overwrite Redis stock from MySQL, roll back pending records older than two minutes | repairs leaks and breaks nothing that is in flight |
| leader election, `job/leader.go` | a lease in Redis | acquire, renew, run, release | one process at a time runs a job |
| payment, `biz` `PaySeckillOrder`, `HandlePayCallback` | `pay_info` in the pay database | create, callback | a paid order has a successful payment; a payment of a cancelled order is recorded for refund |
| user coupons, `biz/coupon.go` | `coupon`, `user_coupon` | grant, use, restore | a coupon is granted once per key and used by one order |
| cache aside, `biz/seckill.go` and repositories | activity, product and list caches, Bloom filter | read through, invalidate, warm up | a stale value does not outlive its bound |
| activity and product updates | `seckill_activity`, `seckill_sku` | update, then invalidate and set stock | stock in Redis stays consistent with orders in flight |
| id generator, transaction, service layer, wiring, observability, configuration, servers, generated code, `src/tools/oversell` | none that matters here | | |

The parts interact through Redis keys, MySQL rows and Kafka messages only; the
calls inside one process are sequential. Hence what is hard: any two commands of
one call may be separated by commands of others, and a process may stop, or a
command may report an error with or without having had its effect, at each of
these places. `PROJECT.json` lists the hazards, each at its line, and which
properties look for them.

## Modules

```
OrderParams                    constants: orders, users, skus, quantities; total quantity of a set of orders
  OrderLedger                  abstract: what the core database promises
    StockPromise               abstract: what it and the stock in Redis promise together
  SeckillState                 Redis, MySQL and Kafka, and the commands sent to them; faults
    PlaceOrder                 CreateSeckillOrder
    OrderConsumer              consumers of the order and the retry topic
    OrderCancel                cancellation, payment, delay queue
    DeadLetters                dead letter table and replay
      SeckillPipeline          all of them together; implements OrderLedger
        PipelineInvariants     which faults each property survives, and why it holds;
                               the mapping to StockPromise
          MCSeckillPipeline    instances for TLC
        Compensation           the pipeline beside CompensateTask
          StockUpdate          both beside product updates and warm-ups
            MCStockUpdate      instances for TLC
Nil                            the value that stands for nothing
  Payment                      pay_info in one database, orders in another
  DelayQueue                   two zsets, pollers, workers, order locks; implements TimeoutQueue
  LeaderElection               leases, in ticks
  CouponWallet                 GrantCouponByReview, statement by statement
  CacheAside                   one cache entry, its readers, updates and warm-ups, in ticks
  Checkout                     amounts, from the price to the payment
TokenBucket                    RateLimiter, in ticks
PartitionConsumer              offsets of one partition; implements Delivery
TimeoutQueue, Delivery         abstract
MCParts                        instances for TLC of the eight components above
OrderLedgerProofs              the ledger; totals of quantities
  SeckillPipelineProofs        types, refinement of the ledger, messages
    ReservationProofs          stock, coupons, buy marks, records, who goes on with an order;
                               refinement of StockPromise
      StockUpdateProofs        the pipeline beside the task and updates; what the task gives back
MoneyProofs                    Payment, Checkout, CouponWallet
CoordinationProofs             DelayQueue, PartitionConsumer, LeaderElection, TokenBucket
CacheAsideProofs               CacheAside
PartsProofs                    MCParts: the instances side by side, from the proofs of the components
```

### The order pipeline

`SeckillState` declares the shared variables: in Redis `idempotent`, `redisStock`,
`buyMark`, `pending` and `delayQueue`; in the core database `order` (the status of
`seckill_order`, `"none"` without a row), `available` (`available_stock`) and
`coupon`; in Kafka `topic` and `dlqTopic`, and behind them `deadRow`, the retry
count in the dead letter table. `reserved` is history: the orders whose deduction
in Redis has not been given back.

An element of `Order` is an order number and the call that draws it. The client
chooses `RequestOf`, `UserOf`, `SkuOf`, `Quantity` and `CouponOf` for the call. `pc`
(`PlaceOrder`), `wpc` with `wmsg` (`OrderConsumer`) and `cpc` (`OrderCancel`) name the
command that each call, worker and cancellation sends next. An action is one
command to a store and what the code does with the reply up to its next command;
a transaction of `ExecTx` is one action, because the row lock or the unique keys
order it against the others. So the interleavings in the model are those of the code.

An order message is its order number and its `retry_count` header. `topic` says of
each message whether it is `ready` to be fetched, `taken` by a worker, `passed` over
by a worker that returned without committing, or `done`. A `passed` message is read
again after a rebalance, or lost as soon as a later message of its partition is
committed (`session.MarkMessage` marks an offset, not a message). Retries wait for
their backoff in the code; here they wait for any time.

Abstractions: amounts, addresses, activity windows and limits are left out and every
check on them may fail (`Refuse`, `ApplyCoupon`, the final failures of `TxError`);
a message that cannot be parsed does not occur, the producer being the only writer;
a call of a user limiter or the idempotency store that errs is a refusal, as in the
code; the consumer's own `idempotent:<order_no>` key is left out since nothing reads
it; the waiting and the claimed orders of the delay queue are one set; several
copies of a message that wait are one; a payment is the change of the order's
status and nothing else. `DelayQueue`, `PartitionConsumer`, `Payment` and `Checkout` say
what the pipeline leaves out of the queue, the offsets, the payment and the amounts.

### The other components

What they share with the pipeline is one cell or one call, so each is a specification of its own.
An action is again one statement, script or command and what the code does up to its next one.

`Compensation` extends the pipeline. `stage`, `left` and `at` say where a runner is
in its round: `CompareStock` reads, `SetStock` writes what it read, `LookUp` looks for an
order and `RollbackStock`, `RemoveUserBuy`, `RestoreUserCoupon`, `DropRecord` are
four commands. `Age` makes a pending record two minutes old: only when nobody works on its
call, or (`Lag`) at any time.

`StockUpdate` extends that by `total_stock`, the form an operator opens, edits and submits
(`OpenForm`, `Submit`, `SyncStock`), and the warm-up of an update or of a process that starts
(`ReadDetail`, `BatchSet`). The form is the row as it was when the form was opened; like the
statement in the code, `WriteSku` compares it with nothing.

`Payment`: `pay` is `pay_info`, whose statements commit at once because `GetPayQuery`
ignores the transaction; `order` with `rowLock` is the row of the core database;
`hpc` is the statement a callback comes to. `Zone` is where the server's clock is:
`isOrderTimeout` parses a local time as UTC. The platform (`Charge`, `Decline`, `sent`)
is external and repeats a notification until it is answered with success.

`DelayQueue`: `due` and `processing` are the zsets, `stale` the members of `processing`
older than 60 seconds; `ppc`/`todo` are the poller's loop and claimed batch, `wpc`/`task` the
goroutines of `dispatchCancel`. `Claim` and `Requeue` are the Lua scripts. A crash stops a poller
and its workers; their locks stay until they expire. Refinement to `TimeoutQueue`: `tracked` is
`due \cup processing`.

`LeaderElection`: `holder` and `lease` are the key and its time to live, `timer` is the
sleep of a process, `runs` the copies of the job it has started. A timer that is due fires
before the next tick unless a process may pause.

`CouponWallet`: one transaction per call under REPEATABLE READ: `seen` is the snapshot of its
first read, `templateLock` and `gap` are the locks of `FOR UPDATE` on rows and on an empty index;
rows are written when the transaction commits.

`CacheAside`: `Kind` chooses the activity, the detail of a product or a page of
the list, which differ in lock, filter, double check and in what an update deletes. `db` is the version of each
row that a rebuild reads, `entry` what is cached with its remaining life, `rebuildLock` the lock with
its own. `Hold` bounds how long a rebuild takes from its first read to its write: an
assumption about the environment, without which nothing bounds how stale an entry is.

`TokenBucket`: a token is cut into `Unit` parts so that a tick brings a whole number of them.
`observed` and `passed` are an observer's, who may come at any time (`Observe`), so
that `RateBounded` speaks of every stretch of time.

`Checkout`: cents are integers; `message`, `orderAmounts` and `payAmount` are the three places
where an amount is written. Percentages are at most 100, as in `seckill.sql`.

`PartitionConsumer`: `committed` and `generation` are the brokers', `next`, `marked`,
`memberPc` a member's. A message is only handled, settled or failed here; what that
changes is in `OrderConsumer` and `DeadLetters`. It covers the three consumers, whose loops are alike.

### Faults

`Faults`, `TaskFaults`, `PayFaults` and so on say what may go wrong; a module's header lists its own. A run that
a property is not meant to survive leaves the fault out. For the pipeline:

| fault | in the code |
|---|---|
| `ProcessCrash` | the server stops inside a call or a cancellation |
| `StoreError` | a command to Redis, or a single statement, errs: with or without effect where the caller ignores or heeds it |
| `DeductError` | the deduction script errs, with or without effect |
| `BrokerError` / `SendAckLost` | an append to Kafka errs, without / with effect |
| `TxError` | the consumer's transaction is rolled back: retried or final as `classifyOrderError` says |
| `CommitAckLost` | a transaction commits and reports an error |
| `Redelivery` | a worker dies, or loses its partition while it works |
| `Expiry` | a request key, a buy mark or a pending record expires |
| `Replay` | an operator replays a dead letter |

Combinations under which the compensations of the code do not add up, seen with
TLC while the runs were chosen:

- `SendAckLost`: the failed send is undone while the message is out, so the stock in
  Redis covers an order twice. The core database then refuses what it cannot
  confirm; `LedgerConserved` is checked and proved with this fault.
- `CommitAckLost`: an unknown error is final (`error_classify.go:44`), and the
  reservation of an order that stands is rolled back.
- `Redelivery` with `TxError` or `StoreError`: a message delivered again in the middle
  of the rollback is rolled back again (`RollbackStock` is an `IncrBy`); after a
  successful confirmation a redelivered message that fails before it reaches the
  unique key (the address is read first) rolls a standing order back.
- `Replay`: the replayed message has no reservation any more, and a second failure
  rolls it back again.
- `ProcessCrash` in a cancellation after its transaction: Redis does not get its
  units back until the compensation job overwrites the stock.
- `BrokerError` or `StoreError` while a failure is routed: the message is passed over
  and may be lost with its reservation; the pending record is then all that is left.
- `StoreError` in the dead letter consumer: the insert fails, the next commit skips it.

The stock in Redis is repaired from MySQL every minute by `syncStockConsistency`.
`SeckillPipeline` does not contain it, so that its properties say what holds without
repair; `Compensation` adds it.

## Properties

Core database, under every fault: `ImplementsLedger` (refinement of `OrderLedger`),
`LedgerConserved` (no oversell), `LedgerNoClash` (one order per request, one per user
and activity), `OnlyStaleFormsOversell` (beside updates, warm-ups and the task the sum of sold and
available units leaves `total_stock` only by what a form overwrites that was opened before sales).

Redis against the core database: `ImplementsPromise` (refinement of `StockPromise`: an order
number takes units in Redis once, becomes a row only while it holds them, and gives them back
once, when no row of it stands), `StockInv` (with `StockAccounted`: each missing unit belongs to
one reservation), `OrderBacked` (nothing undoes an order that stands), `NoOverAdmission` (Redis admits no more than MySQL can confirm),
`CouponHeld`, `OneReservationPerUser`, `RedisFollows` (the task brings the stock in Redis back to
`available_stock` whoever wrote over it).

Nothing forgotten: `NoSilentLoss` (an accepted order number is confirmed, on its way or
dead-lettered), `LeakIsRecorded` (a reservation nobody works on has the pending record the
task needs), `CrashedIsSettled` (and the task makes it good), `NoCouponStranded`,
`FailedMayBuyAgain`, `NothingForgotten` (an unpaid order is in one of the two zsets),
`EveryMessageTried`, `ImplementsDelivery`.

Money: `PaidIsCharged`, `StoresAgree` (a success is of a paid order, a refund of a cancelled
one), `ChargedIsSettled` (money taken ends in one or the other), `ChargedAsQuoted`.

At most once, in time: `RestoredOnce`, `LeaseIsSafe`, `OneRunner`, `FailoverInTime`,
`OneTemplate`, `CountConserved`, `DetailRebuiltOnce`, `StalenessBounded`, `EditIsSeen`,
`RateBounded`.

Progress: `AcceptedIsSettled`, `PendingIsClosed`, `CancelIsUndone`, `ImplementsFairQueue`
(with the fairness of `TimeoutQueue`), `ReadersAnswer`.

### Fairness

- Pipeline, `FairSpec`: weak fairness of an admitted call, of each worker and of each
  cancellation with the delay queue. Goroutines are scheduled; a claim loops over its
  messages for as long as the session lives (`consumer.go:150`); the delay queue polls
  at least every 30 seconds and requeues what was not finished in a minute. Nobody has
  to call, pay or cancel; keys need not expire; a retry never happens more often than
  `MaxRetry` allows, so no fairness of faults is needed.
- `StockUpdate`: the same, and weak fairness of the task's steps (a ticker of a minute,
  `compensate.go:35`, in a process that leads) and of an update that was begun.
  Nobody has to submit a form or start a process.
- `Payment`: the platform repeats a notification until it is answered, so that it is
  received infinitely often (strong fairness of `Receive`); a row lock is given to each
  who waits; and a database that errs does not err for ever (strong fairness of `UpdatePay`
  and `Commit`).
- `DelayQueue`: time passes; pollers and workers are scheduled; an order is not passed over in
  a batch for ever, because `ZRANGEBYSCORE` takes the earliest first; a lock that is
  given up or expires, and a transaction that fails, are tried again in every minute
  (strong fairness of `Acquire` and `CancelTimeoutOrder`).
- `CacheAside`: time passes, and a call that runs goes on. Nobody has to crash.
- `PartitionConsumer`: a claim goes on, a handling ends, marked offsets are committed
  (`AutoCommit`), a member notices that its session is over, and a partition nobody has is given to a member.
- Nothing is assumed of `LeaderElection`, whose time bounds are safety properties.

## Runs

Deadlock is not checked: when all calls are over the systems have nothing left to do.

### The pipeline: `MCSeckillPipeline`

Two calls, one activity. The interactions in the code
are pairwise (same request, same user, same sku, same coupon), and a run gives the two
calls one kind of rivalry; a third call adds no new kind. Two workers appear where a
message may be processed twice. `MaxRetry` is 1 (0 in `ledger`) in place of 3: one message that
is retried and one that fails for good. `MaxCount` bounds the `retry_count` header, which only
replays raise above `MaxRetry`; in `ledger` `StockBound` cuts off states where repeated
rollbacks have raised the stock in Redis above twice the stock of the activity, and
`OneDeadLetter` states with more than one dead letter in the topic.

| run | instance | faults | shows |
|---|---|---|---|
| `contention` | two users, one sku with two units, quantities one and two, one coupon | ProcessCrash, Redelivery | `TypeOK`, `ImplementsPromise`, `NoOverAdmission` |
| `failures` | the same request twice, with one coupon | ProcessCrash, StoreError, DeductError, BrokerError, TxError, Expiry | `StockInv` (with `StockAccounted`, `OrderBacked`), `CouponHeld`, `LedgerNoClash` |
| `once` | one user, two requests, one sku, one coupon | BrokerError, TxError | `OneReservationPerUser`, `LeakIsRecorded`, `NoCouponStranded` |
| `ledger` | two users, one unit | SendAckLost, CommitAckLost, Replay | `LedgerConserved`, `NoSilentLoss`, `ImplementsLedger` |
| `progress` | one user, two skus of one activity, one coupon | DeductError, TxError | `AcceptedIsSettled`, `PendingIsClosed`, `CancelIsUndone` |
| `coupon_stranded` | as `once` | DeductError | `NoCouponStranded` is violated |
| `timeout_lost` | as `once` | StoreError | `PendingIsClosed` is violated |
| `mark_left` | as `once` | TxError | `FailedMayBuyAgain` is violated |

`failures` uses the symmetry of the two calls, which have everything in common and are told apart
by no property.

### Task and updates: `MCStockUpdate`

One call with a coupon for all units of a sku (two, in `repair_progress` one), one runner, one edit. The call may stand at any of its
commands when a round, the form or the warm-up reads or writes; one unit more or less is what
an operator changes.

| run | faults | shows |
|---|---|---|
| `repair_faults` | StoreError, RunnerCrash, Lag; any form | `UpdateTypeOK`, `OnlyStaleFormsOversell`; `StockBound` cuts off what repeated rollbacks of one record add |
| `repair_progress` | ProcessCrash; any form, one start | `OrderBacked`, `RedisFollows`, `CrashedIsSettled` |

### The other components: `MCParts`

They share no state. A behaviour of `MCParts` is one of the component that `part` names, and the
others stand still in an initial state; each has in it exactly the behaviours it has alone, so
an invariant of one is checked as if it were alone, and the number of states is the sum and not
the product. `Parts` says which components a run moves; `Crowded`, `Last`, `Detail`, `Edited` and
`Pages` are second instances with other bounds.

| run | part | instance |
|---|---|---|
| `parts_faults` | payment | one order, two payment numbers, two callbacks; every fault |
| | queue | one order, two pollers, a worker each; every fault and a crash |
| | crowded | two orders, a batch of one, no faults |
| | leader | two processes, a lease of three ticks; errors, lost answers, pauses |
| | wallet, last | three grants: one user in one scene twice and another in a second; or all three in one scene, two with one key; one coupon left |
| | cache, detail, edited, pages | the activity, two readers, one write; a product, three readers, no faults; a product's update, one reader, two writes; a page; the others with every fault |
| | bucket | a burst above the limit, errors, a clock that goes back |
| | checkout | two orders, coupons below and above the price and a rate with fractions of a cent |
| `parts_progress` | payment | PayError, CommitAckLost |
| | queue | TxError, LockExpiry and a crash |
| | leader | three processes, two stops, a lease of six ticks renewed every two |
| | cache | a product, two readers, Crash |
| | partition | two members, two messages, three generations; handlings and commits that fail, crashes, rebalances |

`parts_faults` shows the safety of each under all of its faults: `PartsTypeOK`, `PaidIsCharged`,
`NothingForgotten`, `RestoredOnce`, `LeaseIsSafe`, `CountConserved`, `OneTemplate`, `StalenessBounded`,
`DetailRebuiltOnce`, `EditIsSeen`, `RateBounded`, `ChargedAsQuoted`. `parts_progress` shows what
needs milder faults: `StoresAgree`, `ChargedIsSettled`, `ImplementsFairQueue`, `OneRunner`,
`FailoverInTime`, `ReadersAnswer`, `ImplementsDelivery`, `EveryMessageTried`.

Why the bounds are enough: two pollers suffice for a claim beside a claim, one crash for a lock or
claim left behind; a third process matters for the leader because two may wait while one
leads; the third reader is the one that a wrongly released lock lets in; the second coupon
template could only be made by a second call; two messages are one that fails and one after it, whose
commit takes the first with it; three generations allow a session to outlive its member's and be taken over twice.

### Disagreements of code and documentation

Three are runs of their own (`PROJECT.json`, findings), all with `src/internal/biz/README.md`:

1. `coupon_stranded`: `seckill.go:337` returns on an error of the deduction without
   `RestoreUserCoupon` (line 21 of the document promises it).
2. `timeout_lost`: `seckill.go:564` only logs a failed `DelayQueue.Add`; nothing else finds
   the order (line 54 promises the cancellation). `GetPendingOrders`, written for this,
   has no caller.
3. `mark_left`: `MarkUserBuy` after the send can come after the whole failure path of the
   consumer and keeps a user out for an hour whose reservation was rolled back (line 52).

The others were seen with TLC while the runs were chosen. Their properties stand at the end of
their modules, under “What the code does not keep”; to see one, make it the only property
of a run with the bounds given.

| property, module | how it comes about |
|---|---|
| `RefundMeansCancelled`, Payment, with TxError | the payment is written through `GetPayQuery`, outside of the transaction (`seckill.go:829`). If its commit fails, the repeated callback is answered as a duplicate, the order is cancelled, and its payment stays SUCCESS in place of `PayStatusSuccessButOrderCanceled` |
| `PaidKeepsPayTime`, Payment, with Decline | the payment is read before the order is locked: a failed attempt that passed the check for duplicates overwrites the success and its `pay_time` (`seckill.go:788`; `seckill.sql:212`) |
| `NoLatePayment`, Payment, `Zone` east | `create_time` is formatted in the server's zone and parsed as UTC: `OrderTimeoutMinutes` never comes (`seckill.go:1162`); west of UTC it has always passed |
| `OneRunner`, LeaderElection, with StoreError | when `RenewLock` fails the goroutine of the job goes on, `Run` wins again and starts a second copy (`leader.go:82`) |
| `StockNotInflated`, Compensation | a round sets the stock to `available_stock` and then adds the units of a crashed call once more (`compensate.go:112`); the next round takes them back |
| `OrderBacked`, `CouponHeld`, Compensation, with Lag | a consumer more than two minutes behind confirms an order between `LookUp` and the four commands of its rollback (`compensate.go:101`) |
| `RepeatIsAnswered`, CouponWallet | after a duplicate key the coupon is looked for in the snapshot of the transaction, which is older than it (`mysql_repo.go:586`) |
| `OwnCoupon`, CouponWallet | invitations without a review share the key `review:0:INVITE_NEW`, and the user is not compared (`coupon.go:44`) |
| `UserLimit`, CouponWallet | `UserLimit` is written and never read (`mysql_repo.go:626`; `seckill.sql:116`) |
| `KnownIsFound`, CacheAside | the Bloom filter has only what a warm-up told it, the first 100 products of an activity (`seckill.go:202`) |
| `KnownIsUpdated`, CacheAside | MySQL counts changed rows; an update that changes nothing in the first row is taken for an update of a product that is not there (`mysql_repo.go:287`) |
| `OwnPurchases`, CacheAside, list | a page with `user_has_bought` is cached under a key without the user (`seckill.go:130`) |
| `NotOversold`, StockUpdate | the form writes back the `available_stock` it was opened with, over sales made since (`mysql_repo.go:303`); `OnlyStaleFormsOversell` says by how much at most |
| `PollEnds`, SeckillPipeline | an order that failed for good has no row, and `GetSeckillResult` answers that it is being processed (`seckill.go:978`; `seckill.proto:270`) |
| `ResultIsAmountPaid`, Checkout | an order that waits for its payment is answered with the amount without the coupon (`seckill.go:992`; `seckill.proto:273`) |
| `DecisionStands`, PartitionConsumer | a message that was not to be committed is committed with the next one (`consumer.go:193`, `dlq_consumer.go:120`) |

## Proofs

`tlapm` proves the following for every value of the constants that the named assumptions
allow. All are safety properties, by an inductive invariant each, which TLC checked on the
instances of the runs before it was proved. `PROJECT.json` lists the theorems.

### The pipeline under every fault

- `OrderLedgerProofs.LedgerCorrect`: types, conservation of stock and uniqueness of orders
  are an inductive invariant of the ledger. Conservation needs the types (a
  cancelled order was live before). A total quantity is a number of units, a
  cardinality, rather than a recursive sum, so that how it changes follows from
  `FiniteSetTheorems` without induction. (`OrderAssumption`: finitely many orders,
  positive quantities.)
- `SeckillPipelineProofs.TypeCorrect`: it needs that a worker which is not idle has a
  message, and contains that neither stock becomes negative: the script and
  `DecreaseStock` compare before they subtract.
- `RefinesLedger`: a step of the pipeline is a step of the ledger or
  leaves `order` and `available` alone. Only `ConfirmTx`, `CancelTx` and `Pay` change
  them. Hence `LedgerInherited` and `OneOrderEach`: no oversell, no clash of orders.

### The pipeline under the faults it survives

What relates Redis, coupons and messages to the core database does not hold under every fault.
`PipelineInvariants` names for each promise the faults that it survives, as a hypothesis on `Faults`,
and the invariant that shows it; the table of combinations above says what the others do.

| hypothesis | excludes | because otherwise |
|---|---|---|
| `StockFaults` | SendAckLost, CommitAckLost; TxError together with Redelivery or Replay | the caller gives back what is still in use; a message is confirmed after its compensation, or compensated twice |
| `MarkFaults` | also StoreError, Expiry | a buy mark is gone before its reservation |
| `WholeCalls` | from `StockFaults` also StoreError, ProcessCrash, DeductError | a call ends between the command that takes a coupon or stock and the one that records it |
| `RecordFaults` | also Expiry | the pending record is gone before the task has read it |
| `MessageFaults` | StoreError, BrokerError only | the retry or the dead letter of a passed message is not written |
| `DriveFaults` | from `StockFaults` also StoreError, BrokerError | a worker passes the message over and is done with it |
| `ScheduleFaults` | StoreError, CommitAckLost, Redelivery only | a row is written by somebody who does not come to `DelayQueue.Add` |
| `UndoFaults` | from `StockFaults` also StoreError, ProcessCrash | a cancellation ends between its transaction and Redis |

- `ReservationProofs.StockInductive`: `StockInv` is inductive. `HoldInv` says who may still give a
  reservation back: the call before its append; then, if messages may be delivered again, nobody but the
  cancellation (`NeverFails`), and if not (`DeliveredOnce`), the one message or worker that decides about the
  order (`OneDecides`); after a cancellation, the process that won its transaction
  (`CancelsHold`). The invariant is the conjunction with `StockAccounted`, since where
  messages are delivered again a worker must find its units in the core database, which it does because both stocks
  are accounted for; it uses `LedgerConserved`. With `DeliveredOnce` `HoldInv` stands alone, whatever is in the two stocks.
- Corollaries: `StockAlwaysAccounted`, `OrdersAlwaysBacked`, `NeverOverAdmits`. The last is arithmetic: with both
  sums conserved, Redis has what the core database has, less the reservations without an order.
- `RefinesPromise`: an order number is new until its call is past the script, held while it is in `reserved`
  and over then (`HeldBy`). Each step changes one store for one order at most (`OneStore`), and the guards of
  `StockPromise` come from `HoldInv`: who gives back holds (`ReturnedIsHeld`) and leaves no row that stands;
  who writes a row finds the reservation still there (`OrderBacked`). No call comes back to the script
  (`PastTheScript`), so what is over stays over.
- `CouponAlwaysHeld` from `CouponInv`: at most one of those who claim a coupon (the call that took it, the message or worker
  that decides, the order that stands) exists, and the coupon is used.
- `OneReservationAlways` (`MarkFaults`) from `MarkInv`: a mark stands from the script to its removal, which comes after the
  units are back, and two calls never have it at once.
- `LeaksAreRecorded` (`RecordFaults`) from `RecordInv`, and `UsedCouponsAnswered` (`WholeCalls`) from `UsedInv`.
- The safety halves of three liveness properties, which say who goes on until fairness says that he does.
  `AcceptedAlwaysDriven` (`DriveFaults`; `AcceptedIsSettled`): an accepted order that holds its
  reservation is confirmed, in a topic, or with a worker that confirms, retries, buries or compensates it. From `DriveInv`: a message
  is with one worker (`TakenOnce`), and where messages are delivered once, nobody is ahead of the attempt that decides
  (`LaterAbsent`), or, where they may be delivered again, only a row ends one (`EndsConfirmed`).
  `PendingAlwaysScheduled` (`ScheduleFaults`; `PendingIsClosed`): an unpaid row is in the delay queue or its worker comes to
  add it. `CancelledAlwaysReturned` (`UndoFaults`; `CancelIsUndone`): the reservation of a cancelled order is about to be given back
  by its cancellation. TLC shows each violated by a fault that its hypothesis excludes: by BrokerError with TxError, by
  Redelivery (a copy of the message creates the row, and its worker dies), by ProcessCrash.
- `SeckillPipelineProofs.NothingLostSilently` (`MessageFaults`) from `LossInv`: a message that was passed or committed has an order, a
  dead letter or a later attempt behind it, with the attempts numbered by their retry count.

### Task and updates

- `StockUpdateProofs.UpdateTypes`: from `TypeCorrect`, with where each runner stands.
- `RepairsSpareOrders`: the task looks for an order in one command and gives its reservation back in another, and yet
  never takes that of an order that stands, with any number of runners, whatever edits and warm-ups write over the stocks.
  `RepairInv` is `HoldInv` with `RepairsOld`: an old record is of an order whose call and messages are `Over`, which
  stays so, hence no row appears between the two commands. The hypothesis `RepairFaults` excludes what `HoldInv` does not survive
  (SendAckLost, CommitAckLost, Redelivery, Replay) and Lag, under which it is false (Disagreements);
  StoreError and RunnerCrash it allows.
- What a round gives back, command by command, under `SoleRepairs`: `RepairFaults`, one runner, rounds that go through and no StoreError.
  With two runners, one that stops or a command that fails the task gives one record back twice (`IncrBy`), as *Not modelled* says.
  `RepairsGiveBackOnce`: a runner at `RollbackStock` finds the reservation still held. From `KnownInv`: a record is of an order
  that is reserved, or has a row, or is being undone by the worker or the runner that will drop it
  (`RecordedHeld`, `RunnerKnows`, `WorkersKnow`); `RepairInv` keeps the row from appearing in between.
  `RepairsKeepCoupons`: of those who claim a coupon, now with the runner among them, there is at most one (`AllClaimedOnce`).
  `RepairsKeepMarks` (`SoleMarkFaults`: no Expiry): the same of marks (`RunnersMarks`). `RecordsAreKept`, of each step (`RecordGoes`): a record goes only
  when its call gives up after a failed send, when its order has a row, or when its reservation is gone. The last case cannot be left out: a worker that compensates
  drops the record of what it has given back.
- `OversoldByStaleForms`, of each step (`OnlyStaleFormsOversell`), under every fault of the pipeline and of the
  task and whatever a form shows: an update writes `available` and `total` together, everything else keeps
  available units and those of orders that stand (`UnitsMove`, from the refinement of the ledger). So the two leave
  `total` only when a form is written, and by how far `available` has moved since it was opened. That this is at
  most what the orders that stand hold needs `FormInv`: an open form shows `total` as it is, and no more available
  units than are now available or sold. That it happens at all is `NotOversold` above.

### The other components

- `MoneyProofs`, payment: `PaymentTypes`; `PaidOnce` from `MoneyInv`, which adds that only a number that was
  told to a buyer is charged, only a charged one is notified as a success, and that two payments of one order
  are never both in `pay_info`; `DatabasesAgree` from `Agreement`, which adds that every notification
  is of a success, and assumes `Benign`: only PayError and CommitAckLost, the faults under which the code keeps it.
  `ChargesAreInHand`, also under `Benign`, is the safety half of `ChargedIsSettled`: a charge whose notification is no longer repeated is settled, or the
  call that pays its order is at its commit. `SettledIsFinal`: what is settled stays so in every step, under every fault but
  Decline, with which it is false (`PaidKeepsPayTime`).
- `MoneyProofs`, amounts: `AlwaysChargedAsQuoted` from `OrderWritten`, what each step of an order has written of its
  amount. The lemma `Percentage` is the rounding: a rate leaves its part of the amount, rounded up to a cent.
  What the consumer fills in for an amount of 0 is what the message had (`FilledInAsSent`).
- `MoneyProofs`, coupons: `TemplateOnce` from the locks (whoever is between its look-up and its commit has the
  row locks or the gap), `BooksBalance` (granted plus remaining is the total), `AnswersAreGranted`.
- `CoordinationProofs`, delay queue: `NeverForgotten` needs `Known`: what pollers and workers hold has elapsed, and a worker past its
  transaction has an order that is no longer unpaid; `RefinesQueue` maps each step to a step of `TimeoutQueue` or a stutter;
  `UnitsReturnOnce` needs `Once`: a worker about to give units back is the only one of its order, which it has cancelled. All faults,
  any number of orders, pollers, workers and crashes.
- `CoordinationProofs`, partition: `RefinesDelivery`, from `OffsetInv`: what lies before a session's position was tried, a session never marks ahead of
  it, and only one member's commit is taken at a time. All faults, any number of members, messages and generations.
- `CoordinationProofs`, clocks: `LeaseSafeAlways` under all faults; `OneRunnerAlways` and `FailoverAlways` for
  `LeaderFaults = {}`, from an invariant that ties timers to the lease: a leader renews before it
  ends, since `Third < LeaseTtl`. `BucketBounds` from an invariant on what is in the bucket and what has passed,
  `PacedCallsPass` from the time one token takes; they assume `RefillAssumption`: a bucket would have been full when
  its key expires. `bucketParams` keeps a key for three windows at least, so it holds where the burst is at most three
  times the limit and the window below the cap of seven days: all three callers (`seckill.go:269`-`295`) are.
- `CacheAsideProofs`: `StaleEntriesEnd` from `CacheInv`: what a rebuild has read and is different by now was written after its
  first read, and an entry is old only as long ago as it was written; every kind of entry, every fault. `RebuiltOnce`, for a lock that outlives a
  rebuild (`Hold < LockTtl`): who rebuilds has the lock, with time left (`LockHeld`); under every fault, where the run has none.
  `UpdatesAreSeen`: after an update of a product an entry is the update's or was written by a rebuild that had read before.
- `PartsProofs`: the invariants of `MCParts` are those of its parts. The theorems of the components are used of each instance
  (`CrowdedP`, `LastP`, `DetailP` ... are the proof modules with the instance's constants): the part that moves takes its component's step, the
  others stutter (`PartsMove`). Hence `PartsTypes`, `DetailsAreRebuiltOnce`, `EditsAreSeen`, under the components' own
  assumptions and `InstanceAssumption`, which says that the model values of the instances are not mixed up.

Assumptions beyond the types of constants: `CacheAssumption` has a longest life of an entry; `PartitionAssumption` and
`UpdateAssumption` say that bounds are numbers and that `None` is no record.

Only model-checked: all liveness (`AcceptedIsSettled`, `PendingIsClosed`, `CancelIsUndone`, `RedisFollows`, `CrashedIsSettled`,
`ChargedIsSettled`, `ReadersAnswer`, `EveryMessageTried`, `ImplementsFairQueue`), because fairness and ENABLED are out of the
prover's reach, although what they rest on is proved where it is named above (`RefinesQueue` is `ImplementsFairQueue` without fairness); and the
three violations. Every invariant and every action property that a passing run checks is also a theorem.

## Not modelled

- Service layer (`service/seckills.go`): translates requests and replies and keeps no state. Its checks that
  matter are guards of the models (`StockUpdate.Accepted`, reviews in `MCParts`).
- Id generator: a library. Order numbers are distinct, which assumes a worker id of its own for each
  process; without `SECKILL_WORKER_ID` every process is worker 1 (`id_generator.go:23`).
- Generated code (`*.pb.go`, `*.gen.go`, `wire_gen.go`), which is most of the lines of the repository:
  accessors and query builders.
- Observability, configuration, servers, wiring: nothing the properties depend on. What starts and stops is in
  the models.
- `tools/oversell`: a load generator.
- Functions without a caller: `UseCoupon`, `RestoreCoupon`, `GetPendingOrders`, `SendAsync`, `SendResult`.
- Messages that cannot be parsed: no code of the system writes one. The waiting time of a retry: a message waits for
  any time. Which scene a review is of: a function of the request.
- Rounding of the token count to twelve decimals; texts, addresses, windows of activities.

Two things a reader may look for: `BatchSetProducts` writes details under a key that
nobody reads (`redis_repo.go:69`), so `WarmProducts` changes the filter only; and a runner that stops between
`RollbackStock` and `DropRecord` rolls back again in its next round, which `RedisFollows`
outlasts and `StockNotInflated` does not. `UpdateSeckillActivity` parses times as UTC while the driver is
set to local time (`mysql_repo.go:248`), which no model has.

## Plan

What is left, in the order of its worth:

1. Proofs about the task with several runners, or one that stops halfway: give backs are then counted rather than
   excluded, and what `RedisFollows` says becomes a bound on how far the stock may be off until the next round.
2. Proofs of the other cut-off promises under one more fault at a time: for each row of the tables of hypotheses, how much of the
   promise is left (how many reservations `CommitAckLost` or `SendAckLost` may cost).
3. Times and zones in the pipeline: `Payment` has the zone of the server's clock, the windows of activities have not.
