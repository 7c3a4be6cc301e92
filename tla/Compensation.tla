----------------------------- MODULE Compensation -----------------------------
(***************************************************************************)
(* CompensateTask beside the order pipeline.  Once a minute the leader     *)
(* sets the stock in Redis to available_stock where they differ and then   *)
(* rolls back the pending reservations that have no order.  Two processes  *)
(* may think they lead.                                                    *)
(***************************************************************************)
EXTENDS SeckillPipeline

CONSTANTS
    Runner,    \* processes that run the task
    TaskFaults \* the faults of the task that may happen

(***************************************************************************)
(* Lag          a record gets two minutes old while its call or its        *)
(*              message is still being worked on                           *)
(* RunnerCrash  a runner stops between two commands                        *)
(***************************************************************************)
ASSUME CompensationAssumption ==
    /\ TaskFaults \subseteq {"Lag", "RunnerCrash"}
    /\ None \notin Runner \cup Sku

VARIABLES
    stage,  \* the command the runner sends next
    listed, \* AvailableStock of the products as the round read them
    left,   \* skus, and then requests, the round has not come to
    at,     \* the sku, or the order of the pending record, it is at
    aged    \* orders whose pending record is more than two minutes old

taskVars == <<stage, listed, left, at, aged>>
allVars == <<vars, taskVars>>

Stages == {"idle", "sync", "set", "scan", "look", "rollback", "unmark",
           "uncoupon", "drop"}

TaskTypeOK ==
    /\ TypeOK
    /\ stage \in [Runner -> Stages]
    /\ listed \in [Runner -> [Sku -> Nat]]
    /\ left \in [Runner -> SUBSET (Sku \cup Request)]
    /\ at \in [Runner -> Sku \cup Order \cup {None}]
    /\ \A n \in Runner :
        CASE stage[n] = "idle" -> left[n] = {} /\ at[n] = None
          [] stage[n] = "sync" -> left[n] \subseteq Sku /\ at[n] = None
          [] stage[n] = "set"  -> left[n] \subseteq Sku /\ at[n] \in Sku
          [] stage[n] = "scan" -> left[n] \subseteq Request /\ at[n] = None
          [] OTHER             -> left[n] \subseteq Request /\ at[n] \in Order
    /\ aged \subseteq Order

TaskInit ==
    /\ Init
    /\ stage = [n \in Runner |-> "idle"]
    /\ listed = [n \in Runner |-> Stock]
    /\ left = [n \in Runner |-> {}]
    /\ at = [n \in Runner |-> None]
    /\ aged = {}

Turn(n, from, to) == stage[n] = from /\ stage' = [stage EXCEPT ![n] = to]
Stays == UNCHANGED <<listed, left, at, aged>>

\* The runner goes on with the next sku, or the next record.
NextOne(n, from, to) ==
    /\ Turn(n, from, to)
    /\ at' = [at EXCEPT ![n] = None]
    /\ UNCHANGED <<listed, left, aged>>

-------------------------------------------------------------------------------
(* syncStockConsistency *)

ListProducts(n) ==
    /\ Turn(n, "idle", "sync")
    /\ listed' = [listed EXCEPT ![n] = available]
    /\ left' = [left EXCEPT ![n] = Sku]
    /\ UNCHANGED <<vars, at, aged>>

\* Mutant: a difference is logged and left alone.
CompareOnly(n) ==
    /\ stage[n] = "sync"
    /\ \E k \in left[n] :
        /\ left' = [left EXCEPT ![n] = @ \ {k}]
        /\ UNCHANGED <<stage, at>>
    /\ UNCHANGED <<vars, listed, aged>>

\* GetStock: a sku whose stock cannot be read is left alone.
CompareStock(n) ==
    /\ stage[n] = "sync"
    /\ \E k \in left[n] :
        /\ left' = [left EXCEPT ![n] = @ \ {k}]
        /\ \/ /\ redisStock[k] # listed[n][k]
              /\ Turn(n, "sync", "set")
              /\ at' = [at EXCEPT ![n] = k]
           \/ /\ redisStock[k] = listed[n][k] \/ "StoreError" \in Faults
              /\ UNCHANGED <<stage, at>>
    /\ UNCHANGED <<vars, listed, aged>>

SetStock(n) ==
    /\ NextOne(n, "set", "sync")
    /\ BestEffort(redisStock' = [redisStock EXCEPT ![at[n]] = listed[n][at[n]]],
                  UNCHANGED redisStock)
    /\ UNCHANGED <<idempotent, buyMark, pending, delayQueue, mysqlVars,
                   kafkaVars, reserved, pc, consumerVars, cpc>>

-------------------------------------------------------------------------------
(* fixPendingReservations *)

\* Scan, once the list of products is done or could not be read.
StartScan(n) ==
    /\ \/ Turn(n, "sync", "scan") /\ left[n] = {}
       \/ Turn(n, "idle", "scan") /\ "StoreError" \in Faults
    /\ left' = [left EXCEPT ![n] = Request]
    /\ UNCHANGED <<vars, listed, at, aged>>

\* Mutant: CreatedAt is not looked at.
HasRecord(r) == pending[r] # None

OldEnough(r) == pending[r] \in aged

\* A record that is gone, cannot be read or is too young is left alone.
ReadRecord(n) ==
    /\ stage[n] = "scan"
    /\ \E r \in left[n] :
        /\ left' = [left EXCEPT ![n] = @ \ {r}]
        /\ \/ /\ OldEnough(r)
              /\ Turn(n, "scan", "look")
              /\ at' = [at EXCEPT ![n] = pending[r]]
           \/ /\ ~OldEnough(r) \/ "StoreError" \in Faults
              /\ UNCHANGED <<stage, at>>
    /\ UNCHANGED <<vars, listed, aged>>

EndRound(n) ==
    /\ Turn(n, "scan", "idle") /\ left[n] = {}
    /\ UNCHANGED vars /\ Stays

\* GetOrderByRequestID: with an order of any status the record is just deleted.
LookUp(n) ==
    /\ stage[n] = "look"
    /\ LET found == \E o \in Order : /\ RequestOf[o] = RequestOf[at[n]]
                                     /\ Ledger!Exists(o)
       IN  \/ Turn(n, "look", IF found THEN "drop" ELSE "rollback") /\ Stays
           \/ "StoreError" \in Faults /\ NextOne(n, "look", "scan")
    /\ UNCHANGED vars

\* A command of the roll back that fails leaves the record to the next round.
Undo(n, from, to, effect, noEffect) ==
    \/ Turn(n, from, to) /\ Stays /\ effect
    \/ NextOne(n, from, "scan") /\ StoreFails(effect, noEffect)

RollbackStock(n) ==
    /\ stage[n] = "rollback"
    /\ Undo(n, "rollback", "unmark", GiveBack(at[n]),
            UNCHANGED <<redisStock, reserved>>)
    /\ UNCHANGED <<idempotent, buyMark, pending, delayQueue, mysqlVars,
                   kafkaVars, pc, consumerVars, cpc>>

\* Mutant: the coupon is forgotten.
RestoreNoCoupon(n) ==
    /\ stage[n] = "unmark"
    /\ Undo(n, "unmark", "drop", Unmark(at[n]), UNCHANGED buyMark)
    /\ UNCHANGED <<idempotent, redisStock, pending, delayQueue, mysqlVars,
                   kafkaVars, reserved, pc, consumerVars, cpc>>

RemoveUserBuy(n) ==
    /\ stage[n] = "unmark"
    /\ Undo(n, "unmark", IF HasCoupon(at[n]) THEN "uncoupon" ELSE "drop",
            Unmark(at[n]), UNCHANGED buyMark)
    /\ UNCHANGED <<idempotent, redisStock, pending, delayQueue, mysqlVars,
                   kafkaVars, reserved, pc, consumerVars, cpc>>

RestoreUserCoupon(n) ==
    /\ stage[n] = "uncoupon"
    /\ Undo(n, "uncoupon", "drop", ReturnCoupon(at[n]), UNCHANGED coupon)
    /\ UNCHANGED <<redisVars, order, available, kafkaVars, reserved, pc,
                   consumerVars, cpc>>

\* Del deletes whatever the key of the request holds by now.
DropRecord(n) ==
    /\ stage[n] = "drop"
    /\ NextOne(n, "drop", "scan")
    /\ BestEffort(DropPending(at[n]), UNCHANGED pending)
    /\ UNCHANGED <<idempotent, redisStock, buyMark, delayQueue, mysqlVars,
                   kafkaVars, reserved, pc, consumerVars, cpc>>

-------------------------------------------------------------------------------

\* CreatedAt of a record gets two minutes old, as a rule after everybody who works
\* on its reservation is done.
Age(o) ==
    /\ o \notin aged /\ pending[RequestOf[o]] = o
    /\ "Lag" \in TaskFaults \/ (pc[o] \in Terminal /\ ~InProgress(o))
    /\ aged' = aged \cup {o}
    /\ UNCHANGED <<vars, stage, listed, left, at>>

\* The runner stops; the next leader starts with a round of its own.
CrashRunner(n) ==
    /\ "RunnerCrash" \in TaskFaults
    /\ stage[n] # "idle"
    /\ stage' = [stage EXCEPT ![n] = "idle"]
    /\ left' = [left EXCEPT ![n] = {}]
    /\ at' = [at EXCEPT ![n] = None]
    /\ UNCHANGED <<vars, listed, aged>>

RunnerStep(n) ==
    \/ ListProducts(n) \/ CompareStock(n) \/ SetStock(n)
    \/ StartScan(n) \/ ReadRecord(n) \/ EndRound(n) \/ LookUp(n)
    \/ RollbackStock(n) \/ RemoveUserBuy(n) \/ RestoreUserCoupon(n)
    \/ DropRecord(n)

TaskNext ==
    \/ Next /\ UNCHANGED taskVars
    \/ \E n \in Runner : RunnerStep(n) \/ CrashRunner(n)
    \/ \E o \in Order : Age(o)

TaskSpec == TaskInit /\ [][TaskNext]_allVars

\* The fairness of the pipeline; besides, the ticker of Start goes on and time
\* passes.
TaskFairness ==
    /\ \A o \in Order :
        /\ WF_allVars(CallStep(o) /\ UNCHANGED <<consumerVars, cpc, taskVars>>)
        /\ WF_allVars(CancelStep(o) /\ UNCHANGED <<pc, consumerVars, taskVars>>)
        /\ WF_allVars(Age(o))
    /\ \A w \in Worker : WF_allVars(WorkerStep(w) /\ UNCHANGED <<pc, cpc, taskVars>>)
    /\ \A n \in Runner : WF_allVars(RunnerStep(n))

TaskFairSpec == TaskSpec /\ TaskFairness

-------------------------------------------------------------------------------
(* Properties. *)

\* A call that crashed after it wrote its record is made good: an order stands for
\* it, or the user has the coupon back and may buy again.
CrashedIsSettled ==
    \A o \in Order :
        pc[o] = "crashed" /\ pending[RequestOf[o]] = o
        ~> \/ Confirmed(o)
           \/ /\ o \notin reserved /\ Mark(o) \notin buyMark
              /\ HasCoupon(o) => coupon[CouponOf[o]] = "unused"

-------------------------------------------------------------------------------
(* What the code does not keep; the README says how it comes about. *)

Quiet ==
    /\ \A o \in Order : pc[o] \in Terminal \cup {"start"} /\ ~InProgress(o)
    /\ \A n \in Runner : stage[n] = "idle"

\* Between two rounds in which nothing else goes on Redis does not have more stock
\* than MySQL: a reservation is given back by syncStockConsistency or by
\* fixPendingReservations.
StockNotInflated == Quiet => \A k \in Sku : redisStock[k] <= available[k]
===============================================================================
