------------------------------ MODULE StockUpdate ------------------------------
(***************************************************************************)
(* UpdateSeckillProduct and WarmUpSeckillCache beside the order pipeline   *)
(* and the task that compares the two stocks.  Both write absolute stocks  *)
(* that somebody read before: what the operator's form showed, or what the *)
(* warm-up of a starting process found in the core database.  The caches   *)
(* an update invalidates are in CacheAside.                                *)
(***************************************************************************)
EXTENDS Compensation

CONSTANTS
    Change,    \* what an operator may add to both stocks, 0 to edit the rest
    MaxEdits,  \* bound on forms
    MaxStarts  \* bound on warm-ups that no update asks for

ASSUME UpdateAssumption ==
    /\ Change \subseteq Int
    /\ MaxEdits \in Nat /\ MaxStarts \in Nat
    /\ None \notin [sku : Sku, total : Nat, available : Nat]

VARIABLES
    total,   \* seckill_sku.total_stock
    form,    \* the stocks of a sku as an operator has them before him
    edit,    \* the step of the update: "none", "form", "set", or "warm"
    toWarm,  \* skus the warm-up has not read
    warm,    \* the stock it read of each sku and has not written, or None
    edits,   \* forms so far
    starts   \* warm-ups so far

updateVars == <<total, form, edit, toWarm, warm, edits, starts>>
everyVar == <<allVars, updateVars>>

Form == [sku : Sku, total : Nat, available : Nat]

UpdateTypeOK ==
    /\ TaskTypeOK
    /\ total \in [Sku -> Nat]
    /\ form \in Form \cup {None}
    /\ edit \in {"none", "form", "set", "warm"}
    /\ edit \in {"form", "set"} <=> form # None
    /\ toWarm \subseteq Sku
    /\ warm \in [Sku -> Nat \cup {None}]
    /\ edits \in 0 .. MaxEdits
    /\ starts \in 0 .. MaxStarts

UpdateInit ==
    /\ TaskInit
    /\ total = Stock
    /\ form = None
    /\ edit = "none"
    /\ toWarm = {}
    /\ warm = [k \in Sku |-> None]
    /\ edits = 0
    /\ starts = 0

-------------------------------------------------------------------------------
(* UpdateSeckillProduct.  A request has to carry every field of the product. *)

OpenForm(k) ==
    /\ edit = "none" /\ edits < MaxEdits
    /\ edit' = "form"
    /\ form' = [sku |-> k, total |-> total[k], available |-> available[k]]
    /\ edits' = edits + 1
    /\ UNCHANGED <<allVars, total, toWarm, warm, starts>>

\* Mutant: the service checks the total only.
AcceptedTotal(d) == form.total + d > 0

\* What a request for d more units writes; the service refuses a total of 0 and a
\* negative number of available units.
Accepted(d) == form.total + d > 0 /\ form.available + d >= 0

\* The statement on seckill_sku, which compares with nothing: the row may have
\* changed since the form was opened.
WriteSku(d) ==
    /\ total' = [total EXCEPT ![form.sku] = form.total + d]
    /\ available' = [available EXCEPT ![form.sku] = form.available + d]

\* The update fails before it wrote the stock, or wrote it; then the caches are
\* invalidated, and an error there ends the call before it comes to Redis's stock.
Submit(d) ==
    /\ edit = "form"
    /\ \/ /\ Accepted(d)
          /\ WriteSku(d)
          /\ \/ edit' = "set" /\ form' = [form EXCEPT !.available = @ + d]
             \/ "StoreError" \in Faults /\ edit' = "none" /\ form' = None
       \/ edit' = "none" /\ form' = None /\ UNCHANGED <<total, available>>
    /\ UNCHANGED <<redisVars, order, coupon, kafkaVars, reserved, pc, consumerVars,
                   cpc, taskVars, toWarm, warm, edits, starts>>

\* SetStock, with what the request carried; without an error a warm-up may follow.
SyncStock ==
    /\ edit = "set"
    /\ form' = None
    /\ \/ /\ redisStock' = [redisStock EXCEPT ![form.sku] = form.available]
          /\ \/ edit' = "none" /\ UNCHANGED toWarm
             \/ toWarm = {} /\ edit' = "warm" /\ toWarm' = Sku
       \/ /\ StoreFails(redisStock' = [redisStock EXCEPT ![form.sku] = form.available],
                        UNCHANGED redisStock)
          /\ edit' = "none" /\ UNCHANGED toWarm
    /\ UNCHANGED <<idempotent, buyMark, pending, delayQueue, mysqlVars, kafkaVars,
                   reserved, pc, consumerVars, cpc, taskVars, total, warm, edits,
                   starts>>

-------------------------------------------------------------------------------
(* WarmUpSeckillCache, of an update or of a process that starts. *)

StartProcess ==
    /\ edit = "none" /\ starts < MaxStarts
    /\ edit' = "warm"
    /\ toWarm' = Sku
    /\ starts' = starts + 1
    /\ UNCHANGED <<allVars, total, form, warm, edits>>

\* GetSeckillProductDetail of one product; one that cannot be read is left out.
ReadDetail(k) ==
    /\ edit = "warm" /\ k \in toWarm
    /\ toWarm' = toWarm \ {k}
    /\ BestEffort(warm' = [warm EXCEPT ![k] = available[k]], UNCHANGED warm)
    /\ UNCHANGED <<allVars, total, form, edit, edits, starts>>

\* A SET of the pipeline that BatchSetProducts sends once all are read.
BatchSet(k) ==
    /\ edit = "warm" /\ toWarm = {} /\ warm[k] # None
    /\ warm' = [warm EXCEPT ![k] = None]
    /\ BestEffort(redisStock' = [redisStock EXCEPT ![k] = warm[k]],
                  UNCHANGED redisStock)
    /\ UNCHANGED <<idempotent, buyMark, pending, delayQueue, mysqlVars, kafkaVars,
                   reserved, pc, consumerVars, cpc, taskVars, total, form, edit,
                   toWarm, edits, starts>>

EndWarmUp ==
    /\ edit = "warm" /\ toWarm = {} /\ \A k \in Sku : warm[k] = None
    /\ edit' = "none"
    /\ UNCHANGED <<allVars, total, form, toWarm, warm, edits, starts>>

-------------------------------------------------------------------------------

\* The steps of a call that runs.
UpdateStep ==
    \/ SyncStock \/ EndWarmUp
    \/ \E k \in Sku : ReadDetail(k) \/ BatchSet(k)

UpdateNext ==
    \/ TaskNext /\ UNCHANGED updateVars
    \/ \E k \in Sku : OpenForm(k)
    \/ \E d \in Change : Submit(d)
    \/ StartProcess
    \/ UpdateStep

UpdateSpec == UpdateInit /\ [][UpdateNext]_everyVar

\* The rounds of the task, the pipeline and a call that was made go on; nobody has
\* to submit a form.
UpdateFairSpec ==
    /\ UpdateSpec
    /\ \A o \in Order :
        /\ WF_everyVar(CallStep(o) /\ UNCHANGED <<consumerVars, cpc, taskVars, updateVars>>)
        /\ WF_everyVar(CancelStep(o) /\ UNCHANGED <<pc, consumerVars, taskVars, updateVars>>)
        /\ WF_everyVar(Age(o) /\ UNCHANGED updateVars)
    /\ \A w \in Worker :
        WF_everyVar(WorkerStep(w) /\ UNCHANGED <<pc, cpc, taskVars, updateVars>>)
    /\ \A n \in Runner : WF_everyVar(RunnerStep(n) /\ UNCHANGED updateVars)
    /\ WF_everyVar(UpdateStep)

-------------------------------------------------------------------------------
(* Properties. *)

\* The units of sku k that are in orders that stand, or may still be ordered.
SoldOrLeft(k) == TotalQuantity(Ledger!LiveOf(k)) + available[k]

\* The columns of a sku come to account for more or fewer units than total_stock in
\* one way only: a form that shows an older available_stock is written over a newer
\* one.  Then they are off by the units sold (or given back) in between, which is
\* never more than the orders that stand hold.  Nothing that orders, cancellations,
\* replays, warm-ups and rounds of the task do, or fail to do, adds to that.
OnlyStaleFormsOversell ==
    [][\A k \in Sku :
          LET off == SoldOrLeft(k) - total[k] IN
          \/ off' = off
          \/ /\ edit = "form" /\ edit' # "form" /\ form.sku = k
             /\ off' = off + (form.available - available[k])
             /\ off' - off <= TotalQuantity(Ledger!LiveOf(k))]_everyVar

\* Once nobody buys or updates any more the stock in Redis comes to agree with
\* available_stock, whatever a warm-up or an update wrote from what it read
\* earlier: the next round of the task writes over it.
RedisFollows == <>[](\A k \in Sku : redisStock[k] = available[k])

-------------------------------------------------------------------------------
(* What the code does not keep; the README says how it comes about. *)

\* No more units are sold than total_stock says there are.
NotOversold == \A k \in Sku : TotalQuantity(Ledger!LiveOf(k)) <= total[k]
===============================================================================
