----------------------------- MODULE StockPromise -----------------------------
(***************************************************************************)
(* What the stock in Redis and the core database promise together: an      *)
(* order number is admitted at most once, against stock that it takes from *)
(* Redis; only an admitted order becomes a row; and its stock goes back to *)
(* Redis at most once, when no row stands, and ends the order number.      *)
(* Calls, messages, workers, records and retries are not seen here.        *)
(***************************************************************************)
EXTENDS OrderLedger

VARIABLES
    redisStock, \* stock of each sku in Redis
    held        \* where each order number is: "new", "held" or "over"

promiseVars == <<order, available, redisStock, held>>

PromiseTypeOK ==
    /\ TypeOK
    /\ redisStock \in [Sku -> Nat]
    /\ held \in [Order -> {"new", "held", "over"}]

PromiseInit ==
    /\ Init
    /\ redisStock = Stock
    /\ held = [o \in Order |-> "new"]

Becomes(o, from, to) == held[o] = from /\ held' = [held EXCEPT ![o] = to]

\* Refused, or given up before the script.
TurnAway(o) == Becomes(o, "new", "over") /\ UNCHANGED <<order, available, redisStock>>

Admit(o) ==
    /\ Becomes(o, "new", "held")
    /\ Quantity[o] <= redisStock[SkuOf[o]]
    /\ redisStock' = [redisStock EXCEPT ![SkuOf[o]] = @ - Quantity[o]]
    /\ UNCHANGED <<order, available>>

Confirm(o) == held[o] = "held" /\ Create(o) /\ UNCHANGED <<redisStock, held>>

Close(o) == (Pay(o) \/ Cancel(o)) /\ UNCHANGED <<redisStock, held>>

GiveUp(o) ==
    /\ Becomes(o, "held", "over")
    /\ o \notin Live
    /\ redisStock' = [redisStock EXCEPT ![SkuOf[o]] = @ + Quantity[o]]
    /\ UNCHANGED <<order, available>>

PromiseNext ==
    \E o \in Order : TurnAway(o) \/ Admit(o) \/ Confirm(o) \/ Close(o) \/ GiveUp(o)

PromiseSpec == PromiseInit /\ [][PromiseNext]_promiseVars
===============================================================================
