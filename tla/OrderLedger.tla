----------------------------- MODULE OrderLedger ------------------------------
(***************************************************************************)
(* What the core database promises about orders and stock, whatever        *)
(* Redis, Kafka and the processes around it do: an order is created once,  *)
(* against available stock, is then paid or cancelled but never both, and  *)
(* a cancellation gives its stock back exactly once.  A user has at most   *)
(* one order per activity and a request at most one order.                 *)
(***************************************************************************)
EXTENDS OrderParams

VARIABLES
    order,      \* seckill_order.status of each order number, "none": no row
    available   \* seckill_sku.available_stock

ledgerVars == <<order, available>>

Status == {"none", "Pending", "Paid", "Cancel"}

Exists(o) == order[o] # "none"

\* The orders that hold stock of the core database, all of them or of sku k.
Live == {o \in Order : order[o] \in {"Pending", "Paid"}}
LiveOf(k) == {o \in Live : SkuOf[o] = k}

-------------------------------------------------------------------------------

Init ==
    /\ order = [o \in Order |-> "none"]
    /\ available = Stock

Create(o) ==
    /\ \A p \in Order : Exists(p) => ~Clash(o, p)
    /\ Quantity[o] <= available[SkuOf[o]]
    /\ order' = [order EXCEPT ![o] = "Pending"]
    /\ available' = [available EXCEPT ![SkuOf[o]] = @ - Quantity[o]]

Pay(o) ==
    /\ order[o] = "Pending"
    /\ order' = [order EXCEPT ![o] = "Paid"]
    /\ UNCHANGED available

Cancel(o) ==
    /\ order[o] = "Pending"
    /\ order' = [order EXCEPT ![o] = "Cancel"]
    /\ available' = [available EXCEPT ![SkuOf[o]] = @ + Quantity[o]]

Next == \E o \in Order : Create(o) \/ Pay(o) \/ Cancel(o)

Spec == Init /\ [][Next]_ledgerVars

-------------------------------------------------------------------------------

TypeOK ==
    /\ order \in [Order -> Status]
    /\ available \in [Sku -> Nat]

\* No oversell: the stock still available and the quantity of the orders that
\* are pending or paid add up to the stock the activity started with
\* (DecreaseStock and RestoreStock against the status changes they go with).
Conserved ==
    \A k \in Sku : available[k] + TotalQuantity(LiveOf(k)) = Stock[k]

\* One order per user and activity and one per request, cancelled ones included
\* (uk_request_id and uk_user_activity_product of seckill_order).
NoClash ==
    \A o, p \in Order : Exists(o) /\ Exists(p) /\ Clash(o, p) => o = p
===============================================================================
