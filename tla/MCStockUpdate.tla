----------------------------- MODULE MCStockUpdate -----------------------------
(***************************************************************************)
(* One call for one sku, beside the task, an operator who edits the        *)
(* product and a process that starts while the sale is on.                 *)
(***************************************************************************)
EXTENDS StockUpdate, TLC

CONSTANTS o1, r1, u1, a1, k1, c1

OneActivity == k1 :> a1
OneRequest == o1 :> r1
OneUser == o1 :> u1
OneSku == o1 :> k1
OneCoupon == o1 :> c1
OneUnit == o1 :> 1
LastUnit == k1 :> 1
BothUnits == o1 :> 2
LastTwo == k1 :> 2

TakeOrKeep == {-1, 0}
AnyStep == {-1, 0, 1}

\* Rounds of the task, warm-ups and rolled back records can raise the stock in Redis;
\* a run stops at StockBound.
CONSTANT StockBound
BoundedStock == \A k \in Sku : redisStock[k] <= StockBound
===============================================================================
