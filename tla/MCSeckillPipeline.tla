--------------------------- MODULE MCSeckillPipeline ---------------------------
(***************************************************************************)
(* Two calls, o1 and o2.  A run chooses what they have in common: request, *)
(* user, sku, coupon; a third call would meet each of them as they meet    *)
(* each other.                                                             *)
(***************************************************************************)
EXTENDS PipelineInvariants, TLC

CONSTANTS o1, o2, r1, r2, u1, u2, a1, k1, k2, c1

Pair(x, y) == o1 :> x @@ o2 :> y

MCOrder == {o1, o2}
MCRequest == {r1, r2}
MCUser == {u1, u2}
MCActivity == {a1}
MCSku == {k1, k2}
MCCoupon == {c1}
OneActivity == k1 :> a1 @@ k2 :> a1

SameRequest == Pair(r1, r1)
TwoRequests == Pair(r1, r2)
SameUser == Pair(u1, u1)
TwoUsers == Pair(u1, u2)
SameSku == Pair(k1, k1)
TwoSkus == Pair(k1, k2)
OneEach == Pair(1, 1)
OneAndTwo == Pair(1, 2)
NoCoupon == Pair(None, None)
FirstCoupon == Pair(c1, None)
SameCoupon == Pair(c1, c1)
LastUnit == k1 :> 1 @@ k2 :> 0
LastTwo == k1 :> 2 @@ k2 :> 0
Plenty == k1 :> 2 @@ k2 :> 2

\* Two calls with the same request, user, sku and coupon are alike.
AlikeCalls == Permutations(MCOrder)

\* Repeated rollbacks can raise the stock in Redis without end; a run that allows
\* them stops at StockBound.
CONSTANT StockBound
BoundedStock == \A k \in Sku : redisStock[k] <= StockBound

\* Bound on the dead letters: those of one order, which may be replayed while the other
\* order is on its way.
OneDeadLetter == Cardinality({o \in Order : DeadLettered(o)}) <= 1
===============================================================================
