----------------------------- MODULE OrderParams ------------------------------
(***************************************************************************)
(* The orders that may be attempted and what each of them is for.  An      *)
(* element of Order is an order number: CreateSeckillOrder draws a fresh   *)
(* one in every call, so it stands for the call as well.                   *)
(***************************************************************************)
EXTENDS Integers, FiniteSets

CONSTANTS
    Order, Request, User, Activity, Sku,
    RequestOf,  \* request_id the client sent with the call
    UserOf,     \* buyer
    SkuOf,      \* seckill sku bought
    ActivityOf, \* activity each sku belongs to
    Quantity,   \* quantity bought
    Stock       \* stock of each sku when the activity starts

ASSUME OrderAssumption ==
    /\ IsFiniteSet(Order)
    /\ RequestOf \in [Order -> Request]
    /\ UserOf \in [Order -> User]
    /\ SkuOf \in [Order -> Sku]
    /\ ActivityOf \in [Sku -> Activity]
    /\ Quantity \in [Order -> Nat \ {0}]
    /\ Stock \in [Sku -> Nat]

\* The unique keys of seckill_order forbid rows for both o and p: uk_request_id
\* and uk_user_activity_product (which is on user and activity only).
Clash(o, p) ==
    \/ RequestOf[o] = RequestOf[p]
    \/ /\ UserOf[o] = UserOf[p]
       /\ ActivityOf[SkuOf[o]] = ActivityOf[SkuOf[p]]

\* The units of stock that the orders in S stand for; the units of different
\* orders are different, so their number is the total quantity of S.
UnitsOf(S) == UNION {{o} \X (1 .. Quantity[o]) : o \in S}
TotalQuantity(S) == Cardinality(UnitsOf(S))
===============================================================================
