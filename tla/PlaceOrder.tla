------------------------------ MODULE PlaceOrder ------------------------------
(***************************************************************************)
(* CreateSeckillOrder: the goroutine of the call that draws order number o *)
(* reserves stock in Redis and hands the order to Kafka.  pc names the     *)
(* command it sends next.                                                  *)
(***************************************************************************)
EXTENDS SeckillState

VARIABLE pc

Terminal == {"accepted", "rejected", "crashed"}
PcValues == Terminal \cup
    {"start", "check", "mark", "record", "coupon", "deduct", "pend", "send",
     "remark", "unpend", "restock", "unmark", "uncoupon"}

PlaceTypeOK == pc \in [Order -> PcValues]
PlaceInit == pc = [o \in Order |-> "start"]

Goes(o, from, to) == pc[o] = from /\ pc' = [pc EXCEPT ![o] = to]

\* Mutants: the coupon of a refused request is kept, and a request that Redis
\* refused is rolled back as if it had reserved.
AfterRefusalKeepCoupon(o) == "rejected"
AfterRefusalRestock(o) == "restock"

\* The step after Redis refused or Kafka failed: coupons are only given back if
\* the request has one.
AfterRefusal(o) == IF HasCoupon(o) THEN "uncoupon" ELSE "rejected"

-------------------------------------------------------------------------------

\* The limiters let the request pass and its idempotency key is new.
Admit(o) ==
    /\ RequestOf[o] \notin idempotent
    /\ Goes(o, "start", "check")
    /\ idempotent' = idempotent \cup {RequestOf[o]}
    /\ UNCHANGED <<redisStock, buyMark, pending, delayQueue, mysqlVars,
                   kafkaVars, reserved>>

\* Rate limited or a duplicate, and once admitted: no such activity or product,
\* or more than the purchase limit.
Refuse(o) ==
    /\ Goes(o, "start", "rejected") \/ Goes(o, "check", "rejected")
    /\ UNCHANGED sharedVars

Qualify(o) == Goes(o, "check", "mark") /\ UNCHANGED sharedVars

\* CheckUserBuy: an error of Redis lets the request pass.
CheckMark(o) ==
    /\ \/ Mark(o) \in buyMark /\ Goes(o, "mark", "rejected")
       \/ Mark(o) \notin buyMark /\ Goes(o, "mark", "record")
       \/ "StoreError" \in Faults /\ Goes(o, "mark", "record")
    /\ UNCHANGED sharedVars

\* An order of the user in this activity that is pending or paid.
Bought(o) ==
    \E p \in Ledger!Live : /\ UserOf[p] = UserOf[o]
                           /\ ActivityOf[SkuOf[p]] = ActivityOf[SkuOf[o]]

\* CheckUserBuyRecord.  A user who has bought is marked again.
CheckRecord(o) ==
    /\ \/ /\ Bought(o)
          /\ Goes(o, "record", "rejected")
          /\ BestEffort(buyMark' = buyMark \cup {Mark(o)}, UNCHANGED buyMark)
       \/ /\ ~Bought(o)
          /\ Goes(o, "record", IF HasCoupon(o) THEN "coupon" ELSE "deduct")
          /\ UNCHANGED buyMark
       \/ /\ "StoreError" \in Faults
          /\ Goes(o, "record", "rejected")
          /\ UNCHANGED buyMark
    /\ UNCHANGED <<idempotent, redisStock, pending, delayQueue, mysqlVars,
                   kafkaVars, reserved>>

\* Mutant: a used coupon is taken again.
ApplyAnyCoupon(o) ==
    /\ pc[o] = "coupon"
    /\ Goes(o, "coupon", "deduct")
    /\ coupon' = [coupon EXCEPT ![CouponOf[o]] = "used"]
    /\ UNCHANGED <<redisVars, order, available, kafkaVars, reserved>>

\* applyCoupon: a coupon that is used, or does not apply, ends the call.
TakeCoupon(o) == coupon' = [coupon EXCEPT ![CouponOf[o]] = "used"]

ApplyCoupon(o) ==
    /\ pc[o] = "coupon"
    /\ \/ /\ coupon[CouponOf[o]] = "unused"
          /\ TakeCoupon(o)
          /\ \/ Goes(o, "coupon", "deduct")
             \/ "StoreError" \in Faults /\ Goes(o, "coupon", "rejected")
       \/ Goes(o, "coupon", "rejected") /\ UNCHANGED coupon
    /\ UNCHANGED <<redisVars, order, available, kafkaVars, reserved>>

\* Mutants: the script leaves the buy mark to MarkUserBuy, or does not compare
\* the stock with the quantity.
ReserveUnmarked(o) ==
    /\ redisStock' = [redisStock EXCEPT ![SkuOf[o]] = @ - Quantity[o]]
    /\ reserved' = reserved \cup {o}
    /\ UNCHANGED buyMark

CanReserveUnchecked(o) == Mark(o) \notin buyMark

\* The effect of the Lua script when it returns 1.
Reserve(o) ==
    /\ redisStock' = [redisStock EXCEPT ![SkuOf[o]] = @ - Quantity[o]]
    /\ buyMark' = buyMark \cup {Mark(o)}
    /\ reserved' = reserved \cup {o}

CanReserve(o) == Mark(o) \notin buyMark /\ Quantity[o] <= redisStock[SkuOf[o]]

\* DeductStock.  On an error the call returns at once, whether the script has
\* run or not, and the coupon stays used.
DeductStock(o) ==
    /\ IF CanReserve(o)
       THEN \/ Goes(o, "deduct", "pend") /\ Reserve(o)
            \/ /\ "DeductError" \in Faults
               /\ Goes(o, "deduct", "rejected")
               /\ Reserve(o) \/ UNCHANGED <<redisStock, buyMark, reserved>>
       ELSE /\ \/ Goes(o, "deduct", AfterRefusal(o))
               \/ "DeductError" \in Faults /\ Goes(o, "deduct", "rejected")
            /\ UNCHANGED <<redisStock, buyMark, reserved>>
    /\ UNCHANGED <<idempotent, pending, delayQueue, mysqlVars, kafkaVars>>

\* Mutant: SetPendingReservation is not called.
SetNoPending(o) == Goes(o, "pend", "send") /\ UNCHANGED sharedVars

SetPending(o) ==
    /\ Goes(o, "pend", "send")
    /\ BestEffort(pending' = [pending EXCEPT ![RequestOf[o]] = o],
                  UNCHANGED pending)
    /\ UNCHANGED <<idempotent, redisStock, buyMark, delayQueue, mysqlVars,
                   kafkaVars, reserved>>

Send(o) ==
    /\ \/ Goes(o, "send", "remark") /\ Publish(<<o, 0>>)
       \/ /\ Goes(o, "send", "unpend")
          /\ SendFails(Publish(<<o, 0>>), UNCHANGED topic)
    /\ UNCHANGED <<redisVars, mysqlVars, dlqTopic, deadRow, reserved>>

\* MarkUserBuy, once more and for an hour, after the message is out.
RemarkBuy(o) ==
    /\ Goes(o, "remark", "accepted")
    /\ BestEffort(buyMark' = buyMark \cup {Mark(o)}, UNCHANGED buyMark)
    /\ UNCHANGED <<idempotent, redisStock, pending, delayQueue, mysqlVars,
                   kafkaVars, reserved>>

-------------------------------------------------------------------------------
(* The message could not be sent: undo the reservation, ignoring errors. *)

UndoPending(o) ==
    /\ Goes(o, "unpend", "restock")
    /\ BestEffort(DropPending(o), UNCHANGED pending)
    /\ UNCHANGED <<idempotent, redisStock, buyMark, delayQueue, mysqlVars,
                   kafkaVars, reserved>>

UndoStock(o) ==
    /\ Goes(o, "restock", "unmark")
    /\ BestEffort(GiveBack(o), UNCHANGED <<redisStock, reserved>>)
    /\ UNCHANGED <<idempotent, buyMark, pending, delayQueue, mysqlVars,
                   kafkaVars>>

UndoMark(o) ==
    /\ Goes(o, "unmark", AfterRefusal(o))
    /\ BestEffort(Unmark(o), UNCHANGED buyMark)
    /\ UNCHANGED <<idempotent, redisStock, pending, delayQueue, mysqlVars,
                   kafkaVars, reserved>>

UndoCoupon(o) ==
    /\ Goes(o, "uncoupon", "rejected")
    /\ BestEffort(ReturnCoupon(o), UNCHANGED coupon)
    /\ UNCHANGED <<redisVars, order, available, kafkaVars, reserved>>

-------------------------------------------------------------------------------

\* The server stops in the middle of the call.
CrashCall(o) ==
    /\ "ProcessCrash" \in Faults
    /\ pc[o] \notin Terminal \cup {"start"}
    /\ pc' = [pc EXCEPT ![o] = "crashed"]
    /\ UNCHANGED sharedVars

\* The steps of a call that runs.
CallStep(o) ==
    \/ Qualify(o) \/ CheckMark(o) \/ CheckRecord(o) \/ ApplyCoupon(o)
    \/ DeductStock(o) \/ SetPending(o) \/ Send(o) \/ RemarkBuy(o)
    \/ UndoPending(o) \/ UndoStock(o) \/ UndoMark(o) \/ UndoCoupon(o)

PlaceNext == \E o \in Order : Admit(o) \/ Refuse(o) \/ CallStep(o) \/ CrashCall(o)
===============================================================================
