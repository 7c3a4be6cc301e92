-------------------------------- MODULE Checkout --------------------------------
(***************************************************************************)
(* What an order costs, from the price a call reads in the product's cache *)
(* to the amount the payment platform charges, while the price is edited.  *)
(* Stock, messages and the commands they travel with are in the pipeline,  *)
(* notifications of the platform in Payment.                               *)
(***************************************************************************)
EXTENDS Integers, Nil

CONSTANTS
    CheckoutOrder,
    Coupon,   \* user coupons
    Template, \* type, value and min_amount of the coupon each of them is of
    Price,    \* prices an operator may set, in cents
    Quantity  \* quantities a request may ask for

\* seckill.sql: a value in cents, or a percentage that is left to pay.
ASSUME CheckoutAssumption ==
    /\ Template \in [Coupon -> [type : {1, 2}, value : Nat, min : Nat]]
    /\ \A c \in Coupon : Template[c].type = 2 => Template[c].value \in 0 .. 100
    /\ Price \subseteq Nat \ {0}
    /\ Quantity \subseteq Nat \ {0}
    /\ None \notin Coupon \cup Nat

VARIABLES
    price,        \* seckill_price in the core database
    cached,       \* seckill_price in the cached detail, or None
    step,         \* how far each order has come
    request,      \* coupon, or None, and quantity of each request
    quote,        \* the price the call read, or None
    message,      \* order_amount, coupon_discount and final_amount of the message
    orderAmounts, \* those of the order's row
    payAmount,    \* pay_amount of its payment, or None
    spent         \* coupons that are used

checkoutVars == <<price, cached, step, request, quote, message, orderAmounts, payAmount, spent>>

Amounts == [order : Nat, discount : Nat, final : Nat]

CheckoutTypeOK ==
    /\ price \in Price
    /\ cached \in Price \cup {None}
    /\ step \in [CheckoutOrder -> {"new", "priced", "sent", "pending", "paid", "cancel",
                           "refused"}]
    /\ request \in [CheckoutOrder -> [coupon : Coupon \cup {None}, quantity : Quantity]]
    /\ quote \in [CheckoutOrder -> Price \cup {None}]
    /\ message \in [CheckoutOrder -> Amounts \cup {None}]
    /\ orderAmounts \in [CheckoutOrder -> Amounts \cup {None}]
    /\ payAmount \in [CheckoutOrder -> Nat \cup {None}]
    /\ spent \subseteq Coupon

CheckoutInit ==
    /\ price \in Price
    /\ cached = None
    /\ step = [o \in CheckoutOrder |-> "new"]
    /\ request \in [CheckoutOrder -> [coupon : Coupon \cup {None}, quantity : Quantity]]
    /\ quote = [o \in CheckoutOrder |-> None]
    /\ message = [o \in CheckoutOrder |-> None]
    /\ orderAmounts = [o \in CheckoutOrder |-> None]
    /\ payAmount = [o \in CheckoutOrder |-> None]
    /\ spent = {}

StepGoes(o, from, to) == step[o] = from /\ step' = [step EXCEPT ![o] = to]

-------------------------------------------------------------------------------
(* The operator. *)

SetPrice(p) ==
    /\ p # price
    /\ price' = p
    /\ UNCHANGED <<cached, step, request, quote, message, orderAmounts, payAmount, spent>>

\* The cached detail is deleted after an update, or expires.
Invalidate ==
    /\ cached # None
    /\ cached' = None
    /\ UNCHANGED <<price, step, request, quote, message, orderAmounts, payAmount, spent>>

-------------------------------------------------------------------------------
(* CreateSeckillOrder *)

\* getProductDetailWithMutex: the price of the cache, else of the database.
ReadPrice(o) ==
    /\ StepGoes(o, "new", "priced")
    /\ quote' = [quote EXCEPT ![o] = IF cached # None THEN cached ELSE price]
    /\ \/ cached' = quote'[o]
       \/ UNCHANGED cached
    /\ UNCHANGED <<price, request, message, orderAmounts, payAmount, spent>>

OrderAmount(o) == quote[o] * request[o].quantity

Discount(c, amount) ==
    CASE Template[c].type = 1 -> IF Template[c].value > amount THEN amount
                                 ELSE Template[c].value
      [] Template[c].type = 2 -> (amount * (100 - Template[c].value)) \div 100

Applies(o) ==
    LET c == request[o].coupon
    IN  c \notin spent /\ OrderAmount(o) >= Template[c].min

\* applyCoupon, and the message with what it returned.
ApplyCoupon(o) ==
    LET c == request[o].coupon
        amount == OrderAmount(o)
        Sends(discount) ==
            message' = [message EXCEPT ![o] = [order |-> amount, discount |-> discount,
                                               final |-> amount - discount]]
    IN  /\ step[o] = "priced"
        /\ \/ /\ c = None
              /\ StepGoes(o, "priced", "sent") /\ Sends(0) /\ UNCHANGED spent
           \/ /\ c # None /\ Applies(o)
              /\ StepGoes(o, "priced", "sent") /\ Sends(Discount(c, amount))
              /\ spent' = spent \cup {c}
           \/ /\ c # None /\ ~Applies(o)
              /\ StepGoes(o, "priced", "refused") /\ UNCHANGED <<message, spent>>
        /\ UNCHANGED <<price, cached, request, quote, orderAmounts, payAmount>>

\* The stock is out, or the message fails for good: the coupon is given back.
CheckoutFails(o) ==
    /\ StepGoes(o, "sent", "refused")
    /\ spent' = spent \ {request[o].coupon}
    /\ UNCHANGED <<price, cached, request, quote, message, orderAmounts, payAmount>>

-------------------------------------------------------------------------------
(* The order and its payment. *)

\* Mutant: an amount of 0 is filled in without the discount.
FilledInFull(m) == [m EXCEPT !.final = IF @ = 0 THEN m.order ELSE @]

\* A final amount of 0 may be one that the message does not have.
FilledIn(m) ==
    [m EXCEPT !.final =
        IF @ # 0 THEN @ ELSE IF m.discount > m.order THEN 0 ELSE m.order - m.discount]

ConfirmSeckillOrder(o) ==
    /\ StepGoes(o, "sent", "pending")
    /\ orderAmounts' = [orderAmounts EXCEPT ![o] = FilledIn(message[o])]
    /\ UNCHANGED <<price, cached, request, quote, message, payAmount, spent>>

\* The first call creates the payment, any other answers with it.
CreatePayment(o) ==
    /\ step[o] = "pending" /\ payAmount[o] = None
    /\ payAmount' = [payAmount EXCEPT ![o] = orderAmounts[o].final]
    /\ UNCHANGED <<price, cached, step, request, quote, message, orderAmounts, spent>>

\* The platform has charged the amount of the payment; any other is refused.
HandleCharge(o) ==
    /\ payAmount[o] # None
    /\ StepGoes(o, "pending", "paid")
    /\ UNCHANGED <<price, cached, request, quote, message, orderAmounts, payAmount, spent>>

CancelUnpaidOrder(o) ==
    /\ StepGoes(o, "pending", "cancel")
    /\ spent' = spent \ {request[o].coupon}
    /\ UNCHANGED <<price, cached, request, quote, message, orderAmounts, payAmount>>

\* The amount GetSeckillResult answers with a success.
ResultAmount(o) == IF step[o] = "paid" THEN orderAmounts[o].final ELSE orderAmounts[o].order

CheckoutNext ==
    \/ \E p \in Price : SetPrice(p)
    \/ Invalidate
    \/ \E o \in CheckoutOrder :
        \/ ReadPrice(o) \/ ApplyCoupon(o) \/ CheckoutFails(o) \/ ConfirmSeckillOrder(o)
        \/ CreatePayment(o) \/ HandleCharge(o) \/ CancelUnpaidOrder(o)

CheckoutSpec == CheckoutInit /\ [][CheckoutNext]_checkoutVars

-------------------------------------------------------------------------------
(* Properties. *)

\* What amount is to be paid with coupon c: nothing less than 0, or the percentage
\* of the template, rounded up to a cent.
ToPay(c, amount, paid) ==
    IF c = None THEN paid = amount
    ELSE LET t == Template[c] IN
         CASE t.type = 1 -> paid = (IF amount < t.value THEN 0 ELSE amount - t.value)
           [] t.type = 2 -> /\ 100 * paid >= amount * t.value
                            /\ 100 * (paid - 1) < amount * t.value

\* The buyer is charged the price the call read, with the coupon of the request,
\* whatever becomes of the price in between and although an amount of 0 is also
\* what the consumer takes for a missing one.
ChargedAsQuoted ==
    \A o \in CheckoutOrder : step[o] = "paid" =>
        ToPay(request[o].coupon, OrderAmount(o), payAmount[o])

-------------------------------------------------------------------------------
(* What the code does not keep; the README says how it comes about. *)

\* A successful result carries the amount that is paid.
ResultIsAmountPaid ==
    \A o \in CheckoutOrder : step[o] \in {"pending", "paid"} => ResultAmount(o) = orderAmounts[o].final
===============================================================================
