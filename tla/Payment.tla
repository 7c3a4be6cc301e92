-------------------------------- MODULE Payment --------------------------------
(***************************************************************************)
(* Payment of an order: PaySeckillOrder draws a payment number for it, the *)
(* payment platform charges the buyer and notifies HandlePayCallback, and  *)
(* a cancellation may come in between.  The order is in the core database, *)
(* its payment in another one, so a transaction on the order does not      *)
(* cover the payment: a statement on pay_info is committed at once.        *)
(***************************************************************************)
EXTENDS FiniteSets, Nil

CONSTANTS
    PayableOrder,
    Number,   \* payment numbers that calls of PaySeckillOrder may draw
    OrderFor, \* the order each of them is drawn for
    Handler,  \* concurrent calls of HandlePayCallback
    Zone,     \* where the server's clock is: "utc", or "east" or "west" of it
    PayFaults

(***************************************************************************)
(* Decline        the platform reports a failed attempt to pay             *)
(* PayError       a statement on pay_info fails                            *)
(* PayAckLost     a statement on pay_info succeeds but reports an error    *)
(* TxError        the transaction on the order fails to commit             *)
(* CommitAckLost  it commits but reports an error                          *)
(* Crash          the process of a call stops                              *)
(***************************************************************************)
PayFault == {"Decline", "PayError", "PayAckLost", "TxError", "CommitAckLost", "Crash"}

\* A notification of the platform: the payment and what became of it.
Notice == Number \X {"SUCCESS", "FAILED"}

ASSUME PaymentAssumption ==
    /\ OrderFor \in [Number -> PayableOrder]
    /\ Zone \in {"utc", "east", "west"}
    /\ PayFaults \subseteq PayFault
    /\ None \notin Handler \cup Notice

VARIABLES
    order,    \* seckill_order.status
    rowLock,  \* the call that holds the lock of the row, or None
    late,     \* orders whose 15 minutes to pay are over
    pay,      \* platform_status and pay_time of each payment number
    told,     \* numbers a buyer has been given
    charged,  \* numbers the platform has charged
    sent,     \* notifications the platform sends until they are answered
    answered, \* those answered with success
    hpc,      \* the statement each call of HandlePayCallback comes to next
    notice    \* the notification it handles

coreVars == <<order, rowLock, late>>
platformVars == <<told, charged, sent, answered>>
callVars == <<hpc, notice>>
payVars == <<coreVars, pay, platformVars, callVars>>

\* pay_time is the time of the notification that was recorded last.
PayRow == [status : {"absent", "CREATED", "SUCCESS", "FAILED",
                     "SUCCESS_BUT_ORDER_CANCELED"},
           time : {"SUCCESS", "FAILED", None}]

Absent == [status |-> "absent", time |-> None]
Created == [status |-> "CREATED", time |-> None]

PayTypeOK ==
    /\ order \in [PayableOrder -> {"Pending", "Paid", "Cancel"}]
    /\ rowLock \in [PayableOrder -> Handler \cup {None}]
    /\ late \subseteq PayableOrder
    /\ pay \in [Number -> PayRow]
    /\ told \subseteq Number
    /\ charged \subseteq Number
    /\ sent \subseteq Notice
    /\ answered \subseteq sent
    /\ hpc \in [Handler -> {"idle", "read", "lock", "update", "commit"}]
    /\ notice \in [Handler -> sent \cup {None}]
    /\ \A h \in Handler : notice[h] = None <=> hpc[h] = "idle"
    /\ \A h \in Handler, o \in PayableOrder :
        rowLock[o] = h <=> hpc[h] \in {"update", "commit"} /\ OrderFor[notice[h][1]] = o

\* ConfirmSeckillOrder has created the orders.
PayInit ==
    /\ order = [o \in PayableOrder |-> "Pending"]
    /\ rowLock = [o \in PayableOrder |-> None]
    /\ late = {}
    /\ pay = [n \in Number |-> Absent]
    /\ told = {}
    /\ charged = {}
    /\ sent = {}
    /\ answered = {}
    /\ hpc = [h \in Handler |-> "idle"]
    /\ notice = [h \in Handler |-> None]

-------------------------------------------------------------------------------
(* The buyer, the clock and the platform. *)

\* The create time is written in the server's zone and read as if it were UTC.
isOrderTimeout(o) == Zone = "west" \/ (Zone = "utc" /\ o \in late)

Exists(n) == pay[n].status # "absent"

\* The payment an order has, at most one because order_no is unique in pay_info.
PaymentOf(o) == {n \in Number : OrderFor[n] = o /\ Exists(n)}

\* The call holds the lock of the order from its check to its end and changes
\* nothing but pay_info, so it is one step.  The row stays when the call fails
\* after the insert; the buyer who calls again is given the number of that row.
PaySeckillOrder(n) ==
    LET o == OrderFor[n] IN
    /\ rowLock[o] = None
    /\ order[o] = "Pending"
    /\ ~isOrderTimeout(o)
    /\ IF PaymentOf(o) = {}
       THEN /\ pay' = [pay EXCEPT ![n] = Created]
            /\ \/ told' = told \cup {n}
               \/ PayFaults \ {"Decline", "PayError"} # {} /\ told' = told
       ELSE told' = told \cup PaymentOf(o) /\ pay' = pay
    /\ UNCHANGED <<coreVars, charged, sent, answered, callVars>>

TimePasses(o) ==
    /\ o \notin late
    /\ late' = late \cup {o}
    /\ UNCHANGED <<order, rowLock, pay, platformVars, callVars>>

\* CancelTimeoutOrder, for the buyer or for the delay queue: its transaction
\* does not look at pay_info.
CancelUnpaid(o) ==
    /\ rowLock[o] = None
    /\ order[o] = "Pending"
    /\ order' = [order EXCEPT ![o] = "Cancel"]
    /\ UNCHANGED <<rowLock, late, pay, platformVars, callVars>>

\* The platform charges a payment once; attempts that fail come before.
Charge(n) ==
    /\ n \in told \ charged
    /\ charged' = charged \cup {n}
    /\ sent' = sent \cup {<<n, "SUCCESS">>}
    /\ UNCHANGED <<coreVars, pay, told, answered, callVars>>

Decline(n) ==
    /\ "Decline" \in PayFaults
    /\ n \in told \ charged
    /\ sent' = sent \cup {<<n, "FAILED">>}
    /\ UNCHANGED <<coreVars, pay, told, charged, answered, callVars>>

-------------------------------------------------------------------------------
(* HandlePayCallback. *)

Paying(h) == notice[h][1]
Reported(h) == notice[h][2]
OrderOf(h) == OrderFor[Paying(h)]

PayGoes(h, from, to) == hpc[h] = from /\ hpc' = [hpc EXCEPT ![h] = to]

\* The call ends and its transaction with it.
PayEnds(h) ==
    /\ hpc' = [hpc EXCEPT ![h] = "idle"]
    /\ notice' = [notice EXCEPT ![h] = None]

\* Mutant: the transaction is left open.
UnlockNothing(h) == rowLock' = rowLock

UnlockOrder(h) ==
    rowLock' = [o \in PayableOrder |-> IF rowLock[o] = h THEN None ELSE rowLock[o]]

AnswerNotice(h) == answered' = answered \cup {notice[h]}

\* A notification arrives; the platform may send one that was answered again.
Receive(h, m) ==
    /\ m \in sent
    /\ PayGoes(h, "idle", "read")
    /\ notice' = [notice EXCEPT ![h] = m]
    /\ UNCHANGED <<coreVars, pay, platformVars>>

\* The payment is read before the order is locked.
ReadPay(h) ==
    /\ hpc[h] = "read"
    /\ IF pay[Paying(h)].status \in {"SUCCESS", "SUCCESS_BUT_ORDER_CANCELED"}
       THEN AnswerNotice(h) /\ PayEnds(h)
       ELSE PayGoes(h, "read", "lock") /\ UNCHANGED <<answered, notice>>
    /\ UNCHANGED <<coreVars, pay, told, charged, sent>>

LockOrder(h) ==
    /\ PayGoes(h, "lock", "update")
    /\ rowLock[OrderOf(h)] = None
    /\ rowLock' = [rowLock EXCEPT ![OrderOf(h)] = h]
    /\ UNCHANGED <<order, late, pay, platformVars, notice>>

\* Mutant: any notification counts as paid.
NewStatusAnyNotice(h) ==
    IF order[OrderOf(h)] = "Cancel" THEN "SUCCESS_BUT_ORDER_CANCELED" ELSE "SUCCESS"

\* A payment for a cancelled order is to be paid back.
NewStatus(h) ==
    CASE Reported(h) = "FAILED" -> "FAILED"
      [] Reported(h) = "SUCCESS" /\ order[OrderOf(h)] = "Cancel" ->
            "SUCCESS_BUT_ORDER_CANCELED"
      [] OTHER -> "SUCCESS"

NewRow(h) == [status |-> NewStatus(h), time |-> Reported(h)]

\* UpdatePayInfoStatus.  MySQL counts the rows it changes, and no row changed
\* is taken for a payment that does not exist.
UpdatePay(h) ==
    /\ hpc[h] = "update"
    /\ pay[Paying(h)] # NewRow(h)
    /\ pay' = [pay EXCEPT ![Paying(h)] = NewRow(h)]
    /\ PayGoes(h, "update", "commit")
    /\ UNCHANGED <<coreVars, platformVars, notice>>

\* Mutant: the error of the statement is swallowed.
UpdatePayFailsUnnoticed(h) ==
    /\ hpc[h] = "update"
    /\ \/ pay[Paying(h)] = NewRow(h) /\ pay' = pay
       \/ "PayError" \in PayFaults /\ pay' = pay
    /\ AnswerNotice(h) /\ PayEnds(h) /\ UnlockOrder(h)
    /\ UNCHANGED <<order, late, told, charged, sent>>

UpdatePayFails(h) ==
    /\ hpc[h] = "update"
    /\ \/ pay[Paying(h)] = NewRow(h) /\ pay' = pay
       \/ "PayError" \in PayFaults /\ pay' = pay
       \/ "PayAckLost" \in PayFaults /\ pay' = [pay EXCEPT ![Paying(h)] = NewRow(h)]
    /\ PayEnds(h) /\ UnlockOrder(h)
    /\ UNCHANGED <<order, late, platformVars>>

\* UpdateOrderStatus becomes visible when the transaction commits.
PayOrder(h) ==
    order' = IF NewStatus(h) = "SUCCESS" THEN [order EXCEPT ![OrderOf(h)] = "Paid"]
                                         ELSE order

\* Mutant: UpdateOrderStatus is left out.
CommitWithoutOrder(h) ==
    /\ hpc[h] = "commit"
    /\ AnswerNotice(h) /\ PayEnds(h) /\ UnlockOrder(h)
    /\ UNCHANGED <<order, late, pay, told, charged, sent>>

Commit(h) ==
    /\ hpc[h] = "commit"
    /\ PayOrder(h) /\ AnswerNotice(h)
    /\ PayEnds(h) /\ UnlockOrder(h)
    /\ UNCHANGED <<late, pay, told, charged, sent>>

CommitFails(h) ==
    /\ hpc[h] = "commit"
    /\ \/ "TxError" \in PayFaults /\ order' = order
       \/ "CommitAckLost" \in PayFaults /\ PayOrder(h)
    /\ PayEnds(h) /\ UnlockOrder(h)
    /\ UNCHANGED <<late, pay, platformVars>>

PayCrash(h) ==
    /\ "Crash" \in PayFaults
    /\ hpc[h] # "idle"
    /\ PayEnds(h) /\ UnlockOrder(h)
    /\ UNCHANGED <<order, late, pay, platformVars>>

-------------------------------------------------------------------------------

HandlePayCallback(h) ==
    \/ \E m \in Notice : Receive(h, m)
    \/ ReadPay(h) \/ LockOrder(h) \/ UpdatePay(h) \/ UpdatePayFails(h)
    \/ Commit(h) \/ CommitFails(h) \/ PayCrash(h)

PayNext ==
    \/ \E n \in Number : PaySeckillOrder(n) \/ Charge(n) \/ Decline(n)
    \/ \E o \in PayableOrder : TimePasses(o) \/ CancelUnpaid(o)
    \/ \E h \in Handler : HandlePayCallback(h)

PaySpec == PayInit /\ [][PayNext]_payVars

\* The platform sends a notification until it is answered, MySQL grants a row
\* lock to those who wait in turn, and its errors do not come for ever.
PayFairness ==
    /\ \A m \in Notice :
        SF_payVars(m \notin answered /\ \E h \in Handler : Receive(h, m))
    /\ \A h \in Handler :
        /\ WF_payVars(ReadPay(h))
        /\ SF_payVars(LockOrder(h))
        /\ WF_payVars(UpdatePayFails(h)) /\ SF_payVars(UpdatePay(h))
        /\ SF_payVars(Commit(h))

PayFairSpec == PaySpec /\ PayFairness

-------------------------------------------------------------------------------
(* Properties. *)

\* An order is paid only with money: the platform charged the payment that
\* pay_info has for it, whatever notifications were reordered or repeated.
PaidIsCharged ==
    \A o \in PayableOrder : order[o] = "Paid" =>
        PaymentOf(o) # {} /\ PaymentOf(o) \subseteq charged

\* A buyer who calls PaySeckillOrder again, also after a call that failed
\* halfway, is given the number of the first call: an order is charged once.
ChargedOnce ==
    \A m, n \in charged : OrderFor[m] = OrderFor[n] => m = n

\* The two databases agree: a payment is a success only if its order is paid, or
\* becomes paid with the transaction of the call that holds its lock.
SuccessMeansPaid ==
    \A n \in Number : pay[n].status = "SUCCESS" =>
        \/ order[OrderFor[n]] = "Paid"
        \/ \E h \in Handler :
            hpc[h] = "commit" /\ Paying(h) = n /\ NewStatus(h) = "SUCCESS"

\* PayStatusSuccessButOrderCanceled, from which money is paid back, is for
\* cancelled orders, and a cancelled order has no payment that counts as success.
RefundMeansCancelled ==
    \A n \in Number :
        /\ pay[n].status = "SUCCESS_BUT_ORDER_CANCELED" => order[OrderFor[n]] = "Cancel"
        /\ pay[n].status = "SUCCESS" => order[OrderFor[n]] # "Cancel"

\* The core database and the one of payments agree on every order.
StoresAgree == SuccessMeansPaid /\ RefundMeansCancelled

\* Where the platform's money is accounted for.
PaySettled(n) ==
    \/ pay[n].status = "SUCCESS" /\ order[OrderFor[n]] = "Paid"
    \/ pay[n].status = "SUCCESS_BUT_ORDER_CANCELED" /\ order[OrderFor[n]] = "Cancel"

\* Money that was taken ends up in a paid order or is marked for refund.
ChargedIsSettled == \A n \in Number : n \in charged ~> PaySettled(n)

-------------------------------------------------------------------------------
(* What the code does not keep; the README says how it comes about. *)

\* A paid order keeps the time of its success as pay_time.
PaidKeepsPayTime ==
    \A n \in Number :
        order[OrderFor[n]] = "Paid" /\ Exists(n) => pay[n].time = "SUCCESS"

\* A payment number is handed out within the 15 minutes an order has.
NoLatePayment ==
    [][\A n \in told' \ told : OrderFor[n] \notin late]_payVars
===============================================================================
