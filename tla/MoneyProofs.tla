------------------------------ MODULE MoneyProofs -----------------------------
(***************************************************************************)
(* What is asked for an order, what is paid, and the coupons that make it  *)
(* less: the amounts of CreateOrder and FillOrder, HandlePayCallback and   *)
(* PaySeckillOrder, and the books of the user's coupons, for any number of *)
(* orders, payments, coupons and concurrent calls.                         *)
(***************************************************************************)
EXTENDS Payment, Checkout, CouponWallet, FiniteSetTheorems, TLAPS

-------------------------------------------------------------------------------
(* Payment. *)
(* Types and the lock of the order. *)

\* Every step keeps the types, and a row lock belongs to the call that is between
\* its lock and the end of its transaction.
LEMMA PaymentTypeStep ==
    ASSUME PayTypeOK, [PayNext]_payVars
    PROVE  PayTypeOK'
<1> USE PaymentAssumption
<1>0. CASE UNCHANGED payVars
  BY <1>0 DEF PayTypeOK, payVars, coreVars, platformVars, callVars
<1>1. ASSUME NEW n \in Number, PaySeckillOrder(n)
      PROVE  PayTypeOK'
  BY <1>1 DEF PayTypeOK, PaySeckillOrder, coreVars, callVars, PayRow, Created,
              PaymentOf, Exists
<1>2. ASSUME NEW n \in Number, Charge(n) \/ Decline(n)
      PROVE  PayTypeOK'
  BY <1>2 DEF PayTypeOK, Charge, Decline, coreVars, callVars, Notice
<1>3. ASSUME NEW o \in PayableOrder, TimePasses(o) \/ CancelUnpaid(o)
      PROVE  PayTypeOK'
  BY <1>3 DEF PayTypeOK, TimePasses, CancelUnpaid, platformVars, callVars
<1>4. ASSUME NEW h \in Handler, HandlePayCallback(h)
      PROVE  PayTypeOK'
  <2> DEFINE rows == [Number -> PayRow]
  <2>1. ASSUME NEW m \in Notice, Receive(h, m)
        PROVE  PayTypeOK'
    BY <2>1 DEF PayTypeOK, Receive, PayGoes, coreVars, platformVars, Notice
  <2>2. CASE ReadPay(h)
    BY <2>2 DEF PayTypeOK, ReadPay, PayGoes, AnswerNotice, PayEnds, coreVars, Notice
  <2>3. CASE LockOrder(h)
    BY <2>3 DEF PayTypeOK, LockOrder, PayGoes, OrderOf, Paying, platformVars, Notice
  <2>4. hpc[h] # "idle" => NewRow(h) \in PayRow /\ Paying(h) \in Number
    BY DEF PayTypeOK, NewRow, NewStatus, Reported, Paying, PayRow, Notice
  <2>5. CASE UpdatePay(h)
    BY <2>4, <2>5 DEF PayTypeOK, UpdatePay, PayGoes, coreVars, platformVars
  <2>6. ASSUME PayEnds(h), UnlockOrder(h), order' \in [PayableOrder -> {"Pending", "Paid", "Cancel"}],
               pay' \in rows, answered' \subseteq sent,
               UNCHANGED <<late, told, charged, sent>>
        PROVE  PayTypeOK'
    BY <2>6 DEF PayTypeOK, PayEnds, UnlockOrder
  <2>7. CASE UpdatePayFails(h)
    BY <2>4, <2>6, <2>7 DEF PayTypeOK, UpdatePayFails, platformVars
  <2>8. PayOrder(h) => order' \in [PayableOrder -> {"Pending", "Paid", "Cancel"}]
    <3>1. order \in [PayableOrder -> {"Pending", "Paid", "Cancel"}]
      BY DEF PayTypeOK
    <3>2. \A p : [order EXCEPT ![p] = "Paid"] \in [PayableOrder -> {"Pending", "Paid", "Cancel"}]
      BY <3>1
    <3> QED
      BY <3>1, <3>2 DEF PayOrder
  <2>9. CASE Commit(h)
    BY <2>6, <2>8, <2>9 DEF PayTypeOK, Commit, AnswerNotice
  <2>10. CASE CommitFails(h)
    BY <2>6, <2>8, <2>10 DEF PayTypeOK, CommitFails, platformVars
  <2>11. CASE PayCrash(h)
    BY <2>6, <2>11 DEF PayTypeOK, PayCrash, platformVars
  <2> QED
    BY <1>4, <2>1, <2>2, <2>3, <2>5, <2>7, <2>9, <2>10, <2>11
       DEF HandlePayCallback
<1> QED
  BY <1>0, <1>1, <1>2, <1>3, <1>4 DEF PayNext

LEMMA PaymentTypeInit == PayInit => PayTypeOK
  BY PaymentAssumption DEF PayInit, PayTypeOK, Absent, PayRow, Notice

\* The payments keep their types and a row lock its one owner, under every fault.
THEOREM PaymentTypes == PaySpec => []PayTypeOK
  BY PaymentTypeInit, PaymentTypeStep, PTL DEF PaySpec

-------------------------------------------------------------------------------
(* Money. *)

\* Why an order is paid only with money: a success that anybody handles was sent
\* by the platform, which sends it when it has charged a number it was told, and
\* an order has one number only.
MoneyInv ==
    /\ \A n \in told : Exists(n)
    /\ \A m \in sent : m[1] \in told
    /\ charged \subseteq told
    /\ \A n \in Number : <<n, "SUCCESS">> \in sent => n \in charged
    /\ \A m, n \in Number :
        Exists(m) /\ Exists(n) /\ OrderFor[m] = OrderFor[n] => m = n
    /\ \A o \in PayableOrder : order[o] = "Paid" => \E n \in charged : OrderFor[n] = o

\* What a call of HandlePayCallback leaves alone, and what it must keep.
LEMMA MoneyKept ==
    ASSUME PayTypeOK, MoneyInv,
           UNCHANGED <<told, charged, sent>>,
           \A n \in Number : pay'[n].status = "absent" <=> pay[n].status = "absent",
           \A o \in PayableOrder : order'[o] = "Paid" =>
                order[o] = "Paid" \/ \E n \in charged : OrderFor[n] = o
    PROVE  MoneyInv'
  BY DEF MoneyInv, PayTypeOK, Exists

\* A status that a notification writes is one of an existing payment.
LEMMA WritesExisting ==
    ASSUME PayTypeOK, MoneyInv, NEW h \in Handler, hpc[h] # "idle",
           pay' = [pay EXCEPT ![Paying(h)] = NewRow(h)],
           Exists(Paying(h))
    PROVE  \A n \in Number : pay'[n].status = "absent" <=> pay[n].status = "absent"
  BY DEF PayTypeOK, Exists, NewRow, NewStatus

LEMMA MoneyStep ==
    ASSUME PayTypeOK, MoneyInv, [PayNext]_payVars
    PROVE  MoneyInv'
<1> USE PaymentAssumption
<1>0. CASE UNCHANGED payVars
  BY <1>0, MoneyKept DEF payVars, coreVars, platformVars
<1>1. ASSUME NEW n \in Number, PaySeckillOrder(n)
      PROVE  MoneyInv'
  BY <1>1 DEF MoneyInv, PayTypeOK, PaySeckillOrder, coreVars, PayRow, Created,
              PaymentOf, Exists
<1>2. ASSUME NEW n \in Number, Charge(n)
      PROVE  MoneyInv'
  BY <1>2 DEF MoneyInv, PayTypeOK, Charge, coreVars, Exists
<1>3. ASSUME NEW n \in Number, Decline(n)
      PROVE  MoneyInv'
  BY <1>3 DEF MoneyInv, PayTypeOK, Decline, coreVars, Exists
<1>4. ASSUME NEW o \in PayableOrder, TimePasses(o) \/ CancelUnpaid(o)
      PROVE  MoneyInv'
  BY <1>4, MoneyKept DEF TimePasses, CancelUnpaid, platformVars, PayTypeOK
<1>5. ASSUME NEW h \in Handler, HandlePayCallback(h)
      PROVE  MoneyInv'
  <2>1. CASE \E m \in Notice : Receive(h, m)
    BY <2>1, MoneyKept DEF Receive, coreVars, platformVars
  <2>2. CASE ReadPay(h)
    BY <2>2, MoneyKept DEF ReadPay, coreVars
  <2>3. CASE LockOrder(h)
    BY <2>3, MoneyKept DEF LockOrder, platformVars
  <2>4. CASE PayCrash(h)
    BY <2>4, MoneyKept DEF PayCrash, platformVars
  <2>5. CASE UpdatePay(h) \/ UpdatePayFails(h)
    <3> DEFINE Same == \A n \in Number : pay'[n].status = "absent" <=> pay[n].status = "absent"
    <3>1. UNCHANGED <<order, told, charged, sent>> /\ hpc[h] = "update"
      BY <2>5 DEF UpdatePay, UpdatePayFails, coreVars, platformVars
    <3>2. pay' = pay \/ pay' = [pay EXCEPT ![Paying(h)] = NewRow(h)]
      BY <2>5 DEF UpdatePay, UpdatePayFails
    <3>3. Exists(Paying(h))
      BY <3>1 DEF MoneyInv, PayTypeOK, Paying
    <3>4. Same
      BY <3>1, <3>2, <3>3, WritesExisting
    <3> QED
      BY <3>1, <3>4, MoneyKept
  <2>6. CASE Commit(h) \/ CommitFails(h)
    <3>1. /\ UNCHANGED <<pay, told, charged, sent>> /\ hpc[h] = "commit"
          /\ order' = order \/ PayOrder(h)
      BY <2>6 DEF Commit, CommitFails, platformVars
    <3>2. NewStatus(h) = "SUCCESS" => Paying(h) \in charged
      BY <3>1 DEF MoneyInv, PayTypeOK, NewStatus, Reported, Paying, Notice
    <3>3. \A o \in PayableOrder : order'[o] = "Paid" =>
                order[o] = "Paid" \/ \E n \in charged : OrderFor[n] = o
      BY <3>1, <3>2 DEF PayOrder, OrderOf, PayTypeOK
    <3> QED
      BY <3>1, <3>3, MoneyKept
  <2> QED
    BY <1>5, <2>1, <2>2, <2>3, <2>4, <2>5, <2>6 DEF HandlePayCallback
<1> QED
  BY <1>0, <1>1, <1>2, <1>3, <1>4, <1>5 DEF PayNext

\* An order is paid only with a charge and is charged once, under every fault.
THEOREM PaidOnce == PaySpec => [](PaidIsCharged /\ ChargedOnce)
<1>1. PayInit => MoneyInv
  BY PaymentAssumption DEF PayInit, MoneyInv, Exists, Absent
<1>2. PayTypeOK /\ MoneyInv => PaidIsCharged /\ ChargedOnce
  BY DEF PayTypeOK, MoneyInv, PaidIsCharged, ChargedOnce, PaymentOf
<1> QED
  BY <1>1, <1>2, PaymentTypes, MoneyStep, PTL DEF PaySpec

-------------------------------------------------------------------------------
(* The two databases. *)

\* The faults under which a transaction commits once its payment is updated.
Benign == PayFaults \subseteq {"PayError", "CommitAckLost"}

\* A payment that counts as success has its order paid, or about to be paid by the
\* call that locks it; so a cancellation, which needs the lock, finds it paid.
Agreement ==
    /\ SuccessMeansPaid
    /\ RefundMeansCancelled
    /\ \A m \in sent : m[2] = "SUCCESS"

\* A step that changes neither an order nor a payment, and ends no call that is
\* about to commit.
LEMMA AgreementKept ==
    ASSUME Agreement, UNCHANGED <<order, pay>>,
           \A m \in sent' : m[2] = "SUCCESS",
           \A g \in Handler : hpc[g] = "commit" => hpc'[g] = "commit" /\ notice'[g] = notice[g]
    PROVE  Agreement'
<1>1. \A g \in Handler : hpc[g] = "commit" =>
        hpc'[g] = "commit" /\ Paying(g)' = Paying(g) /\ NewStatus(g)' = NewStatus(g)
  BY DEF NewStatus, Reported, Paying, OrderOf
<1> QED
  BY <1>1 DEF Agreement, SuccessMeansPaid, RefundMeansCancelled

\* What the status that is to be written says of the order and the notification.
LEMMA StatusWritten ==
    ASSUME NEW h \in Handler, Reported(h) = "SUCCESS"
    PROVE  NewStatus(h) = IF order[OrderOf(h)] = "Cancel"
                          THEN "SUCCESS_BUT_ORDER_CANCELED" ELSE "SUCCESS"
  BY DEF NewStatus

LEMMA AgreementStep ==
    ASSUME PayTypeOK, Agreement, [PayNext]_payVars, Benign
    PROVE  Agreement'
<1> USE PaymentAssumption
<1>0. CASE UNCHANGED payVars
  BY <1>0, AgreementKept DEF payVars, coreVars, platformVars, callVars, Agreement
<1>1. ASSUME NEW n \in Number, PaySeckillOrder(n)
      PROVE  Agreement'
  <2>1. UNCHANGED <<order, sent, hpc, notice>>
    BY <1>1 DEF PaySeckillOrder, coreVars, callVars
  <2>2. \A g \in Handler : Paying(g)' = Paying(g) /\ NewStatus(g)' = NewStatus(g)
    BY <2>1 DEF NewStatus, Reported, Paying, OrderOf
  <2>3. \A k \in Number : pay'[k] = pay[k] \/ pay'[k].status = "CREATED"
    BY <1>1 DEF PaySeckillOrder, Created, PayTypeOK
  <2> QED
    BY <2>1, <2>2, <2>3 DEF Agreement, SuccessMeansPaid, RefundMeansCancelled
<1>2. ASSUME NEW n \in Number, Charge(n) \/ Decline(n)
      PROVE  Agreement'
  BY <1>2, AgreementKept DEF Charge, Decline, Benign, coreVars, callVars, Agreement
<1>3. ASSUME NEW o \in PayableOrder, TimePasses(o)
      PROVE  Agreement'
  BY <1>3, AgreementKept DEF TimePasses, platformVars, callVars, Agreement
<1>4. ASSUME NEW o \in PayableOrder, CancelUnpaid(o)
      PROVE  Agreement'
  <2>1. /\ rowLock[o] = None /\ order[o] = "Pending"
        /\ UNCHANGED <<pay, sent, hpc, notice>>
        /\ \A p \in PayableOrder : order'[p] = IF p = o THEN "Cancel" ELSE order[p]
    BY <1>4 DEF CancelUnpaid, platformVars, callVars, PayTypeOK
  <2>2. \A g \in Handler : hpc[g] = "commit" => OrderOf(g) \in PayableOrder /\ OrderOf(g) # o
    BY <2>1 DEF PayTypeOK, OrderOf, Paying, Notice
  <2>3. \A g \in Handler : hpc[g] = "commit" =>
            Paying(g)' = Paying(g) /\ NewStatus(g)' = NewStatus(g)
    BY <2>1, <2>2 DEF NewStatus, Reported, Paying, OrderOf
  <2>4. \A k \in Number : pay[k].status = "SUCCESS" => OrderFor[k] # o
    BY <2>1, <2>2 DEF Agreement, SuccessMeansPaid, OrderOf
  <2> QED
    BY <2>1, <2>3, <2>4 DEF Agreement, SuccessMeansPaid, RefundMeansCancelled
<1>5. ASSUME NEW h \in Handler, HandlePayCallback(h)
      PROVE  Agreement'
  <2>1. CASE \/ \E m \in Notice : Receive(h, m)
             \/ ReadPay(h) \/ LockOrder(h) \/ UpdatePayFails(h) \/ PayCrash(h)
    <3>1. UNCHANGED <<order, pay, sent>> /\ hpc[h] # "commit"
      BY <2>1 DEF Receive, ReadPay, LockOrder, UpdatePayFails, PayCrash, Benign, PayGoes,
                  coreVars, platformVars
    <3>2. \A g \in Handler \ {h} : hpc'[g] = hpc[g] /\ notice'[g] = notice[g]
      BY <2>1 DEF Receive, ReadPay, LockOrder, UpdatePayFails, PayCrash, PayGoes, PayEnds, PayTypeOK
    <3> QED
      BY <3>1, <3>2, AgreementKept DEF Agreement
  <2>2. CASE UpdatePay(h)
    <3>1. /\ UNCHANGED <<order, sent, notice>> /\ hpc[h] = "update"
          /\ hpc' = [hpc EXCEPT ![h] = "commit"]
          /\ pay' = [pay EXCEPT ![Paying(h)] = NewRow(h)]
      BY <2>2 DEF UpdatePay, PayGoes, coreVars, platformVars
    <3>2. Paying(h) \in Number /\ Reported(h) = "SUCCESS"
      BY <3>1 DEF PayTypeOK, Agreement, Paying, Reported, Notice
    <3>3. \A g \in Handler : Paying(g)' = Paying(g) /\ NewStatus(g)' = NewStatus(g)
      BY <3>1 DEF NewStatus, Reported, Paying, OrderOf
    <3>4. \A g \in Handler : hpc[g] = "commit" => hpc'[g] = "commit"
      BY <3>1 DEF PayTypeOK
    <3>5. hpc'[h] = "commit"
      BY <3>1 DEF PayTypeOK
    <3>6. \A k \in Number : pay'[k].status = IF k = Paying(h) THEN NewStatus(h)
                                                              ELSE pay[k].status
      BY <3>1, <3>2 DEF PayTypeOK, NewRow
    <3>7. SuccessMeansPaid'
      BY <3>1, <3>3, <3>4, <3>5, <3>6 DEF Agreement, SuccessMeansPaid
    <3>8. RefundMeansCancelled'
      BY <3>1, <3>2, <3>6, StatusWritten DEF Agreement, RefundMeansCancelled, OrderOf
    <3> QED
      BY <3>1, <3>7, <3>8 DEF Agreement
  <2>3. CASE Commit(h) \/ CommitFails(h)
    <3>1. UNCHANGED <<pay, sent>> /\ hpc[h] = "commit" /\ PayOrder(h)
      BY <2>3 DEF Commit, CommitFails, Benign, platformVars
    <3>2. \A g \in Handler \ {h} : hpc'[g] = hpc[g] /\ notice'[g] = notice[g]
      BY <2>3 DEF Commit, CommitFails, PayEnds, PayTypeOK
    <3>3. Paying(h) \in Number /\ Reported(h) = "SUCCESS" /\ OrderOf(h) \in PayableOrder
      BY <3>1 DEF PayTypeOK, Agreement, Paying, Reported, OrderOf, Notice
    <3>4. \A p \in PayableOrder :
            order'[p] = IF NewStatus(h) = "SUCCESS" /\ p = OrderOf(h) THEN "Paid" ELSE order[p]
      BY <3>1, <3>3 DEF PayOrder, PayTypeOK
    <3>5. \A g \in Handler \ {h} : hpc[g] = "commit" => OrderOf(g) \in PayableOrder /\ OrderOf(g) # OrderOf(h)
      BY <3>1, <3>3 DEF PayTypeOK, OrderOf, Paying, Notice
    <3>6. \A g \in Handler \ {h} : hpc[g] = "commit" =>
            Paying(g)' = Paying(g) /\ NewStatus(g)' = NewStatus(g)
      BY <3>2, <3>4, <3>5 DEF NewStatus, Reported, Paying, OrderOf
    <3>7. SuccessMeansPaid'
      BY <3>1, <3>2, <3>4, <3>6 DEF Agreement, SuccessMeansPaid, OrderOf
    <3>8. RefundMeansCancelled'
      BY <3>1, <3>3, <3>4, StatusWritten DEF Agreement, RefundMeansCancelled
    <3> QED
      BY <3>1, <3>7, <3>8 DEF Agreement
  <2> QED
    BY <1>5, <2>1, <2>2, <2>3 DEF HandlePayCallback
<1> QED
  BY <1>0, <1>1, <1>2, <1>3, <1>4, <1>5 DEF PayNext

\* Without crashes, lost commits and failed attempts the two databases agree: a
\* success is of an order that is paid, a refund of a cancelled one.
THEOREM DatabasesAgree ==
    Benign => (PaySpec => []StoresAgree)
<1> SUFFICES ASSUME Benign PROVE PaySpec => []StoresAgree
  OBVIOUS
<1>1. PayInit => Agreement
  BY DEF PayInit, Agreement, SuccessMeansPaid, RefundMeansCancelled, Absent
<1>2. PayTypeOK /\ Agreement /\ [PayNext]_payVars => Agreement'
  BY AgreementStep
<1>3. Agreement => StoresAgree
  BY DEF Agreement, StoresAgree
<1> QED
  BY <1>1, <1>2, <1>3, PaymentTypes, PTL DEF PaySpec

-------------------------------------------------------------------------------
(* Money that was taken. *)

Succeeded == {"SUCCESS", "SUCCESS_BUT_ORDER_CANCELED"}

\* What the platform was told, and what a call that is about to commit tells it, is in
\* pay_info.
AnswersInv ==
    /\ \A n \in charged : <<n, "SUCCESS">> \in sent
    /\ \A m \in answered : pay[m[1]].status \in Succeeded
    /\ \A h \in Handler : hpc[h] = "commit" => pay[Paying(h)].status \in Succeeded

\* A payment that has succeeded stays so.
LEMMA SuccessStays ==
    ASSUME PayTypeOK, Agreement, [PayNext]_payVars, NEW n \in Number,
           pay[n].status \in Succeeded
    PROVE  pay'[n].status \in Succeeded
<1> USE DEF Succeeded
<1>1. CASE UNCHANGED pay
  BY <1>1
<1>2. ASSUME NEW k \in Number, PaySeckillOrder(k) PROVE pay'[n].status \in Succeeded
  <2>1. PaymentOf(OrderFor[k]) = {} => k # n
    BY DEF PaymentOf, Exists
  <2> QED
    BY <1>2, <2>1 DEF PaySeckillOrder, PayTypeOK
<1>3. ASSUME NEW h \in Handler, UpdatePay(h) \/ UpdatePayFails(h)
      PROVE  pay'[n].status \in Succeeded
  <2>1. hpc[h] = "update"
    BY <1>3 DEF UpdatePay, UpdatePayFails
  <2>2. Paying(h) \in Number /\ Reported(h) = "SUCCESS"
    BY <2>1 DEF PayTypeOK, Agreement, Paying, Reported, Notice
  <2>3. NewRow(h).status \in Succeeded
    BY <2>2, StatusWritten DEF NewRow
  <2>4. pay' = pay \/ pay' = [pay EXCEPT ![Paying(h)] = NewRow(h)]
    BY <1>3 DEF UpdatePay, UpdatePayFails
  <2> QED
    BY <2>2, <2>3, <2>4 DEF PayTypeOK
<1> QED
  BY <1>1, <1>2, <1>3
     DEF PayNext, HandlePayCallback, Charge, Decline, TimePasses, CancelUnpaid, Receive,
         ReadPay, LockOrder, Commit, CommitFails, PayCrash, payVars

LEMMA AnswersStep ==
    ASSUME PayTypeOK, PayTypeOK', Agreement, AnswersInv, [PayNext]_payVars
    PROVE  AnswersInv'
<1> USE DEF AnswersInv
<1>0. \A m \in answered : m[1] \in Number
  BY DEF PayTypeOK, Notice
<1>1. \A h \in Handler : hpc[h] # "idle" => Paying(h) \in Number
  BY DEF PayTypeOK, Paying, Notice
<1>2. \A n \in charged' : <<n, "SUCCESS">> \in sent'
  BY DEF PayNext, PaySeckillOrder, Charge, Decline, TimePasses, CancelUnpaid,
         HandlePayCallback, Receive, ReadPay, LockOrder, UpdatePay, UpdatePayFails, Commit,
         CommitFails, PayCrash, payVars, platformVars
<1>3. \A m \in answered' : m \in answered \/ \E h \in Handler :
        m = notice[h] /\ hpc[h] # "idle" /\ pay[Paying(h)].status \in Succeeded
  BY DEF PayNext, PaySeckillOrder, Charge, Decline, TimePasses, CancelUnpaid,
         HandlePayCallback, Receive, ReadPay, LockOrder, UpdatePay, UpdatePayFails, Commit,
         CommitFails, PayCrash, payVars, platformVars, AnswerNotice, Succeeded
<1>4. \A m \in answered' : pay'[m[1]].status \in Succeeded
  BY <1>0, <1>1, <1>3, SuccessStays DEF Paying
<1>5. ASSUME NEW h \in Handler, hpc'[h] = "commit"
      PROVE  pay'[Paying(h)'].status \in Succeeded
  <2>1. \/ hpc[h] = "commit" /\ notice'[h] = notice[h]
        \/ UpdatePay(h)
    BY <1>5
       DEF PayNext, PaySeckillOrder, Charge, Decline, TimePasses, CancelUnpaid,
           HandlePayCallback, Receive, ReadPay, LockOrder, UpdatePay, UpdatePayFails, Commit,
           CommitFails, PayCrash, payVars, callVars, PayGoes, PayEnds, PayTypeOK
  <2>2. CASE hpc[h] = "commit" /\ notice'[h] = notice[h]
    BY <1>1, <2>2, SuccessStays DEF Paying
  <2>3. CASE UpdatePay(h)
    <3>1. hpc[h] = "update" /\ notice' = notice /\ pay' = [pay EXCEPT ![Paying(h)] = NewRow(h)]
      BY <2>3 DEF UpdatePay
    <3>2. Paying(h) \in Number /\ Reported(h) = "SUCCESS"
      BY <3>1 DEF PayTypeOK, Agreement, Paying, Reported, Notice
    <3>3. NewRow(h).status \in Succeeded
      BY <3>2, StatusWritten DEF NewRow, Succeeded
    <3> QED
      BY <3>1, <3>2, <3>3 DEF PayTypeOK, Paying
  <2> QED
    BY <2>1, <2>2, <2>3
<1> QED
  BY <1>2, <1>4, <1>5

\* A charge whose notification the platform sends no more has a paid order or is marked
\* for refund, or the call that pays the order is about to commit: an answer of success
\* closes no charge that nobody accounts for, and until it is given the notification
\* comes again (ChargedIsSettled is what this leads to under fairness).
MoneyInHand ==
    \A n \in charged :
        \/ <<n, "SUCCESS">> \in sent \ answered
        \/ PaySettled(n)
        \/ \E h \in Handler : hpc[h] = "commit" /\ Paying(h) = n /\ NewStatus(h) = "SUCCESS"
THEOREM ChargesAreInHand == Benign => (PaySpec => []MoneyInHand)
<1> SUFFICES ASSUME Benign PROVE PaySpec => []MoneyInHand
  OBVIOUS
<1>1. PayInit => Agreement /\ AnswersInv
  BY DEF PayInit, Agreement, SuccessMeansPaid, RefundMeansCancelled, Absent, AnswersInv
<1>2. /\ PayTypeOK /\ PayTypeOK' /\ Agreement /\ AnswersInv /\ [PayNext]_payVars
      => Agreement' /\ AnswersInv'
  BY AgreementStep, AnswersStep
<1>3. PayTypeOK /\ Agreement /\ AnswersInv => MoneyInHand
  <2> SUFFICES ASSUME PayTypeOK, Agreement, AnswersInv, NEW n \in charged,
                      <<n, "SUCCESS">> \in answered
               PROVE  \/ PaySettled(n)
                      \/ \E h \in Handler : hpc[h] = "commit" /\ Paying(h) = n
                                            /\ NewStatus(h) = "SUCCESS"
    BY DEF MoneyInHand, AnswersInv
  <2>1. n \in Number /\ pay[n].status \in Succeeded
    BY DEF PayTypeOK, AnswersInv
  <2> QED
    BY <2>1 DEF Succeeded, Agreement, SuccessMeansPaid, RefundMeansCancelled, PaySettled
<1> QED
  BY <1>1, <1>2, <1>3, PaymentTypes, PTL DEF PaySpec

\* The platform reports no failed attempt.
SuccessesOnly == \A m \in sent : m[2] = "SUCCESS"

\* What is settled stays settled: no notification that is repeated or late, no call that
\* has read the payment before and no call that fails or stops moves it or its order
\* again, unless the platform reports a failed attempt.
THEOREM SettledIsFinal ==
    "Decline" \notin PayFaults => (PaySpec => [][\A n \in Number : PaySettled(n) => PaySettled(n)']_payVars)
<1> SUFFICES ASSUME "Decline" \notin PayFaults
             PROVE  PaySpec => [][\A n \in Number : PaySettled(n) => PaySettled(n)']_payVars
  OBVIOUS
<1>1. PayInit => SuccessesOnly
  BY DEF PayInit, SuccessesOnly
<1>2. SuccessesOnly /\ [PayNext]_payVars => SuccessesOnly'
  BY DEF SuccessesOnly, PayNext, PaySeckillOrder, Charge, Decline, TimePasses, CancelUnpaid,
         HandlePayCallback, Receive, ReadPay, LockOrder, UpdatePay, UpdatePayFails, Commit,
         CommitFails, PayCrash, payVars, platformVars
<1>3. PayTypeOK /\ SuccessesOnly /\ [PayNext]_payVars
      => [\A n \in Number : PaySettled(n) => PaySettled(n)']_payVars
  <2> SUFFICES ASSUME PayTypeOK, SuccessesOnly, PayNext, NEW n \in Number, PaySettled(n)
               PROVE  PaySettled(n)'
    OBVIOUS
  <2>0. OrderFor[n] \in PayableOrder /\ pay[n].status \in Succeeded
    BY PaymentAssumption DEF PaySettled, Succeeded
  <2>1. ASSUME NEW h \in Handler, PayOrder(h), hpc[h] = "commit"
        PROVE  order'[OrderFor[n]] = order[OrderFor[n]]
    <3>1. Reported(h) = "SUCCESS" /\ OrderOf(h) \in PayableOrder
      BY <2>1, PaymentAssumption DEF PayTypeOK, SuccessesOnly, Reported, OrderOf, Paying, Notice
    <3>2. NewStatus(h) = "SUCCESS" => order[OrderOf(h)] # "Cancel"
      BY <3>1, StatusWritten
    <3> QED
      BY <2>0, <2>1, <3>1, <3>2 DEF PayOrder, PaySettled, PayTypeOK
  <2>2. order'[OrderFor[n]] = order[OrderFor[n]]
    BY <2>0, <2>1
       DEF PaySettled, PayTypeOK, PayNext, PaySeckillOrder, Charge, Decline, TimePasses,
           CancelUnpaid, HandlePayCallback, Receive, ReadPay, LockOrder, UpdatePay,
           UpdatePayFails, Commit, CommitFails, PayCrash, coreVars
  <2>3. ASSUME NEW h \in Handler, UpdatePay(h) \/ UpdatePayFails(h)
        PROVE  pay'[n].status = pay[n].status
    <3>1. hpc[h] = "update"
      BY <2>3 DEF UpdatePay, UpdatePayFails
    <3>2. Paying(h) \in Number /\ Reported(h) = "SUCCESS"
      BY <3>1 DEF PayTypeOK, SuccessesOnly, Paying, Reported, Notice
    <3>3. Paying(h) = n => NewRow(h).status = pay[n].status
      BY <3>2, StatusWritten DEF NewRow, PaySettled, OrderOf
    <3>4. pay' = pay \/ pay' = [pay EXCEPT ![Paying(h)] = NewRow(h)]
      BY <2>3 DEF UpdatePay, UpdatePayFails
    <3> QED
      BY <3>2, <3>3, <3>4 DEF PayTypeOK
  <2>4. ASSUME NEW k \in Number, PaySeckillOrder(k) PROVE pay'[n].status = pay[n].status
    <3>1. PaymentOf(OrderFor[k]) = {} => k # n
      BY <2>0 DEF PaymentOf, Exists, Succeeded
    <3> QED
      BY <2>4, <3>1 DEF PaySeckillOrder, PayTypeOK
  <2>5. pay'[n].status = pay[n].status
    BY <2>3, <2>4
       DEF PayNext, HandlePayCallback, Charge, Decline, TimePasses, CancelUnpaid, Receive,
           ReadPay, LockOrder, Commit, CommitFails, PayCrash
  <2> QED
    BY <2>2, <2>5 DEF PaySettled
<1> QED
  BY <1>1, <1>2, <1>3, PaymentTypes, PTL DEF PaySpec

-------------------------------------------------------------------------------
(* Checkout. *)

\* A part of an amount rounded down to a cent, and the rest of it rounded up.
LEMMA Percentage ==
    ASSUME NEW a \in Nat, NEW v \in 0 .. 100
    PROVE  LET d == (a * (100 - v)) \div 100
           IN  /\ d \in Nat /\ d <= a
               /\ 100 * (a - d) >= a * v
               /\ 100 * ((a - d) - 1) < a * v
<1> DEFINE x == a * (100 - v)
           y == a * v
           d == x \div 100
<1>1. x \in Nat /\ y \in Nat
  <2>1. 100 - v \in Nat /\ v \in Nat
    OBVIOUS
  <2>2. \A i, j \in Nat : i * j \in Nat
    OBVIOUS
  <2> QED
    BY <2>1, <2>2
<1>2. x + y = 100 * a
  OBVIOUS
<1>3. d \in Nat /\ 100 * d <= x /\ x < 100 * d + 100
  <2> HIDE DEF x
  <2> QED
    BY <1>1
<1> HIDE DEF x, y, d
<1>4. d <= a /\ 100 * (a - d) >= y /\ 100 * ((a - d) - 1) < y
  BY <1>1, <1>2, <1>3
<1> QED
  BY <1>3, <1>4 DEF x, y, d

\* The discount leaves what is to be paid.
LEMMA DiscountLeaves ==
    ASSUME NEW c \in Coupon, NEW amount \in Nat
    PROVE  /\ Discount(c, amount) \in Nat /\ Discount(c, amount) <= amount
           /\ ToPay(c, amount, amount - Discount(c, amount))
<1>1. /\ c # None /\ Template[c].type \in {1, 2} /\ Template[c].value \in Nat
      /\ Template[c].type = 2 => Template[c].value \in 0 .. 100
  BY CheckoutAssumption
<1>2. CASE Template[c].type = 1
  BY <1>1, <1>2 DEF Discount, ToPay
<1>3. CASE Template[c].type = 2
  <2> DEFINE v == Template[c].value
             d == (amount * (100 - v)) \div 100
  <2>1. v \in 0 .. 100
    BY <1>1, <1>3
  <2>2. Discount(c, amount) = d
    BY <1>3 DEF Discount
  <2>3. ToPay(c, amount, amount - d) <=>
            /\ 100 * (amount - d) >= amount * v
            /\ 100 * ((amount - d) - 1) < amount * v
    <3> HIDE DEF d
    <3> QED
      BY <1>1, <1>3 DEF ToPay
  <2>4. /\ d \in Nat /\ d <= amount
        /\ 100 * (amount - d) >= amount * v
        /\ 100 * ((amount - d) - 1) < amount * v
    <3> HIDE DEF v
    <3> QED
      BY Zenon, <2>1, Percentage
  <2> HIDE DEF v, d
  <2> QED
    BY Zenon, <2>2, <2>3, <2>4
<1> QED
  BY <1>1, <1>2, <1>3

\* What is written down of an order, place by place: each amount follows from the
\* price the call has read.
Quoted(o, m) ==
    /\ m \in Amounts
    /\ m.order = OrderAmount(o)
    /\ m.discount <= m.order
    /\ m.final = m.order - m.discount
    /\ ToPay(request[o].coupon, OrderAmount(o), m.final)

OrderWritten(o) ==
    /\ step[o] # "new" => quote[o] \in Price
    /\ step[o] \in {"sent", "pending", "paid", "cancel"} => Quoted(o, message[o])
    /\ step[o] \in {"pending", "paid", "cancel"} => orderAmounts[o] = message[o]
    /\ payAmount[o] # None => /\ step[o] \in {"pending", "paid", "cancel"}
                              /\ payAmount[o] = orderAmounts[o].final
    /\ step[o] = "paid" => payAmount[o] # None

CheckoutInv == CheckoutTypeOK /\ \A o \in CheckoutOrder : OrderWritten(o)

LEMMA CheckoutInitOK == CheckoutInit => CheckoutInv
  BY DEF CheckoutInit, CheckoutTypeOK, CheckoutInv, OrderWritten

\* Nothing is filled in that the message has.
LEMMA FilledInAsSent ==
    ASSUME NEW o, NEW m, Quoted(o, m)
    PROVE  FilledIn(m) = m
  BY DEF Quoted, FilledIn, Amounts

LEMMA AmountType ==
    ASSUME CheckoutTypeOK, NEW o \in CheckoutOrder, quote[o] \in Price
    PROVE  OrderAmount(o) \in Nat
<1>1. quote[o] \in Nat /\ request[o].quantity \in Nat
  BY CheckoutAssumption DEF CheckoutTypeOK
<1>2. \A i, j \in Nat : i * j \in Nat
  OBVIOUS
<1> QED
  BY <1>1, <1>2 DEF OrderAmount

\* What is quoted stays so while the price that was read and the request do.
LEMMA QuotedStays ==
    ASSUME NEW o \in CheckoutOrder, NEW m, Quoted(o, m), quote'[o] = quote[o],
           UNCHANGED request
    PROVE  Quoted(o, m)'
  BY DEF Quoted, OrderAmount, ToPay, Amounts

\* A step that leaves one order as it is.
LEMMA OtherOrders ==
    ASSUME NEW o \in CheckoutOrder, OrderWritten(o), UNCHANGED request,
           step'[o] = step[o], quote'[o] = quote[o], message'[o] = message[o],
           orderAmounts'[o] = orderAmounts[o], payAmount'[o] = payAmount[o]
    PROVE  OrderWritten(o)'
  BY QuotedStays DEF OrderWritten

\* What a call whose coupon is applied, or refused, does besides its message.
LEMMA CouponMoves ==
    ASSUME NEW o \in CheckoutOrder, ApplyCoupon(o)
    PROVE  /\ \E to \in {"sent", "refused"} : StepGoes(o, "priced", to)
           /\ spent' = spent \/ (request[o].coupon # None
                                 /\ spent' = spent \cup {request[o].coupon})
           /\ UNCHANGED <<price, cached, request, quote, orderAmounts, payAmount>>
BY Zenon DEF ApplyCoupon

\* Types.
LEMMA CheckoutTypeStep ==
    ASSUME CheckoutInv, CheckoutNext
    PROVE  CheckoutTypeOK'
<1> USE CheckoutAssumption DEF CheckoutInv, CheckoutTypeOK, StepGoes
<1>1. ASSUME NEW p \in Price, SetPrice(p) PROVE CheckoutTypeOK'
  BY <1>1 DEF SetPrice
<1>2. CASE Invalidate
  BY <1>2 DEF Invalidate
<1>3. ASSUME NEW o \in CheckoutOrder, ReadPrice(o) PROVE CheckoutTypeOK'
  <2>1. (IF cached # None THEN cached ELSE price) \in Price
    OBVIOUS
  <2>2. quote' \in [CheckoutOrder -> Price \cup {None}] /\ quote'[o] \in Price
    BY <1>3, <2>1 DEF ReadPrice
  <2> QED
    BY <1>3, <2>2 DEF ReadPrice
<1>4. ASSUME NEW o \in CheckoutOrder, ApplyCoupon(o) PROVE CheckoutTypeOK'
  <2>1. quote[o] \in Price
    BY <1>4 DEF ApplyCoupon, OrderWritten
  <2>2. OrderAmount(o) \in Nat
    BY <2>1, AmountType
  <2>3. request[o].coupon \in Coupon \cup {None}
    OBVIOUS
  <2>4. ASSUME NEW d \in Nat, d <= OrderAmount(o)
        PROVE  [order |-> OrderAmount(o), discount |-> d, final |-> OrderAmount(o) - d] \in Amounts
    BY <2>2, <2>4 DEF Amounts
  <2>5. message' \in [CheckoutOrder -> Amounts \cup {None}]
    <3> DEFINE c == request[o].coupon
               amount == OrderAmount(o)
               asked(d) == [order |-> amount, discount |-> d, final |-> amount - d]
    <3>1. \/ message' = [message EXCEPT ![o] = asked(0)]
          \/ c # None /\ message' = [message EXCEPT ![o] = asked(Discount(c, amount))]
          \/ UNCHANGED message
      BY <1>4 DEF ApplyCoupon
    <3>2. \A d \in Nat : d <= amount => asked(d) \in Amounts
      BY <2>4
    <3>3. c # None => Discount(c, amount) \in Nat /\ Discount(c, amount) <= amount
      BY <2>2, <2>3, DiscountLeaves
    <3>4. 0 \in Nat /\ 0 <= amount
      BY <2>2
    <3> HIDE DEF asked, c, amount
    <3> QED
      BY <3>1, <3>2, <3>3, <3>4
  <2>6. step' \in [CheckoutOrder -> {"new", "priced", "sent", "pending", "paid", "cancel",
                                     "refused"}]
    BY <1>4, CouponMoves
  <2>7. spent' \subseteq Coupon
    BY <1>4, <2>3, CouponMoves
  <2> QED
    BY <1>4, <2>5, <2>6, <2>7, CouponMoves
<1>5. ASSUME NEW o \in CheckoutOrder, CheckoutFails(o) \/ CancelUnpaidOrder(o)
      PROVE  CheckoutTypeOK'
  BY <1>5 DEF CheckoutFails, CancelUnpaidOrder
<1>6. ASSUME NEW o \in CheckoutOrder, ConfirmSeckillOrder(o) PROVE CheckoutTypeOK'
  <2>1. Quoted(o, message[o])
    BY <1>6 DEF ConfirmSeckillOrder, OrderWritten
  <2>2. FilledIn(message[o]) \in Amounts
    BY <2>1, FilledInAsSent DEF Quoted
  <2> QED
    BY <1>6, <2>2 DEF ConfirmSeckillOrder
<1>7. ASSUME NEW o \in CheckoutOrder, CreatePayment(o) PROVE CheckoutTypeOK'
  <2>1. orderAmounts[o] \in Amounts
    BY <1>7 DEF CreatePayment, OrderWritten, Quoted
  <2>2. orderAmounts[o].final \in Nat
    BY <2>1 DEF Amounts
  <2> QED
    BY <1>7, <2>2 DEF CreatePayment
<1>8. ASSUME NEW o \in CheckoutOrder, HandleCharge(o) PROVE CheckoutTypeOK'
  BY <1>8 DEF HandleCharge
<1> QED
  BY <1>1, <1>2, <1>3, <1>4, <1>5, <1>6, <1>7, <1>8 DEF CheckoutNext

\* Each place writes what the one before it had.
LEMMA WrittenStep ==
    ASSUME CheckoutInv, CheckoutNext, NEW o \in CheckoutOrder
    PROVE  OrderWritten(o)'
<1> USE CheckoutAssumption DEF CheckoutTypeOK, StepGoes
<1>0. CheckoutTypeOK /\ OrderWritten(o)
  BY DEF CheckoutInv
<1>1. CASE Invalidate \/ \E p \in Price : SetPrice(p)
  BY <1>0, <1>1, OtherOrders DEF Invalidate, SetPrice
<1>2. ASSUME NEW p \in CheckoutOrder, p # o,
             \/ ReadPrice(p) \/ ApplyCoupon(p) \/ CheckoutFails(p) \/ ConfirmSeckillOrder(p)
             \/ CreatePayment(p) \/ HandleCharge(p) \/ CancelUnpaidOrder(p)
      PROVE  OrderWritten(o)'
  <2>1. /\ UNCHANGED request
        /\ step'[o] = step[o] /\ quote'[o] = quote[o] /\ message'[o] = message[o]
        /\ orderAmounts'[o] = orderAmounts[o] /\ payAmount'[o] = payAmount[o]
    BY <1>0, <1>2
       DEF ReadPrice, ApplyCoupon, CheckoutFails, ConfirmSeckillOrder, CreatePayment,
           HandleCharge, CancelUnpaidOrder
  <2> QED
    BY <1>0, <2>1, OtherOrders
<1>3. CASE ReadPrice(o)
  <2>1. (IF cached # None THEN cached ELSE price) \in Price
    BY <1>0
  <2>2. quote'[o] \in Price /\ step'[o] = "priced" /\ payAmount'[o] = None
    BY <1>0, <1>3, <2>1 DEF ReadPrice, OrderWritten
  <2> QED
    BY <2>2 DEF OrderWritten
<1>4. CASE ApplyCoupon(o)
  <2>1. quote[o] \in Price /\ quote'[o] \in Price /\ payAmount'[o] = None
    BY <1>0, <1>4 DEF ApplyCoupon, OrderWritten
  <2>2. OrderAmount(o) \in Nat /\ OrderAmount(o)' = OrderAmount(o)
    BY <1>0, <1>4, <2>1, AmountType DEF ApplyCoupon, OrderAmount
  <2>3. CASE step'[o] = "refused"
    BY <2>1, <2>3 DEF OrderWritten
  <2>4. ASSUME NEW d \in Nat, d <= OrderAmount(o), step'[o] = "sent",
               message'[o] = [order |-> OrderAmount(o), discount |-> d,
                              final |-> OrderAmount(o) - d],
               ToPay(request[o].coupon, OrderAmount(o), OrderAmount(o) - d)
        PROVE  OrderWritten(o)'
    <3>1. message'[o] \in Amounts
      BY <2>2, <2>4 DEF Amounts
    <3>2. /\ message'[o].order = OrderAmount(o) /\ message'[o].discount = d
          /\ message'[o].final = OrderAmount(o) - d
      BY <2>4
    <3>3. ToPay(request[o].coupon, OrderAmount(o), message[o].final)'
      BY <1>4, <2>2, <2>4, <3>2 DEF ApplyCoupon, ToPay
    <3>4. Quoted(o, message[o])'
      BY <2>2, <2>4, <3>1, <3>2, <3>3 DEF Quoted, Amounts
    <3> QED
      BY <2>1, <2>4, <3>4 DEF OrderWritten
  <2>5. CASE request[o].coupon = None /\ step'[o] = "sent"
    <3>1. message'[o] = [order |-> OrderAmount(o), discount |-> 0,
                         final |-> OrderAmount(o) - 0]
      BY <1>0, <1>4, <2>5 DEF ApplyCoupon
    <3>2. ToPay(request[o].coupon, OrderAmount(o), OrderAmount(o) - 0)
      BY <2>2, <2>5 DEF ToPay
    <3> QED
      BY <2>2, <2>4, <2>5, <3>1, <3>2
  <2>6. CASE request[o].coupon # None /\ step'[o] = "sent"
    <3> DEFINE c == request[o].coupon
               d == Discount(c, OrderAmount(o))
    <3>1. message'[o] = [order |-> OrderAmount(o), discount |-> d,
                         final |-> OrderAmount(o) - d]
      BY <1>0, <1>4, <2>6 DEF ApplyCoupon
    <3>2. c \in Coupon
      BY <1>0, <2>6
    <3>3. d \in Nat /\ d <= OrderAmount(o) /\ ToPay(c, OrderAmount(o), OrderAmount(o) - d)
      BY <2>2, <3>2, DiscountLeaves
    <3> QED
      BY <2>4, <2>6, <3>1, <3>3
  <2> QED
    BY <1>0, <1>4, <2>3, <2>5, <2>6 DEF ApplyCoupon
<1>5. CASE CheckoutFails(o)
  <2>1. step'[o] = "refused" /\ quote'[o] \in Price /\ payAmount'[o] = None
    BY <1>0, <1>5 DEF CheckoutFails, OrderWritten
  <2> QED
    BY <2>1 DEF OrderWritten
<1>6. CASE ConfirmSeckillOrder(o)
  <2>1. Quoted(o, message[o]) /\ Quoted(o, message[o])'
    BY <1>0, <1>6, QuotedStays DEF ConfirmSeckillOrder, OrderWritten
  <2>2. orderAmounts'[o] = message'[o]
    BY <1>0, <1>6, <2>1, FilledInAsSent DEF ConfirmSeckillOrder
  <2>3. quote'[o] \in Price /\ step'[o] = "pending" /\ payAmount'[o] = None
    BY <1>0, <1>6 DEF ConfirmSeckillOrder, OrderWritten
  <2> QED
    BY <2>1, <2>2, <2>3 DEF OrderWritten
<1>7. CASE CreatePayment(o)
  <2>1. Quoted(o, message[o])'
    BY <1>0, <1>7, QuotedStays DEF CreatePayment, OrderWritten
  <2>2. payAmount'[o] = orderAmounts[o].final
    BY <1>0, <1>7 DEF CreatePayment
  <2> QED
    BY <1>0, <1>7, <2>1, <2>2 DEF CreatePayment, OrderWritten
<1>8. CASE HandleCharge(o) \/ CancelUnpaidOrder(o)
  <2>1. Quoted(o, message[o])'
    BY <1>0, <1>8, QuotedStays DEF HandleCharge, CancelUnpaidOrder, OrderWritten
  <2>2. step'[o] \in {"paid", "cancel"} /\ (step'[o] = "paid" => payAmount[o] # None)
    BY <1>0, <1>8 DEF HandleCharge, CancelUnpaidOrder
  <2> QED
    BY <1>0, <1>8, <2>1, <2>2 DEF HandleCharge, CancelUnpaidOrder, OrderWritten
<1> QED
  BY <1>1, <1>2, <1>3, <1>4, <1>5, <1>6, <1>7, <1>8 DEF CheckoutNext

LEMMA CheckoutStep ==
    ASSUME CheckoutInv, [CheckoutNext]_checkoutVars
    PROVE  CheckoutInv'
<1>1. CASE CheckoutNext
  BY <1>1, CheckoutTypeStep, WrittenStep DEF CheckoutInv
<1>2. CASE UNCHANGED checkoutVars
  <2>1. CheckoutTypeOK'
    BY <1>2 DEF checkoutVars, CheckoutInv, CheckoutTypeOK
  <2>2. \A o \in CheckoutOrder : OrderWritten(o)'
    BY <1>2, OtherOrders DEF checkoutVars, CheckoutInv
  <2> QED
    BY <2>1, <2>2 DEF CheckoutInv
<1> QED
  BY <1>1, <1>2

LEMMA CheckoutInvariant == CheckoutSpec => []CheckoutInv
  BY CheckoutInitOK, CheckoutStep, PTL DEF CheckoutSpec

\* Whatever coupon, price and quantity, and however often the price is edited
\* meanwhile, a paid order was charged what the price its call read comes to.
THEOREM AlwaysChargedAsQuoted == CheckoutSpec => [](CheckoutTypeOK /\ ChargedAsQuoted)
<1>1. CheckoutInv => CheckoutTypeOK /\ ChargedAsQuoted
  <2> SUFFICES ASSUME CheckoutInv, NEW o \in CheckoutOrder, step[o] = "paid"
               PROVE  ToPay(request[o].coupon, OrderAmount(o), payAmount[o])
    BY DEF CheckoutInv, ChargedAsQuoted
  <2>1. OrderWritten(o)
    BY DEF CheckoutInv
  <2> QED
    BY <2>1 DEF OrderWritten, Quoted
<1> QED
  BY <1>1, CheckoutInvariant, PTL

-------------------------------------------------------------------------------
(* CouponWallet.  Grants keep the books of the templates under every fault: the locks of
   the search for the template let one transaction at a time past it, which is what the
   missing unique keys and the old snapshot would not do. *)

Inside(c) == grantPc[c] \in {"grant", "count"}

\* Whoever is past the search has the lock of the rows, or the gap to itself; who
\* has found nothing has locked that nothing.
LockInv ==
    /\ \A c \in Call : grantPc[c] \in {"create", "grant", "count"} => templateLock = c \/ c \in gap
    /\ \A c \in Call : templateLock = c \/ c \in gap => grantPc[c] \in {"create", "grant", "count"}
    /\ gap # {} => Rows = {} /\ templateLock = None
    /\ \A c \in Call : Inside(c) => templateLock = c \/ gap = {c}
    /\ \A c \in Call : rowOf[c] # None => Inside(c)
    /\ \A c \in Call : Inside(c) =>
        \/ rowOf[c] \in Rows /\ coupon[rowOf[c]].scene = SceneOf[c]
        \/ rowOf[c] \notin Rows /\ \A r \in Rows : coupon[r].scene # SceneOf[c]
    /\ \A c \in Call : grantPc[c] = "create" => \A r \in Rows : coupon[r].scene # SceneOf[c]

\* What is in the two tables, and what was answered.
BookInv ==
    /\ IsFiniteSet(granted)
    /\ \A g \in granted : g.row \in Rows
    /\ \A g, h \in granted : g.key = h.key => g = h
    /\ \A c \in Call : grantPc[c] = "count" => Key(c) \notin Keys
    /\ \A c \in Call : grantPc[c] = "done" => answer[c] \in granted /\ answer[c].key = Key(c)
    /\ CountConserved

WalletInv == WalletTypeOK /\ LockInv /\ OneTemplate /\ BookInv

\* One call at a time is past the search.
LEMMA OneInside ==
    ASSUME LockInv, NEW c \in Call, NEW d \in Call, Inside(c),
           grantPc[d] \in {"create", "grant", "count"}
    PROVE  c = d
BY WalletAssumption DEF LockInv

-------------------------------------------------------------------------------
(* A transaction that is rolled back. *)

LEMMA RollBackStep ==
    ASSUME WalletInv, NEW c \in Call,
           NEW from \in {"start", "template", "create", "grant", "count"},
           RollsBack(c, from)
    PROVE  WalletInv'
<1> USE WalletAssumption
<1>1. WalletTypeOK'
  BY DEF WalletInv, WalletTypeOK, RollsBack, CallGoes, TxEnds, TemplateRow, UserCoupon
<1>2. LockInv'
  BY DEF WalletInv, WalletTypeOK, LockInv, Inside, Rows, RollsBack, CallGoes, TxEnds
<1>3. OneTemplate'
  BY DEF WalletInv, OneTemplate, Rows, RollsBack
<1>4. BookInv'
  BY DEF WalletInv, WalletTypeOK, BookInv, CountConserved, Rows, Keys, Key, RollsBack, CallGoes
<1> QED
  BY <1>1, <1>2, <1>3, <1>4 DEF WalletInv

-------------------------------------------------------------------------------
(* A transaction that commits. *)

\* What a committed grant does to the template it is of and to the others.
LEMMA WrittenBooks ==
    ASSUME WalletInv, NEW c \in Call, grantPc[c] = "count", Remain(c) > 0, Written(c)
    PROVE  /\ Rows' = Rows \cup {rowOf[c]}
           /\ granted' = granted \cup {Grant(c)} /\ Grant(c) \notin granted
           /\ Grant(c) \in UserCoupon
           /\ IsFiniteSet(granted')
           /\ CountConserved'
<1> USE WalletAssumption
<1> DEFINE Of(G, r) == {g \in G : g.row = r}
<1>1. rowOf[c] \in TemplateId /\ Remain(c) \in 1 .. Total
  BY DEF WalletInv, WalletTypeOK, Remain, TemplateRow
<1>2. Rows' = Rows \cup {rowOf[c]}
  BY <1>1 DEF WalletInv, WalletTypeOK, Rows, Written, TemplateRow
<1>3. Grant(c) \in UserCoupon /\ Grant(c).row = rowOf[c] /\ Grant(c).key = Key(c)
  BY <1>1 DEF Grant, UserCoupon
<1>4. Grant(c) \notin granted
  BY <1>3 DEF WalletInv, BookInv, Keys
<1>5. granted' = granted \cup {Grant(c)}
  BY DEF Written
<1>6. IsFiniteSet(granted')
  BY <1>5, FS_AddElement DEF WalletInv, BookInv
<1>7. \A r \in TemplateId : IsFiniteSet(Of(granted, r)) /\ Cardinality(Of(granted, r)) \in Nat
  <2> SUFFICES ASSUME NEW r \in TemplateId
               PROVE  IsFiniteSet(Of(granted, r)) /\ Cardinality(Of(granted, r)) \in Nat
    OBVIOUS
  <2>1. Of(granted, r) \subseteq granted
    OBVIOUS
  <2> QED
    BY <2>1, FS_Subset, FS_CardinalityType DEF WalletInv, BookInv
<1>8. Remain(c) + Cardinality(Of(granted, rowOf[c])) = Total
  <2>1. CASE rowOf[c] \in Rows
    BY <2>1 DEF WalletInv, BookInv, CountConserved, Remain, Rows
  <2>2. CASE rowOf[c] \notin Rows
    <3>1. Of(granted, rowOf[c]) = {}
      BY <2>2 DEF WalletInv, BookInv
    <3>2. Remain(c) = Total
      BY <1>1, <2>2 DEF Remain, Rows
    <3> QED
      <4> HIDE DEF Of
      <4> QED
        BY <3>1, <3>2, FS_EmptySet
  <2> QED
    BY <2>1, <2>2
<1>9. ASSUME NEW r \in Rows'
      PROVE  coupon'[r].remain + Cardinality(Of(granted', r)) = Total
  <2>1. CASE r = rowOf[c]
    <3>1. Of(granted', r) = Of(granted, r) \cup {Grant(c)}
      BY <1>3, <1>5, <2>1
    <3>2. Grant(c) \notin Of(granted, r)
      BY <1>4
    <3>3. Cardinality(Of(granted', r)) = Cardinality(Of(granted, r)) + 1
      <4>1. IsFiniteSet(Of(granted, r))
        BY <1>1, <1>7, <2>1
      <4> DEFINE g == Grant(c)
                 S == Of(granted, r)
      <4>2. Cardinality(S \cup {g}) = Cardinality(S) + 1
        <5>1. IsFiniteSet(S) /\ g \notin S
          BY <3>2, <4>1
        <5> HIDE DEF g, S
        <5> QED
          BY <5>1, FS_AddElement
      <4> QED
        BY <3>1, <4>2
    <3>4. coupon'[r].remain = Remain(c) - 1
      BY <1>1, <2>1 DEF WalletInv, WalletTypeOK, Written
    <3> QED
      <4> HIDE DEF Of
      <4> QED
        BY <1>1, <1>7, <1>8, <2>1, <3>3, <3>4
  <2>2. CASE r # rowOf[c]
    <3>1. Of(granted', r) = Of(granted, r)
      BY <1>3, <1>5, <2>2
    <3>2. r \in Rows /\ coupon'[r] = coupon[r]
      BY <1>2, <2>2 DEF WalletInv, WalletTypeOK, Written, Rows
    <3> QED
      BY <3>1, <3>2 DEF WalletInv, BookInv, CountConserved
  <2> QED
    BY <2>1, <2>2
<1>10. CountConserved'
  BY <1>9 DEF CountConserved
<1> QED
  BY <1>2, <1>3, <1>4, <1>5, <1>6, <1>10

LEMMA CommitStep ==
    ASSUME WalletInv, NEW c \in Call, grantPc[c] = "count", Remain(c) > 0, Written(c),
           TxEnds(c),
           \/ CallGoes(c, "count", "done") /\ answer' = [answer EXCEPT ![c] = Grant(c)]
           \/ CallGoes(c, "count", "failed") /\ UNCHANGED answer
    PROVE  WalletInv'
<1> USE WalletAssumption
<1>1. rowOf[c] \in TemplateId /\ Remain(c) \in 1 .. Total
  BY DEF WalletInv, WalletTypeOK, Remain, TemplateRow
<1>2. coupon' = [coupon EXCEPT ![rowOf[c]] =
                   [scene |-> SceneOf[c], remain |-> Remain(c) - 1]]
  BY DEF Written
<1>3. WalletTypeOK'
  <2>1. coupon' \in [TemplateId -> TemplateRow \cup {None}]
    BY <1>1, <1>2 DEF WalletInv, WalletTypeOK, TemplateRow
  <2>2. granted' \subseteq UserCoupon
    BY WrittenBooks DEF WalletInv, WalletTypeOK
  <2>3. answer' \in [Call -> UserCoupon \cup {None}]
    BY WrittenBooks DEF WalletInv, WalletTypeOK
  <2>4. grantPc' \in [Call -> {"start", "template", "create", "grant", "count",
                               "done", "failed"}]
    BY DEF WalletInv, WalletTypeOK, CallGoes
  <2>5. /\ seen' \in [Call -> SUBSET {Key(d) : d \in Call}]
        /\ rowOf' \in [Call -> TemplateId \cup {None}]
    BY Zenon DEF WalletInv, WalletTypeOK, TxEnds
  <2>6. templateLock' \in Call \cup {None} /\ gap' \subseteq Call
    BY DEF WalletInv, WalletTypeOK, TxEnds
  <2>7. ASSUME NEW d \in Call, grantPc'[d] \in {"grant", "count"}
        PROVE  rowOf'[d] \in TemplateId
    <3>1. d # c
      BY <2>7 DEF WalletInv, WalletTypeOK, CallGoes
    <3>2. grantPc'[d] = grantPc[d]
      BY <3>1 DEF WalletInv, WalletTypeOK, CallGoes
    <3>3. rowOf'[d] = rowOf[d]
      BY <3>1 DEF WalletInv, WalletTypeOK, TxEnds
    <3> QED
      BY <2>7, <3>2, <3>3 DEF WalletInv, WalletTypeOK
  <2> QED
    BY <2>1, <2>2, <2>3, <2>4, <2>5, <2>6, <2>7 DEF WalletTypeOK
<1>4. Rows' = Rows \cup {rowOf[c]}
  BY WrittenBooks
<1>5. \A d \in Call : grantPc[d] \in {"create", "grant", "count"} => d = c
  BY OneInside DEF WalletInv, Inside
<1>6. \A d \in Call : d # c => rowOf[d] = None
  BY <1>5 DEF WalletInv, LockInv, Inside
<1>7. LockInv'
  BY <1>3, <1>5, <1>6 DEF WalletInv, WalletTypeOK, LockInv, Inside, CallGoes, TxEnds
<1>8. \A r \in Rows' : r = rowOf[c] \/ (r \in Rows /\ coupon'[r] = coupon[r])
  BY <1>1, <1>2, <1>4 DEF WalletInv, WalletTypeOK, Rows
<1>9. coupon'[rowOf[c]].scene = SceneOf[c]
  BY <1>1, <1>2 DEF WalletInv, WalletTypeOK
<1>10. OneTemplate'
  BY <1>8, <1>9 DEF WalletInv, LockInv, Inside, OneTemplate
<1>11. Grant(c) \in granted' /\ Grant(c).row = rowOf[c] /\ Grant(c).key = Key(c)
  BY WrittenBooks DEF Grant
<1>12. \A g \in granted' : g = Grant(c) \/ g \in granted
  BY WrittenBooks
<1>13. BookInv'
  <2>1. \A g \in granted' : g.row \in Rows'
    BY <1>4, <1>11, <1>12 DEF WalletInv, BookInv
  <2>2. \A g, h \in granted' : g.key = h.key => g = h
    BY <1>11, <1>12 DEF WalletInv, BookInv, Keys
  <2>3. \A d \in Call : grantPc'[d] # "count"
    BY <1>5 DEF WalletInv, WalletTypeOK, CallGoes
  <2>4. \A d \in Call : grantPc'[d] = "done" => answer'[d] \in granted' /\ answer'[d].key = Key(d)
    BY <1>11, WrittenBooks DEF WalletInv, WalletTypeOK, BookInv, CallGoes
  <2> QED
    BY <2>1, <2>2, <2>3, <2>4, WrittenBooks DEF BookInv, Key
<1> QED
  BY <1>3, <1>7, <1>10, <1>13 DEF WalletInv

-------------------------------------------------------------------------------
(* The statements before. *)

LEMMA FindExistingStep ==
    ASSUME WalletInv, NEW c \in Call, FindExisting(c)
    PROVE  WalletInv'
<1> USE WalletAssumption
<1>1. WalletTypeOK'
  BY DEF WalletInv, WalletTypeOK, FindExisting, CallGoes, Keys, UserCoupon, TemplateRow
<1>2. LockInv'
  BY DEF WalletInv, WalletTypeOK, LockInv, Inside, Rows, FindExisting, CallGoes
<1>3. OneTemplate' /\ BookInv'
  BY DEF WalletInv, WalletTypeOK, OneTemplate, BookInv, CountConserved, Rows, Keys, Key,
         FindExisting, CallGoes
<1> QED
  BY <1>1, <1>2, <1>3 DEF WalletInv

LEMMA FindTemplateStep ==
    ASSUME WalletInv, NEW c \in Call, FindTemplate(c)
    PROVE  WalletInv'
<1> USE WalletAssumption
<1>1. WalletTypeOK'
  BY DEF WalletInv, WalletTypeOK, FindTemplate, CallGoes, Rows, TemplateRow
<1>2. LockInv'
  BY DEF WalletInv, WalletTypeOK, LockInv, Inside, Rows, FindTemplate, Unborn, CallGoes
<1>3. OneTemplate' /\ BookInv'
  BY DEF WalletInv, WalletTypeOK, OneTemplate, BookInv, CountConserved, Rows, Keys, Key,
         FindTemplate, CallGoes
<1> QED
  BY <1>1, <1>2, <1>3 DEF WalletInv

LEMMA CreateTemplateStep ==
    ASSUME WalletInv, NEW c \in Call, CreateTemplate(c)
    PROVE  WalletInv'
<1> USE WalletAssumption
<1>1. WalletTypeOK'
  BY DEF WalletInv, WalletTypeOK, CreateTemplate, CallGoes
<1>2. LockInv'
  BY DEF WalletInv, WalletTypeOK, LockInv, Inside, Rows, CreateTemplate, CallGoes
<1>3. OneTemplate' /\ BookInv'
  BY DEF WalletInv, WalletTypeOK, OneTemplate, BookInv, CountConserved, Rows, Keys, Key,
         CreateTemplate, CallGoes
<1> QED
  BY <1>1, <1>2, <1>3 DEF WalletInv

LEMMA InsertCouponStep ==
    ASSUME WalletInv, NEW c \in Call, grantPc[c] = "grant", InsertCoupon(c)
    PROVE  WalletInv'
<1> USE WalletAssumption
<1>1. CASE Key(c) \in Keys /\ Key(c) \in seen[c]
  <2>1. WalletTypeOK'
    BY <1>1 DEF WalletInv, WalletTypeOK, InsertCoupon, CallGoes, TxEnds
  <2>2. LockInv'
    BY <1>1 DEF WalletInv, WalletTypeOK, LockInv, Inside, Rows, InsertCoupon, CallGoes, TxEnds
  <2>3. OneTemplate' /\ BookInv'
    BY <1>1 DEF WalletInv, WalletTypeOK, OneTemplate, BookInv, CountConserved, Rows, Keys,
                Key, InsertCoupon, CallGoes
  <2> QED
    BY <2>1, <2>2, <2>3 DEF WalletInv
<1>2. CASE Key(c) \in Keys /\ Key(c) \notin seen[c]
  BY <1>2, RollBackStep DEF InsertCoupon
<1>3. CASE Key(c) \notin Keys
  <2>1. WalletTypeOK'
    BY <1>3 DEF WalletInv, WalletTypeOK, InsertCoupon, CallGoes, txVars
  <2>2. LockInv'
    BY <1>3 DEF WalletInv, WalletTypeOK, LockInv, Inside, Rows, InsertCoupon, CallGoes, txVars
  <2>3. OneTemplate' /\ BookInv'
    BY <1>3 DEF WalletInv, WalletTypeOK, OneTemplate, BookInv, CountConserved, Rows, Keys,
                Key, InsertCoupon, CallGoes, txVars
  <2> QED
    BY <2>1, <2>2, <2>3 DEF WalletInv
<1> QED
  BY <1>1, <1>2, <1>3

LEMMA WalletStep ==
    ASSUME WalletInv, [WalletNext]_walletVars
    PROVE  WalletInv'
<1>1. CASE UNCHANGED walletVars
  BY <1>1 DEF walletVars, txVars, WalletInv, WalletTypeOK, LockInv, OneTemplate, BookInv,
              CountConserved, Inside, Rows, Keys, Key, TemplateRow, UserCoupon
<1>2. ASSUME NEW c \in Call, GrantUserCoupon(c)
      PROVE  WalletInv'
  <2>1. CASE FindExisting(c)
    BY <2>1, FindExistingStep
  <2>2. CASE FindTemplate(c)
    BY <2>2, FindTemplateStep
  <2>3. CASE CreateTemplate(c)
    BY <2>3, CreateTemplateStep
  <2>4. CASE Deadlock(c)
    BY <2>4, RollBackStep DEF Deadlock
  <2>5. CASE grantPc[c] = "grant" /\ InsertCoupon(c)
    BY <2>5, InsertCouponStep
  <2>6. CASE grantPc[c] = "count" /\ DecreaseCount(c)
    BY <2>6, CommitStep, RollBackStep DEF DecreaseCount
  <2>7. CASE StatementFails(c)
    BY <2>7, RollBackStep DEF StatementFails
  <2> QED
    BY <1>2, <2>1, <2>2, <2>3, <2>4, <2>5, <2>6, <2>7 DEF GrantUserCoupon
<1> QED
  BY <1>1, <1>2 DEF WalletNext, AllOver

LEMMA WalletInitOK == WalletInit => WalletInv
<1> SUFFICES ASSUME WalletInit PROVE WalletInv
  OBVIOUS
<1> USE WalletAssumption
<1>1. PICK old \in {s \in SUBSET Scene : Cardinality(s) <= Cardinality(TemplateId)} :
        \E f \in [old -> TemplateId] :
        /\ \A s, t \in old : f[s] = f[t] => s = t
        /\ coupon = [r \in TemplateId |->
             IF \E s \in old : f[s] = r
             THEN [scene |-> CHOOSE s \in old : f[s] = r, remain |-> Total]
             ELSE None]
  BY DEF WalletInit
<1>2. PICK f \in [old -> TemplateId] :
        /\ \A s, t \in old : f[s] = f[t] => s = t
        /\ coupon = [r \in TemplateId |->
             IF \E s \in old : f[s] = r
             THEN [scene |-> CHOOSE s \in old : f[s] = r, remain |-> Total]
             ELSE None]
  BY <1>1
<1>3. \A r \in TemplateId : (\E s \in old : f[s] = r) =>
        /\ (CHOOSE s \in old : f[s] = r) \in old
        /\ f[CHOOSE s \in old : f[s] = r] = r
  OBVIOUS
<1>4. \A r \in TemplateId : coupon[r] = None \/
        (coupon[r] \in TemplateRow /\ coupon[r].remain = Total /\ f[coupon[r].scene] = r)
  BY <1>2, <1>3 DEF TemplateRow
<1>5. WalletTypeOK
  BY <1>2, <1>4 DEF WalletInit, WalletTypeOK
<1>6. LockInv /\ OneTemplate
  BY <1>4 DEF WalletInit, LockInv, OneTemplate, Inside, Rows
<1>7. BookInv
  <2>1. \A r \in Rows : coupon[r].remain = Total
    BY <1>4 DEF Rows
  <2>2. \A r \in TemplateId : {g \in granted : g.row = r} = {}
    BY DEF WalletInit
  <2>3. CountConserved
    <3>1. \A r \in TemplateId : Cardinality({g \in granted : g.row = r}) = 0
      BY <2>2, FS_EmptySet
    <3> QED
      BY <2>1, <3>1 DEF CountConserved, Rows
  <2> QED
    BY <2>3, FS_EmptySet DEF WalletInit, BookInv, Keys
<1> QED
  BY <1>5, <1>6, <1>7 DEF WalletInv

LEMMA WalletInvariant == WalletSpec => []WalletInv
BY WalletInitOK, WalletStep, PTL DEF WalletSpec

-------------------------------------------------------------------------------

\* A scene never has two templates.
THEOREM TemplateOnce == WalletSpec => [](WalletTypeOK /\ OneTemplate)
<1>1. WalletInv => WalletTypeOK /\ OneTemplate
  BY DEF WalletInv
<1> QED
  BY <1>1, WalletInvariant, PTL

\* No template gives out more coupons than it has, or loses one.
THEOREM BooksBalance == WalletSpec => []CountConserved
<1>1. WalletInv => CountConserved
  BY DEF WalletInv, BookInv
<1> QED
  BY <1>1, WalletInvariant, PTL

\* An answer names the one coupon under its key.
THEOREM AnswersAreGranted == WalletSpec => []AnswerIsGranted
<1>1. WalletInv => AnswerIsGranted
  <2> SUFFICES ASSUME WalletInv, NEW c \in Call, grantPc[c] = "done"
               PROVE  {g \in granted : g.key = Key(c)} = {answer[c]}
    BY DEF AnswerIsGranted
  <2> QED
    BY DEF WalletInv, BookInv
<1> QED
  BY <1>1, WalletInvariant, PTL
===============================================================================
