--------------------------- MODULE ReservationProofs ---------------------------
(***************************************************************************)
(* What the pipeline keeps of Redis and of the coupons, under the faults   *)
(* that PipelineInvariants names: the reservations and the stock, the      *)
(* coupons, the buy marks, and the pending records.  Each part shows which *)
(* moves the steps make on what it is about, and that those moves keep its *)
(* invariant.                                                              *)
(*                                                                         *)
(* From "Messages and those who process them" on, the safety part of       *)
(* progress: as long as something is left to do for an order, somebody is  *)
(* there who does it next.                                                 *)
(***************************************************************************)
EXTENDS SeckillPipelineProofs

-------------------------------------------------------------------------------
(* Reservations, and who may still touch them. *)

\* A step of a call that sends nothing, and touches at most its own reservation:
\* it gives it back only before the message is out.
LEMMA CallKeepsHold ==
    ASSUME TypeOK, HoldInv, NEW o \in Order, NEW to,
           pc' = [pc EXCEPT ![o] = to],
           pc[o] \in SentPc => to \in SentPc,
           to \in EarlyPc => o \notin reserved',
           to \in HoldingPc => o \in reserved',
           \A p \in Order : p # o => (p \in reserved' <=> p \in reserved),
           o \in reserved /\ pc[o] \in SentPc => o \in reserved',
           UNCHANGED <<topic, dlqTopic, deadRow, order, wpc, wmsg, cpc>>
    PROVE  HoldInv'
<1> USE DEF HoldInv, TypeOK, PlaceTypeOK
<1>1. \A p \in Order : pc'[p] = IF p = o THEN to ELSE pc[p]
  OBVIOUS
<1>2. /\ \A m \in Message : m[1] \in Order
      /\ \A w \in Worker : wpc[w] # "idle" => OrderOf(w) \in Order
  BY MessageFacts, WorkerFacts
<1>3. SentFirst'
  BY <1>1, <1>2 DEF SentFirst, OrderOf, Ledger!Exists
<1>4. CallsHold'
  BY <1>1 DEF CallsHold
<1>5. \A p \in Order : p \in reserved /\ pc[p] \in SentPc => p \in reserved'
  OBVIOUS
<1>6. CancelsHold'
  BY <1>5 DEF CancelsHold, SentFirst, Ledger!Exists
<1>7. NeverFails'
  BY <1>2, <1>5 DEF NeverFails, SentFirst, Ledger!Exists, OrderOf
<1>8. OneDecides'
  <2>1. \A w \in Worker : OrderOf(w)' = OrderOf(w)
    BY DEF OrderOf
  <2>2. \A w \in Worker : wpc[w] \in KeepingPc => OrderOf(w) \in Order /\ pc[OrderOf(w)] \in SentPc
    BY <1>2 DEF SentFirst, KeepingPc
  <2>3. \A m \in Message : topic[m] = "ready" => m[1] \in Order /\ pc[m[1]] \in SentPc
    BY <1>2 DEF SentFirst
  <2> QED
    BY <1>5, <2>1, <2>2, <2>3 DEF OneDecides, Ledger!Exists
<1>9. OrderBacked'
  BY <1>5 DEF OrderBacked, Ledger!Live, SentFirst, Ledger!Exists
<1> QED
  BY <1>3, <1>4, <1>6, <1>7, <1>8, <1>9

\* The append of a new order: nothing of the order was out, and it is reserved.
LEMMA SentHolds ==
    ASSUME TypeOK, HoldInv, NEW o \in Order,
           pc[o] = "send", pc' = [pc EXCEPT ![o] = "remark"], Publish(<<o, 0>>),
           UNCHANGED <<dlqTopic, deadRow, order, reserved, wpc, wmsg, cpc>>
    PROVE  HoldInv'
<1> USE DEF HoldInv, TypeOK, PlaceTypeOK
<1> DEFINE new == <<o, 0>>
<1>1. new \in Message /\ new[1] = o
  BY MessageFacts, PipelineAssumption
<1>2. \A p \in Order : pc'[p] = IF p = o THEN "remark" ELSE pc[p]
  OBVIOUS
<1>3. /\ \A m \in Message : m[1] \in Order
      /\ \A w \in Worker : wpc[w] # "idle" => OrderOf(w) \in Order
      /\ \A w \in Worker : OrderOf(w)' = OrderOf(w)
  BY MessageFacts, WorkerFacts DEF OrderOf
<1>4. /\ o \in reserved /\ ~Ledger!Exists(o)
      /\ \A m \in Message : m[1] = o => topic[m] = "absent"
      /\ \A w \in Worker : wpc[w] # "idle" => OrderOf(w) # o
  BY DEF CallsHold, HoldingPc, SentFirst, SentPc
<1>5. \A m \in Message : topic'[m] = IF m = new THEN "ready" ELSE topic[m]
  BY <1>1, <1>4, CopyFacts DEF Publish
<1> HIDE DEF new
<1>6. SentFirst'
  BY <1>1, <1>2, <1>3, <1>5 DEF SentFirst, SentPc, Ledger!Exists
<1>7. CallsHold' /\ CancelsHold' /\ OrderBacked'
  BY <1>2 DEF CallsHold, HoldingPc, EarlyPc, CancelsHold, OrderBacked, Ledger!Live
<1>8. NeverFails'
  BY <1>1, <1>3, <1>4, <1>5 DEF NeverFails, Ledger!Exists
<1>9. OneDecides'
  BY <1>1, <1>3, <1>4, <1>5 DEF OneDecides, DecidingPc, Ledger!Exists
<1> QED
  BY <1>6, <1>7, <1>8, <1>9

\* The stock of o is taken by its call, or given back by the one who decides.
LEMMA CallHolds ==
    ASSUME TypeOK, HoldInv, HonestErrors, PlaceNext, UNCHANGED <<consumerVars, cpc>>
    PROVE  HoldInv'
<1> PICK o \in Order : Admit(o) \/ Refuse(o) \/ CallStep(o) \/ CrashCall(o)
  BY DEF PlaceNext
<1> USE DEF consumerVars, redisVars, mysqlVars, kafkaVars, sharedVars
<1> DEFINE Quiet == UNCHANGED <<topic, dlqTopic, deadRow, order, reserved, wpc, wmsg, cpc>>
<1>0. ASSUME NEW from, NEW to, Goes(o, from, to), Quiet,
             from \in SentPc => to \in SentPc, to \in EarlyPc => from \in EarlyPc,
             to \in HoldingPc => from \in HoldingPc
      PROVE  HoldInv'
  BY <1>0, CallKeepsHold DEF Goes, HoldInv, CallsHold
<1> USE <1>0 DEF SentPc, EarlyPc, HoldingPc, BestEffort, AfterRefusal
<1>1. CASE Admit(o)
  BY <1>1 DEF Admit
<1>2. CASE Refuse(o)
  BY <1>2 DEF Refuse
<1>3. CASE CrashCall(o)
  <2>1. Goes(o, pc[o], "crashed") /\ Quiet
    BY <1>3 DEF CrashCall, Goes
  <2> QED
    BY <2>1
<1>4. CASE Qualify(o)
  BY <1>4 DEF Qualify
<1>5. CASE CheckMark(o)
  BY <1>5 DEF CheckMark
<1>6. CASE CheckRecord(o)
  BY <1>6 DEF CheckRecord
<1>7. CASE ApplyCoupon(o)
  BY <1>7 DEF ApplyCoupon
<1>8. CASE DeductStock(o)
  <2>1. CASE Reserve(o) /\ pc[o] = "deduct" /\ \E to \in {"pend", "rejected"} : Goes(o, "deduct", to)
    BY <1>8, <2>1, CallKeepsHold DEF DeductStock, Reserve, Goes
  <2> QED
    BY <1>8, <2>1 DEF DeductStock, Goes
<1>9. CASE SetPending(o)
  BY <1>9 DEF SetPending
<1>10. CASE Send(o)
  <2>1. CASE Goes(o, "send", "unpend") /\ UNCHANGED topic
    BY <1>10, <2>1 DEF Send
  <2>2. CASE Goes(o, "send", "remark") /\ Publish(<<o, 0>>)
    BY <1>10, <2>2, SentHolds DEF Send, Goes
  <2> QED
    BY <1>10, <2>1, <2>2 DEF Send, SendFails, HonestErrors
<1>11. CASE RemarkBuy(o)
  BY <1>11 DEF RemarkBuy
<1>12. CASE UndoPending(o)
  BY <1>12 DEF UndoPending
<1>13. CASE UndoStock(o)
  BY <1>13, CallKeepsHold DEF UndoStock, GiveBack, Goes
<1>14. CASE UndoMark(o)
  BY <1>14 DEF UndoMark
<1>15. CASE UndoCoupon(o)
  BY <1>15 DEF UndoCoupon
<1> QED
  BY <1>1, <1>2, <1>3, <1>4, <1>5, <1>6, <1>7, <1>8, <1>9, <1>10, <1>11, <1>12,
     <1>13, <1>14, <1>15 DEF CallStep

-------------------------------------------------------------------------------

\* A step of a worker that neither confirms nor routes its message: its message is
\* left or read again, and at most the reservation of its own order is given back.
LEMMA WorkerKeepsHold ==
    ASSUME TypeOK, HoldInv, NEW w \in Worker, wpc[w] # "idle", NEW to,
           wpc' = [wpc EXCEPT ![w] = to],
           wmsg' = wmsg \/ (wmsg' = [wmsg EXCEPT ![w] = None] /\ to = "idle"),
           to \in DecidingPc => wpc[w] \in DecidingPc,
           to \in KeepingPc => wpc[w] \in KeepingPc,
           ~DeliveredOnce =>
               to \in {"idle", "ack"} \cup ConfirmingPc /\ UNCHANGED <<dlqTopic, reserved>>,
           \A m \in Message :
               \/ topic'[m] = topic[m]
               \/ /\ m = wmsg[w]
                  /\ topic'[m] \in {"passed", "done"} \/ ~DeliveredOnce,
           \/ UNCHANGED reserved
           \/ /\ wpc[w] = "restock" /\ to \notin KeepingPc
              /\ reserved' = reserved \ {OrderOf(w)},
           UNCHANGED <<deadRow, order, pc, cpc>>
    PROVE  HoldInv'
<1> USE DEF HoldInv, TypeOK, PlaceTypeOK, ConsumerTypeOK
<1> DEFINE o == OrderOf(w)
<1>1. o \in Order /\ wmsg[w] \in Message /\ wmsg[w][1] = o
  BY WorkerFacts DEF OrderOf
<1>2. \A v \in Worker : /\ wpc'[v] = IF v = w THEN to ELSE wpc[v]
                        /\ wpc'[v] # "idle" => OrderOf(v)' = OrderOf(v)
  BY DEF OrderOf
<1>3. pc[o] \in SentPc
  BY DEF SentFirst
<1>4. /\ reserved' # reserved => /\ DeliveredOnce /\ wpc[w] = "restock"
                                 /\ ~Ledger!Exists(o) /\ to \notin KeepingPc
      /\ \A p \in Order : p \in reserved /\ p \notin reserved' => p = o
  BY DEF OneDecides, DecidingPc
<1> HIDE DEF o
<1>5. SentFirst'
  BY <1>1, <1>2, <1>3 DEF SentFirst, Ledger!Exists
<1>6. CallsHold'
  BY <1>3, <1>4 DEF CallsHold, SentPc, HoldingPc, EarlyPc
<1>7. CancelsHold' /\ OrderBacked'
  BY <1>4 DEF CancelsHold, OrderBacked, Ledger!Live, Ledger!Exists
<1>8. NeverFails'
  BY <1>1, <1>2 DEF NeverFails, Ledger!Exists, o
<1>9. OneDecides'
  <2> SUFFICES ASSUME DeliveredOnce PROVE OneDecides'
    BY DEF OneDecides
  <2>1. \A m \in Message : topic'[m] = "ready" => topic[m] = "ready"
    OBVIOUS
  <2>2. \A v \in Worker : /\ wpc'[v] \in DecidingPc => wpc[v] \in DecidingPc
                          /\ wpc'[v] \in KeepingPc => wpc[v] \in KeepingPc
                          /\ wpc'[v] \in DecidingPc \cup KeepingPc => OrderOf(v)' = OrderOf(v)
    BY <1>2 DEF DecidingPc, KeepingPc
  <2>3. reserved' # reserved => wpc[w] \in DecidingPc
    BY <1>4 DEF DecidingPc
  <2>4. \A m \in Message : topic'[m] = "ready" => ~Ledger!Exists(m[1])' /\ m[1] \in reserved'
    BY <2>1, <2>3, <1>4, MessageFacts DEF OneDecides, Ledger!Exists, o
  <2>5. \A v \in Worker : wpc'[v] \in KeepingPc => OrderOf(v)' \in reserved'
    <3> SUFFICES ASSUME NEW v \in Worker, wpc'[v] \in KeepingPc
                 PROVE  OrderOf(v)' \in reserved'
      OBVIOUS
    <3>1. wpc[v] \in DecidingPc /\ OrderOf(v)' = OrderOf(v) /\ OrderOf(v) \in reserved
      BY <2>2 DEF OneDecides, DecidingPc, KeepingPc
    <3>2. OrderOf(v) \in Order
      BY <3>1, WorkerFacts DEF DecidingPc
    <3> QED
      BY <1>2, <1>4, <2>3, <3>1, <3>2 DEF OneDecides, o
  <2> QED
    BY <2>1, <2>2, <2>4, <2>5 DEF OneDecides, Ledger!Exists
<1> QED
  BY <1>5, <1>6, <1>7, <1>8, <1>9

\* A worker takes a message: it decides in its place.
LEMMA FetchHolds ==
    ASSUME TypeOK, HoldInv, NEW w \in Worker, NEW m \in Message, Fetch(w, m),
           UNCHANGED <<pc, cpc>>
    PROVE  HoldInv'
<1> USE DEF HoldInv, TypeOK, StateTypeOK, ConsumerTypeOK, Fetch, mysqlVars
<1>1. /\ m[1] \in Order
      /\ \A n \in Message : topic'[n] = IF n = m THEN "taken" ELSE topic[n]
  BY MessageFacts
<1>2. \A v \in Worker : /\ wpc'[v] = IF v = w THEN "confirm" ELSE wpc[v]
                        /\ OrderOf(v)' = IF v = w THEN m[1] ELSE OrderOf(v)
  BY DEF OrderOf
<1>3. SentFirst'
  BY <1>1, <1>2 DEF SentFirst, Ledger!Exists
<1>4. CallsHold' /\ CancelsHold' /\ OrderBacked'
  BY DEF CallsHold, CancelsHold, OrderBacked, Ledger!Live
<1>5. NeverFails'
  BY <1>1, <1>2 DEF NeverFails, ConfirmingPc, Ledger!Exists
<1>6. OneDecides'
  BY <1>1, <1>2 DEF OneDecides, DecidingPc, KeepingPc, Ledger!Exists
<1> QED
  BY <1>3, <1>4, <1>5, <1>6

\* A message passed over is read again only where messages may be.
LEMMA ResumeHolds ==
    ASSUME TypeOK, HoldInv, NEW m \in Message, ResumePassed(m),
           UNCHANGED <<pc, cpc>>
    PROVE  HoldInv'
<1> USE DEF HoldInv, TypeOK, StateTypeOK, ResumePassed, consumerVars, mysqlVars
<1>1. /\ \A n \in Message : n # m => topic'[n] = topic[n]
      /\ topic[m] = "passed"
      /\ topic'[m] \in {"ready", "done"}
      /\ DeliveredOnce => topic'[m] = "done"
  BY DEF DeliveredOnce
<1>2. \A v \in Worker : OrderOf(v)' = OrderOf(v)
  BY DEF OrderOf
<1>3. SentFirst'
  BY <1>1, <1>2 DEF SentFirst, Ledger!Exists
<1>4. CallsHold' /\ CancelsHold' /\ OrderBacked'
  BY DEF CallsHold, CancelsHold, OrderBacked, Ledger!Live
<1>5. NeverFails'
  BY <1>1, <1>2 DEF NeverFails, Ledger!Exists
<1>6. OneDecides'
  BY <1>1, <1>2 DEF OneDecides, Ledger!Exists
<1> QED
  BY <1>3, <1>4, <1>5, <1>6

\* The order is created: its worker has decided, and the order is backed.
LEMMA ConfirmHolds ==
    ASSUME TypeOK, HoldInv, NEW w \in Worker, wpc[w] = "confirm",
           Confirm(OrderOf(w)), Moves(w, "confirm", "clear"),
           UNCHANGED <<topic, dlqTopic, deadRow, reserved, pc, cpc>>
    PROVE  HoldInv'
<1> USE DEF HoldInv, TypeOK, StateTypeOK, ConsumerTypeOK, Moves
<1> DEFINE o == OrderOf(w)
<1>1. o \in Order /\ ~Ledger!Exists(o)
  BY WorkerFacts DEF Confirm, Duplicate, Clash
<1>2. o \in reserved /\ pc[o] \in SentPc
  BY <1>1 DEF NeverFails, OneDecides, KeepingPc, SentFirst
<1>3. \A v \in Worker : /\ wpc'[v] = IF v = w THEN "clear" ELSE wpc[v]
                        /\ OrderOf(v)' = OrderOf(v)
  BY DEF OrderOf
<1>4. \A p \in Order : order'[p] = IF p = o THEN "Pending" ELSE order[p]
  BY DEF Confirm
<1>5. DeliveredOnce => /\ \A m \in Message : topic[m] = "ready" => m[1] # o
              /\ \A v \in Worker : wpc[v] \in DecidingPc /\ v # w => OrderOf(v) # o
  BY DEF OneDecides, DecidingPc
<1>6. \A v \in Worker : wpc[v] # "idle" => OrderOf(v) \in Order
  BY WorkerFacts
<1> HIDE DEF o
<1>7. SentFirst'
  BY <1>2, <1>3, <1>4 DEF SentFirst, Ledger!Exists
<1>8. CallsHold' /\ CancelsHold'
  BY <1>1, <1>4 DEF CallsHold, CancelsHold, Ledger!Exists
<1>9. OrderBacked'
  BY <1>2, <1>4 DEF OrderBacked, Ledger!Live
<1>10. NeverFails'
  BY <1>2, <1>3, <1>4, <1>6, MessageFacts DEF NeverFails, ConfirmingPc, Ledger!Exists
<1>11. OneDecides'
  <2> SUFFICES ASSUME DeliveredOnce PROVE OneDecides'
    BY DEF OneDecides
  <2>1. \A v \in Worker : /\ wpc'[v] \in DecidingPc => wpc[v] \in DecidingPc /\ v # w
                          /\ wpc'[v] \in KeepingPc => wpc[v] \in KeepingPc
    BY <1>3 DEF DecidingPc, KeepingPc
  <2>2. \A p \in Order : p # o => (Ledger!Exists(p)' <=> Ledger!Exists(p))
    BY <1>4 DEF Ledger!Exists
  <2>3. \A v \in Worker : wpc[v] \in DecidingPc => OrderOf(v) \in Order
    BY <1>6 DEF DecidingPc
  <2>4. \A m \in Message : topic[m] = "ready" => ~Ledger!Exists(m[1])'
    BY <1>5, <2>2, MessageFacts DEF OneDecides
  <2>5. \A v \in Worker : wpc'[v] \in DecidingPc => ~Ledger!Exists(OrderOf(v))'
    BY <1>3, <1>5, <2>1, <2>2, <2>3 DEF OneDecides, Ledger!Exists
  <2> QED
    BY <1>3, <2>1, <2>4, <2>5 DEF OneDecides
<1> QED
  BY <1>7, <1>8, <1>9, <1>10, <1>11

\* The next attempt decides in the place of the worker that routed it.
LEMMA RouteHolds ==
    ASSUME TypeOK, HoldInv, NEW w \in Worker, wpc[w] = "route",
           Moves(w, "route", "ack"), Publish(<<OrderOf(w), RetryCount(w) + 1>>),
           UNCHANGED <<dlqTopic, deadRow, order, reserved, pc, cpc>>
    PROVE  HoldInv'
<1> USE DEF HoldInv, TypeOK, StateTypeOK, ConsumerTypeOK, Moves
<1> DEFINE o == OrderOf(w)
           next == <<o, RetryCount(w) + 1>>
<1>1. /\ o \in Order /\ o \in reserved /\ pc[o] \in SentPc /\ ~Ledger!Exists(o)
      /\ DeliveredOnce
  BY WorkerFacts DEF NeverFails, OneDecides, KeepingPc, DecidingPc, ConfirmingPc, SentFirst
<1>2. \A v \in Worker : /\ wpc'[v] = IF v = w THEN "ack" ELSE wpc[v]
                        /\ OrderOf(v)' = OrderOf(v)
  BY DEF OrderOf
<1>3. \A m \in Message :
        /\ m # next => topic'[m] = topic[m]
        /\ m = next => topic'[m] \in {"taken", "ready"}
  BY CopyFacts DEF Publish
<1>4. next[1] = o
  OBVIOUS
<1>5. /\ \A m \in Message : topic[m] = "ready" => m[1] # o
      /\ \A v \in Worker : wpc[v] \in DecidingPc /\ v # w => OrderOf(v) # o
  BY <1>1 DEF OneDecides, DecidingPc
<1> HIDE DEF o, next
<1>6. SentFirst'
  BY <1>1, <1>2, <1>3, <1>4 DEF SentFirst, Ledger!Exists
<1>7. CallsHold' /\ CancelsHold' /\ OrderBacked'
  BY DEF CallsHold, CancelsHold, OrderBacked, Ledger!Live
<1>8. NeverFails'
  BY <1>1 DEF NeverFails
<1>9. OneDecides'
  BY <1>1, <1>2, <1>3, <1>4, <1>5 DEF OneDecides, DecidingPc, KeepingPc, Ledger!Exists
<1> QED
  BY <1>6, <1>7, <1>8, <1>9

\* A worker whose order has no row finds stock for it: the reservation is a part
\* of what Redis and the reservations without an order take of available_stock.
LEMMA NeverShort ==
    ASSUME TypeOK, HoldInv, NoOverAdmission, NEW w \in Worker, wpc[w] = "confirm",
           ~Duplicate(OrderOf(w))
    PROVE  Quantity[OrderOf(w)] <= available[SkuOf[OrderOf(w)]]
<1> DEFINE o == OrderOf(w)
           k == SkuOf[o]
           open == ReservedOf(k) \ Ledger!Live
<1>1. o \in Order /\ ~Ledger!Exists(o)
  BY WorkerFacts DEF Duplicate, Clash, TypeOK
<1>2. o \in reserved
  BY <1>1 DEF HoldInv, NeverFails, OneDecides, KeepingPc
<1>3. open \in SUBSET Order /\ o \in open
  BY <1>1, <1>2 DEF ReservedOf, Ledger!Live, Ledger!Exists, TypeOK, StateTypeOK
<1>4. /\ TotalQuantity(open \ {o}) = TotalQuantity(open) - Quantity[o]
      /\ TotalQuantity(open) \in Nat /\ TotalQuantity(open \ {o}) \in Nat
  BY <1>3, Quantities
<1>5. /\ k \in Sku /\ Quantity[o] \in Nat
      /\ redisStock[k] \in Nat /\ available[k] \in Nat
  BY <1>1, OrderFacts DEF TypeOK, StateTypeOK
<1>6. redisStock[k] + TotalQuantity(open) <= available[k]
  BY <1>5 DEF NoOverAdmission
<1> QED
  BY <1>4, <1>5, <1>6

\* The steps of the consumers.
LEMMA ConsumerHolds ==
    ASSUME TypeOK, HoldInv, NoOverAdmission \/ DeliveredOnce, StockFaults, ConsumerNext,
           UNCHANGED <<pc, cpc>>
    PROVE  HoldInv'
<1> USE DEF consumerVars, redisVars, mysqlVars, kafkaVars, StockFaults
<1>1. ASSUME NEW m \in Message, ResumePassed(m) PROVE HoldInv'
  BY <1>1, ResumeHolds
<1>2. ASSUME NEW w \in Worker, WorkerStep(w) \/ CrashWorker(w) \/ Rebalance(w)
      PROVE  HoldInv'
  <2> DEFINE o == OrderOf(w)
             Frame == UNCHANGED <<deadRow, order, pc, cpc>>
  <2>0. StateTypeOK /\ ConsumerTypeOK
    BY DEF TypeOK
  \* A worker compensates only where no message is processed again.
  <2>1. wpc[w] \notin {"idle", "ack"} \cup ConfirmingPc => DeliveredOnce
    BY DEF HoldInv, NeverFails
  <2>2. ASSUME NEW from, NEW to, Moves(w, from, to), from # "idle",
               UNCHANGED topic, Frame,
               \/ UNCHANGED reserved
               \/ from = "restock" /\ to \notin KeepingPc /\ GiveBack(o),
               UNCHANGED dlqTopic \/ DeliveredOnce,
               from \in {"ack"} \cup ConfirmingPc /\ ~DeliveredOnce
                 => to \in {"ack"} \cup ConfirmingPc,
               to \in DecidingPc => from \in DecidingPc,
               to \in KeepingPc => from \in KeepingPc
        PROVE  HoldInv'
    BY <2>1, <2>2, WorkerKeepsHold DEF Moves, GiveBack, ConfirmingPc
  <2>3. ASSUME NEW outcome, Leaves(w, topic, outcome), wpc[w] # "idle", Frame,
               \/ UNCHANGED reserved
               \/ wpc[w] = "restock" /\ GiveBack(o),
               UNCHANGED dlqTopic \/ DeliveredOnce,
               outcome \in {"passed", "done"} \/ ~DeliveredOnce
        PROVE  HoldInv'
    <3>1. \A m \in Message : \/ topic'[m] = topic[m]
                             \/ m = wmsg[w] /\ topic'[m] = outcome
      BY <2>0, <2>3 DEF Leaves, StateTypeOK
    <3> QED
      BY <2>1, <2>3, <3>1, WorkerKeepsHold
         DEF Leaves, GiveBack, ConfirmingPc, DecidingPc, KeepingPc
  <2> USE DEF BestEffort
  <2>4. ASSUME NEW m \in Message, Fetch(w, m) PROVE HoldInv'
    BY <2>4, FetchHolds
  <2>5. CASE ConfirmTx(w)
    <3>1. CASE Confirm(o) /\ Moves(w, "confirm", "clear")
      BY <2>5, <3>1, ConfirmHolds DEF ConfirmTx
    <3>2. CASE DuplicateSucceeds(w) /\ UNCHANGED <<order, available>>
      BY <2>2, <2>5, <3>2
         DEF ConfirmTx, DuplicateSucceeds, ConfirmingPc, DecidingPc, KeepingPc
    <3>3. CASE /\ DeliveredOnce /\ UNCHANGED <<order, available>>
               /\ Fails(w, "confirm") \/ Moves(w, "confirm", "dead")
      BY <2>2, <2>5, <3>3 DEF ConfirmTx, Fails, ConfirmingPc, DecidingPc, KeepingPc
    <3>4. ~DeliveredOnce /\ ~Duplicate(o) => Quantity[o] <= available[SkuOf[o]]
      BY <2>5, NeverShort DEF ConfirmTx
    <3>5. ~DeliveredOnce /\ ~Duplicate(o) => ~(Quantity[o] > available[SkuOf[o]])
      <4>1. o \in Order
        BY <2>0, <2>5, WorkerFacts DEF ConfirmTx
      <4>2. Quantity[o] \in Nat /\ available[SkuOf[o]] \in Nat
        BY <2>0, <4>1, OrderFacts DEF StateTypeOK
      <4> QED
        BY <3>4, <4>2
    <3> QED
      BY <2>5, <3>1, <3>2, <3>3, <3>5 DEF ConfirmTx, HonestErrors, FailedOnce
  <2>6. CASE ClearPending(w)
    BY <2>2, <2>6 DEF ClearPending, ConfirmingPc, DecidingPc, KeepingPc
  <2>7. CASE Schedule(w)
    BY <2>2, <2>7 DEF Schedule, ConfirmingPc, DecidingPc, KeepingPc
  <2>8. CASE Ack(w)
    BY <2>3, <2>8 DEF Ack
  <2>9. CASE RouteRetry(w)
    <3>1. CASE Moves(w, "route", "ack") /\ Publish(<<OrderOf(w), RetryCount(w) + 1>>)
      BY <2>9, <3>1, RouteHolds DEF RouteRetry, Moves
    <3>2. CASE wpc[w] = "route" /\ GivesUp(w)
      BY <2>3, <2>9, <3>2 DEF RouteRetry, GivesUp
    <3> QED
      BY <2>9, <3>1, <3>2 DEF RouteRetry, SendFails, HonestErrors
  <2>10. CASE DeadLetter(w)
    <3>1. DeliveredOnce
      BY <2>1, <2>10 DEF DeadLetter, Moves, ConfirmingPc
    <3> QED
      BY <2>2, <2>3, <2>10, <3>1 DEF DeadLetter, GivesUp, DecidingPc, KeepingPc
  <2>11. CASE Restock(w)
    BY <2>2, <2>3, <2>11 DEF Restock, GivesUp, StoreFails, ConfirmingPc, DecidingPc, KeepingPc
  <2>12. CASE RemoveMark(w)
    BY <2>2, <2>3, <2>12 DEF RemoveMark, GivesUp, StoreFails, ConfirmingPc, DecidingPc, KeepingPc
  <2>13. CASE RestoreCoupon(w)
    BY <2>2, <2>13 DEF RestoreCoupon, ConfirmingPc, DecidingPc, KeepingPc
  <2>14. CASE DropReservation(w)
    BY <2>2, <2>14 DEF DropReservation, ConfirmingPc, DecidingPc, KeepingPc
  <2>15. CASE CrashWorker(w)
    BY <2>3, <2>15 DEF CrashWorker, DeliveredOnce
  <2>16. CASE Rebalance(w)
    <3>1. wpc' = [wpc EXCEPT ![w] = wpc[w]] /\ wmsg' = wmsg
      BY <2>0, <2>16 DEF Rebalance, ConsumerTypeOK
    <3>2. \A m \in Message : topic'[m] = topic[m] \/ m = wmsg[w]
      BY <2>0, <2>16 DEF Rebalance, StateTypeOK
    <3>3. ~DeliveredOnce
      BY <2>16 DEF Rebalance, DeliveredOnce
    <3> QED
      BY <2>1, <2>16, <3>1, <3>2, <3>3, WorkerKeepsHold DEF Rebalance
  <2> QED
    BY <1>2, <2>4, <2>5, <2>6, <2>7, <2>8, <2>9, <2>10, <2>11, <2>12, <2>13, <2>14,
       <2>15, <2>16 DEF WorkerStep
<1> QED
  BY <1>1, <1>2 DEF ConsumerNext

-------------------------------------------------------------------------------

\* The steps of a cancellation and of a payment.
LEMMA CancelHolds ==
    ASSUME TypeOK, HoldInv, HonestErrors, CancelNext, UNCHANGED <<pc, consumerVars>>
    PROVE  HoldInv'
<1> PICK o \in Order : CancelStep(o) \/ CancelOrder(o) \/ Pay(o) \/ CrashCancel(o)
  BY DEF CancelNext
<1> USE DEF TypeOK, StateTypeOK, CancelTypeOK, CancelGoes, consumerVars, redisVars, mysqlVars,
            kafkaVars, sharedVars, BestEffort
<1>0. /\ \A w \in Worker : wpc[w] # "idle" => OrderOf(w) \in Order
      /\ \A w \in Worker : OrderOf(w)' = OrderOf(w)
      /\ \A m \in Message : m[1] \in Order
  BY WorkerFacts, MessageFacts DEF OrderOf
\* Rows are not added, and a live order that stays live keeps its reservation.
<1>1. ASSUME \A p \in Order : Ledger!Exists(p)' <=> Ledger!Exists(p),
             Ledger!Live' \subseteq Ledger!Live,
             UNCHANGED <<topic, dlqTopic, deadRow, pc, wpc, wmsg>>,
             CancelsHold',
             \A p \in Order : p \in reserved' <=>
                 p \in reserved /\ ~(p = o /\ order[o] = "Cancel" /\ reserved' # reserved)
      PROVE  HoldInv'
  <2>1. SentFirst'
    BY <1>0, <1>1 DEF HoldInv, SentFirst
  <2>2. CallsHold'
    BY <1>1 DEF HoldInv, CallsHold, SentFirst, SentPc, HoldingPc, Ledger!Exists
  <2>3. NeverFails' /\ OneDecides'
    BY <1>0, <1>1 DEF HoldInv, NeverFails, OneDecides, Ledger!Exists, DecidingPc, KeepingPc
  <2>4. OrderBacked'
    BY <1>1 DEF HoldInv, OrderBacked, Ledger!Live
  <2> QED
    BY <1>1, <2>1, <2>2, <2>3, <2>4 DEF HoldInv
<1>2. CASE CancelTx(o)
  <2>1. \A p \in Order : order'[p] = IF p = o THEN "Cancel" ELSE order[p]
    BY <1>2 DEF CancelTx
  <2>2. CancelsHold'
    BY <1>2, <2>1 DEF CancelTx, HoldInv, CancelsHold, OrderBacked, Ledger!Live, HonestErrors
  <2> QED
    BY <1>1, <1>2, <2>1, <2>2 DEF CancelTx, Ledger!Exists, Ledger!Live
<1>3. CASE RestoreStock(o)
  <2>1. order[o] = "Cancel"
    BY <1>3 DEF RestoreStock, HoldInv, CancelsHold
  <2>2. CancelsHold'
    BY <1>3, <2>1 DEF RestoreStock, GiveBack, HoldInv, CancelsHold
  <2> QED
    BY <1>1, <1>3, <2>1, <2>2 DEF RestoreStock, GiveBack, Ledger!Exists, Ledger!Live
<1>4. CASE ClearMark(o)
  BY <1>1, <1>4 DEF ClearMark, HoldInv, CancelsHold, Ledger!Exists, Ledger!Live
<1>5. CASE DropTask(o)
  BY <1>1, <1>5 DEF DropTask, HoldInv, CancelsHold, Ledger!Exists, Ledger!Live
<1>6. CASE Pay(o)
  <2>1. \A p \in Order : order'[p] = IF p = o THEN "Paid" ELSE order[p]
    BY <1>6 DEF Pay
  <2>2. CancelsHold'
    BY <1>6, <2>1 DEF Pay, HoldInv, CancelsHold
  <2> QED
    BY <1>1, <1>6, <2>1, <2>2 DEF Pay, Ledger!Exists, Ledger!Live
<1>7. CASE CrashCancel(o)
  BY <1>1, <1>7 DEF CrashCancel, HoldInv, CancelsHold, Ledger!Exists, Ledger!Live
<1> QED
  BY <1>2, <1>3, <1>4, <1>5, <1>6, <1>7 DEF CancelStep, CancelOrder, HandleTimeout

\* Dead letters are only written, and replayed, where no message is sent by it.
LEMMA DeadLettersHold ==
    ASSUME TypeOK, HoldInv, DeadLettersNext, UNCHANGED <<pc, consumerVars, cpc>>
    PROVE  HoldInv'
<1> USE DEF HoldInv, consumerVars, redisVars, mysqlVars
<1>1. ASSUME NEW o \in Order, Replay(o) PROVE FALSE
  BY <1>1 DEF Replay, HasRow, NeverFails, DeliveredOnce
<1>2. ASSUME NEW m \in Message, PersistDeadLetter(m) PROVE HoldInv'
  <2>1. DeliveredOnce
    BY <1>2 DEF PersistDeadLetter, NeverFails
  <2>2. UNCHANGED <<topic, reserved, order, pc, wpc, wmsg, cpc>>
    BY <1>2 DEF PersistDeadLetter
  <2> QED
    BY <2>1, <2>2 DEF SentFirst, CallsHold, CancelsHold, NeverFails, OneDecides,
                      OrderBacked, OrderOf, Ledger!Exists, Ledger!Live
<1> QED
  BY <1>1, <1>2 DEF DeadLettersNext

\* Keys that expire, and a stutter.
LEMMA RestHolds ==
    ASSUME HoldInv, UNCHANGED <<topic, dlqTopic, deadRow, reserved, order, pc, wpc, wmsg, cpc>>
    PROVE  HoldInv'
  BY DEF HoldInv, SentFirst, CallsHold, CancelsHold, NeverFails, OneDecides, OrderBacked,
         OrderOf, Ledger!Exists, Ledger!Live

\* Every step of the pipeline.
LEMMA HoldStep ==
    ASSUME TypeOK, HoldInv, NoOverAdmission \/ DeliveredOnce, StockFaults, [Next]_vars
    PROVE  HoldInv'
<1> USE DEF StockFaults
<1>1. CASE PlaceNext /\ UNCHANGED <<consumerVars, cpc>>
  BY <1>1, CallHolds
<1>2. CASE ConsumerNext /\ UNCHANGED <<pc, cpc>>
  BY <1>2, ConsumerHolds
<1>3. CASE CancelNext /\ UNCHANGED <<pc, consumerVars>>
  BY <1>3, CancelHolds
<1>4. CASE DeadLettersNext /\ UNCHANGED <<pc, consumerVars, cpc>>
  BY <1>4, DeadLettersHold
<1>5. CASE Expire /\ UNCHANGED <<pc, consumerVars, cpc>>
  BY <1>5, RestHolds DEF Expire, ExpireRequest, ExpireMark, ExpirePending, consumerVars,
                         mysqlVars, kafkaVars
<1>6. CASE UNCHANGED vars
  BY <1>6, RestHolds DEF vars, sharedVars, consumerVars, redisVars, mysqlVars, kafkaVars
<1> QED
  BY <1>1, <1>2, <1>3, <1>4, <1>5, <1>6 DEF Next

\* At first nothing is reserved, sent or confirmed.
LEMMA HoldInit == Init => HoldInv
  BY PipelineAssumption
     DEF Init, StateInit, PlaceInit, ConsumerInit, CancelInit, HoldInv, SentFirst, CallsHold,
         CancelsHold, NeverFails, OneDecides, OrderBacked, Ledger!Exists, Ledger!Live,
         SentPc, HoldingPc, EarlyPc, DecidingPc, KeepingPc

-------------------------------------------------------------------------------
(* Who writes what. *)

\* A worker creates an order, gives back and forgets a record in one command each.
LEMMA WorkersWrite ==
    ASSUME ConsumerNext
    PROVE  /\ UNCHANGED idempotent
           /\ UNCHANGED order \/ \E w \in Worker : ConfirmTx(w) /\ Confirm(OrderOf(w))
           /\ UNCHANGED <<redisStock, reserved>> \/ \E w \in Worker : Restock(w)
           /\ UNCHANGED pending \/ \E w \in Worker : ClearPending(w) \/ DropReservation(w)
<1> USE DEF redisVars, mysqlVars
<1>1. ASSUME NEW w \in Worker, WorkerStep(w)
      PROVE  /\ UNCHANGED idempotent
             /\ UNCHANGED order \/ (ConfirmTx(w) /\ Confirm(OrderOf(w)))
             /\ UNCHANGED <<redisStock, reserved>> \/ Restock(w)
             /\ UNCHANGED pending \/ ClearPending(w) \/ DropReservation(w)
  <2>1. CASE ConfirmTx(w)
    BY <2>1 DEF ConfirmTx
  <2>2. CASE Restock(w)
    BY <2>2 DEF Restock
  <2>3. CASE ClearPending(w) \/ DropReservation(w)
    BY <2>3 DEF ClearPending, DropReservation
  <2>4. CASE RemoveMark(w) \/ RestoreCoupon(w) \/ Schedule(w)
    BY <2>4 DEF RemoveMark, RestoreCoupon, Schedule
  <2>5. CASE (\E m \in Message : Fetch(w, m)) \/ Ack(w) \/ RouteRetry(w) \/ DeadLetter(w)
    BY <2>5 DEF Fetch, Ack, RouteRetry, DeadLetter
  <2> QED
    BY <1>1, <2>1, <2>2, <2>3, <2>4, <2>5 DEF WorkerStep
<1>2. ASSUME NEW w \in Worker, CrashWorker(w) \/ Rebalance(w)
      PROVE  UNCHANGED <<idempotent, order, redisStock, reserved, pending>>
  BY <1>2 DEF CrashWorker, Rebalance
<1>3. ASSUME NEW m \in Message, ResumePassed(m)
      PROVE  UNCHANGED <<idempotent, order, redisStock, reserved, pending>>
  BY <1>3 DEF ResumePassed
<1> QED
  BY <1>1, <1>2, <1>3 DEF ConsumerNext

\* No call writes a row or takes a task out of the delay queue.
LEMMA CallsWrite == PlaceNext => UNCHANGED <<order, delayQueue>>
<1> USE DEF redisVars, mysqlVars, sharedVars
<1>1. ASSUME NEW o \in Order, CallStep(o) PROVE UNCHANGED <<order, delayQueue>>
  BY <1>1 DEF CallStep, Qualify, CheckMark, CheckRecord, ApplyCoupon, DeductStock, SetPending,
              Send, RemarkBuy, UndoPending, UndoStock, UndoMark, UndoCoupon
<1>2. ASSUME NEW o \in Order, Admit(o) \/ Refuse(o) \/ CrashCall(o)
      PROVE  UNCHANGED <<order, delayQueue>>
  BY <1>2 DEF Admit, Refuse, CrashCall
<1> QED
  BY <1>1, <1>2 DEF PlaceNext

\* A cancellation writes rows in its transaction, and takes tasks out of the queue.
LEMMA CancelsWrite ==
    ASSUME CancelNext
    PROVE  /\ UNCHANGED order \/ \E o \in Order : CancelTx(o) \/ Pay(o)
           /\ UNCHANGED delayQueue \/ \E o \in Order : DropTask(o)
<1> USE DEF redisVars, mysqlVars, sharedVars
<1>1. ASSUME NEW o \in Order, CancelTx(o) \/ Pay(o) PROVE UNCHANGED delayQueue
  BY <1>1 DEF CancelTx, Pay
<1>2. ASSUME NEW o \in Order, RestoreStock(o) \/ ClearMark(o) \/ CrashCancel(o)
      PROVE  UNCHANGED <<order, delayQueue>>
  BY <1>2 DEF RestoreStock, ClearMark, CrashCancel
<1>3. ASSUME NEW o \in Order, DropTask(o) PROVE UNCHANGED order
  BY <1>3 DEF DropTask
<1> QED
  BY <1>1, <1>2, <1>3 DEF CancelNext, CancelStep, CancelOrder, HandleTimeout

\* The status of an order is written by its worker, its cancellation and its payment.
LEMMA OrderWrites ==
    ASSUME [Next]_vars
    PROVE  \/ UNCHANGED order
           \/ ConsumerNext /\ \E w \in Worker : ConfirmTx(w) /\ Confirm(OrderOf(w))
           \/ CancelNext /\ \E o \in Order : CancelTx(o) \/ Pay(o)
<1>1. CASE DeadLettersNext \/ Expire \/ UNCHANGED vars
  BY <1>1 DEF DeadLettersNext, PersistDeadLetter, Replay, Expire, ExpireRequest, ExpireMark,
              ExpirePending, vars, sharedVars, mysqlVars
<1> QED
  BY <1>1, CallsWrite, WorkersWrite, CancelsWrite DEF Next

\* What is in the delay queue stays there until its task is dropped.
LEMMA QueueWrites ==
    ASSUME [Next]_vars, NEW o \in delayQueue
    PROVE  o \in delayQueue' \/ \E p \in Order : DropTask(p)
<1> USE DEF redisVars, sharedVars, BestEffort
<1>1. ASSUME NEW w \in Worker, WorkerStep(w) PROVE o \in delayQueue'
  BY <1>1 DEF WorkerStep, Fetch, ConfirmTx, ClearPending, Schedule, Ack, RouteRetry, DeadLetter,
              Restock, RemoveMark, RestoreCoupon, DropReservation
<1>2. ASSUME NEW w \in Worker, CrashWorker(w) \/ Rebalance(w) PROVE o \in delayQueue'
  BY <1>2 DEF CrashWorker, Rebalance
<1>3. ASSUME NEW m \in Message, ResumePassed(m) PROVE o \in delayQueue'
  BY <1>3 DEF ResumePassed
<1>4. CASE DeadLettersNext \/ Expire \/ UNCHANGED vars
  BY <1>4 DEF DeadLettersNext, PersistDeadLetter, Replay, Expire, ExpireRequest, ExpireMark,
              ExpirePending, vars
<1> QED
  BY <1>1, <1>2, <1>3, <1>4, CallsWrite, CancelsWrite DEF Next, ConsumerNext

-------------------------------------------------------------------------------
(* The stock in Redis. *)

\* Who may give back the reservation of o.
Returning(o) ==
    \/ pc[o] = "restock" \/ cpc[o] = "restock"
    \/ \E w \in Worker : wpc[w] = "restock" /\ OrderOf(w) = o

\* The stock in Redis changes when the script reserves and when somebody gives a
\* reservation back.
LEMMA StockMoves ==
    ASSUME TypeOK, [Next]_vars
    PROVE  \/ UNCHANGED <<redisStock, reserved>>
           \/ \E o \in Order : \/ pc[o] = "deduct" /\ CanReserve(o) /\ Reserve(o)
                               \/ Returning(o) /\ GiveBack(o)
<1> DEFINE Moved == \E o \in Order : \/ pc[o] = "deduct" /\ CanReserve(o) /\ Reserve(o)
                                     \/ Returning(o) /\ GiveBack(o)
           Still == UNCHANGED <<redisStock, reserved>>
<1> SUFFICES Still \/ Moved
  OBVIOUS
<1> USE DEF redisVars, sharedVars
<1>1. CASE PlaceNext
  <2> PICK o \in Order : Admit(o) \/ Refuse(o) \/ CallStep(o) \/ CrashCall(o)
    BY <1>1 DEF PlaceNext
  <2>1. CASE DeductStock(o)
    BY <2>1 DEF DeductStock, Goes
  <2>2. CASE UndoStock(o)
    BY <2>2 DEF UndoStock, Goes, BestEffort, Returning
  <2>3. CASE ~DeductStock(o) /\ ~UndoStock(o)
    BY <2>3 DEF CallStep, Admit, Refuse, CrashCall, Qualify, CheckMark, CheckRecord,
                ApplyCoupon, SetPending, Send, RemarkBuy, UndoPending, UndoMark, UndoCoupon
  <2> QED
    BY <2>1, <2>2, <2>3
<1>2. CASE ConsumerNext
  <2>1. ASSUME NEW w \in Worker, Restock(w) PROVE Still \/ Moved
    <3>1. OrderOf(w) \in Order /\ wpc[w] = "restock"
      BY <2>1, WorkerFacts DEF Restock, Moves, TypeOK
    <3> QED
      BY <2>1, <3>1 DEF Restock, StoreFails, Returning
  <2> QED
    BY <1>2, <2>1, WorkersWrite
<1>3. CASE CancelNext
  BY <1>3 DEF CancelNext, CancelStep, CancelOrder, HandleTimeout, CancelTx, RestoreStock,
              ClearMark, DropTask, Pay, CrashCancel, CancelGoes, BestEffort, Returning
<1>4. CASE DeadLettersNext
  BY <1>4 DEF DeadLettersNext, PersistDeadLetter, Replay
<1>5. CASE Expire
  BY <1>5 DEF Expire, ExpireRequest, ExpireMark, ExpirePending
<1>6. CASE UNCHANGED vars
  BY <1>6 DEF vars
<1> QED
  BY <1>1, <1>2, <1>3, <1>4, <1>5, <1>6 DEF Next

\* Whoever gives a reservation back, it is there.
LEMMA ReturnedIsHeld ==
    ASSUME TypeOK, HoldInv, NEW o \in Order, Returning(o)
    PROVE  o \in reserved
  BY DEF TypeOK, HoldInv, Returning, CallsHold, HoldingPc, CancelsHold, NeverFails,
         ConfirmingPc, OneDecides, KeepingPc

\* Stock and reservations change by the same quantity.
LEMMA StockStep ==
    ASSUME TypeOK, HoldInv, StockAccounted, [Next]_vars
    PROVE  StockAccounted'
<1> SUFFICES ASSUME NEW k \in Sku
             PROVE  (redisStock[k] + TotalQuantity(ReservedOf(k)) = Stock[k])'
  BY DEF StockAccounted
<1>0. TotalQuantity(ReservedOf(k))' = TotalQuantity(ReservedOf(k)')
  BY DEF TotalQuantity, UnitsOf
<1>1. /\ redisStock[k] + TotalQuantity(ReservedOf(k)) = Stock[k]
      /\ redisStock \in [Sku -> Nat]
      /\ ReservedOf(k) \in SUBSET Order
      /\ Stock[k] \in Nat
  BY OrderAssumption DEF StockAccounted, TypeOK, StateTypeOK, ReservedOf
<1>2. TotalQuantity(ReservedOf(k)) \in Nat
  BY <1>1, Quantities
<1>3. CASE UNCHANGED <<redisStock, reserved>>
  BY <1>0, <1>1, <1>3 DEF ReservedOf
<1>4. ASSUME NEW o \in Order, pc[o] = "deduct", Reserve(o), SkuOf[o] = k
      PROVE  redisStock'[k] + TotalQuantity(ReservedOf(k)') = Stock[k]
  <2>1. o \notin ReservedOf(k) /\ ReservedOf(k)' = ReservedOf(k) \cup {o}
    BY <1>4 DEF HoldInv, CallsHold, EarlyPc, Reserve, ReservedOf
  <2>2. TotalQuantity(ReservedOf(k) \cup {o}) = TotalQuantity(ReservedOf(k)) + Quantity[o]
    BY <1>1, <2>1, Quantities
  <2>3. redisStock'[k] = redisStock[k] - Quantity[o]
    BY <1>1, <1>4 DEF Reserve
  <2>4. Quantity[o] \in Nat /\ redisStock[k] \in Nat
    BY <1>1, OrderFacts
  <2> QED
    BY <1>1, <1>2, <2>1, <2>2, <2>3, <2>4
<1>5. ASSUME NEW o \in Order, Returning(o), GiveBack(o), SkuOf[o] = k
      PROVE  redisStock'[k] + TotalQuantity(ReservedOf(k)') = Stock[k]
  <2>1. o \in ReservedOf(k) /\ ReservedOf(k)' = ReservedOf(k) \ {o}
    BY <1>5, ReturnedIsHeld DEF GiveBack, ReservedOf
  <2>2. TotalQuantity(ReservedOf(k) \ {o}) = TotalQuantity(ReservedOf(k)) - Quantity[o]
    BY <1>1, <2>1, Quantities
  <2>3. redisStock'[k] = redisStock[k] + Quantity[o]
    BY <1>1, <1>5 DEF GiveBack
  <2>4. Quantity[o] \in Nat /\ redisStock[k] \in Nat
    BY <1>1, OrderFacts
  <2> QED
    BY <1>1, <1>2, <2>1, <2>2, <2>3, <2>4
<1>6. ASSUME NEW o \in Order, Reserve(o) \/ GiveBack(o), SkuOf[o] # k
      PROVE  redisStock'[k] + TotalQuantity(ReservedOf(k)') = Stock[k]
  <2>1. ReservedOf(k)' = ReservedOf(k) /\ redisStock'[k] = redisStock[k]
    BY <1>1, <1>6 DEF GiveBack, Reserve, ReservedOf
  <2> QED
    BY <1>1, <2>1
<1> QED
  BY <1>0, <1>3, <1>4, <1>5, <1>6, StockMoves

\* What the reservations and the live orders of a sku add up to.
LEMMA Admission ==
    ASSUME TypeOK, StockAccounted, LedgerConserved, OrderBacked
    PROVE  NoOverAdmission
<1> SUFFICES ASSUME NEW k \in Sku
             PROVE  redisStock[k] + TotalQuantity(ReservedOf(k) \ Ledger!Live) <= available[k]
  BY DEF NoOverAdmission
<1> DEFINE open == ReservedOf(k) \ Ledger!Live
           live == Ledger!LiveOf(k)
<1>1. /\ open \in SUBSET Order /\ live \in SUBSET Order /\ open \cap live = {}
      /\ ReservedOf(k) = open \cup live
  BY DEF OrderBacked, ReservedOf, Ledger!LiveOf, Ledger!Live, TypeOK, StateTypeOK
<1>2. /\ TotalQuantity(open \cup live) = TotalQuantity(open) + TotalQuantity(live)
      /\ TotalQuantity(open) \in Nat /\ TotalQuantity(live) \in Nat
  BY <1>1, Quantities
<1>3. Ledger!TotalQuantity(live) = TotalQuantity(live)
  BY SameTotal
<1>4. /\ redisStock[k] + TotalQuantity(ReservedOf(k)) = Stock[k]
      /\ available[k] + Ledger!TotalQuantity(live) = Stock[k]
  BY DEF StockAccounted, LedgerConserved, Ledger!Conserved
<1>5. /\ redisStock[k] \in Nat /\ available[k] \in Nat /\ Stock[k] \in Nat
  BY OrderAssumption DEF TypeOK, StateTypeOK
<1> HIDE DEF open, live
<1>6. redisStock[k] + TotalQuantity(open) = available[k]
  BY <1>1, <1>2, <1>3, <1>4, <1>5
<1> QED
  BY <1>5, <1>6 DEF open

\* The cache is warmed up with the whole stock.
LEMMA StockInit == Init => StockAccounted
<1> SUFFICES ASSUME Init, NEW k \in Sku
             PROVE  redisStock[k] + TotalQuantity(ReservedOf(k)) = Stock[k]
  BY DEF StockAccounted
<1>1. ReservedOf(k) = {} /\ redisStock[k] = Stock[k] /\ Stock[k] \in Nat
  BY OrderAssumption DEF Init, StateInit, ReservedOf
<1> QED
  BY <1>1, Quantities

\* The two are kept together: that a worker never runs out of the stock of the core
\* database needs the sum in Redis, and the sum needs that nobody gives back twice.
THEOREM StockInductive == ASSUME StockFaults PROVE Spec => []StockInv
<1>1. Init => StockInv
  BY HoldInit, StockInit DEF StockInv
<1>2. StockInv /\ TypeOK /\ LedgerConserved /\ [Next]_vars => StockInv'
  BY HoldStep, StockStep, Admission DEF StockInv, HoldInv
<1> QED
  BY <1>1, <1>2, TypeCorrect, LedgerInherited, PTL DEF Spec

\* Every unit missing from the stock in Redis is held by exactly one reservation:
\* the failed send, the final failure and the cancellation of an order never give
\* it back twice, whatever crashes, expires or fails within StockFaults.
THEOREM StockAlwaysAccounted == StockFaults /\ Spec => []StockAccounted
<1> SUFFICES ASSUME StockFaults PROVE Spec => []StockAccounted
  OBVIOUS
<1>1. StockInv => StockAccounted
  BY DEF StockInv
<1> QED
  BY <1>1, StockInductive, PTL

\* No compensation undoes the reservation of an order that stands.
THEOREM OrdersAlwaysBacked == StockFaults /\ Spec => []OrderBacked
<1> SUFFICES ASSUME StockFaults PROVE Spec => []OrderBacked
  OBVIOUS
<1>1. StockInv => OrderBacked
  BY DEF StockInv, HoldInv
<1> QED
  BY <1>1, StockInductive, PTL

\* Redis never admits more than the core database can confirm.
THEOREM NeverOverAdmits == StockFaults /\ Spec => []NoOverAdmission
<1> SUFFICES ASSUME StockFaults PROVE Spec => []NoOverAdmission
  OBVIOUS
<1>1. StockInv /\ TypeOK /\ LedgerConserved => NoOverAdmission
  BY Admission DEF StockInv, HoldInv
<1> QED
  BY <1>1, StockInductive, TypeCorrect, LedgerInherited, PTL

-------------------------------------------------------------------------------
(* Coupons. *)

\* The claims a step adds are none, the claim of an order that takes a coupon that
\* was unused, and it ends the claim of an order whose coupon it returns.
ClaimsKept == \A p \in Order : ClaimsCoupon(p)' => ClaimsCoupon(p)
Takes(o) ==
    /\ HasCoupon(o) /\ coupon[CouponOf[o]] = "unused" /\ TakeCoupon(o)
    /\ \A p \in Order : p # o /\ ClaimsCoupon(p)' => ClaimsCoupon(p)
Returns(o) ==
    /\ ReturnCoupon(o) /\ (HasCoupon(o) => ClaimsCoupon(o)) /\ ~ClaimsCoupon(o)'
    /\ ClaimsKept
CouponMove ==
    \/ UNCHANGED coupon /\ ClaimsKept
    \/ \E o \in Order : Takes(o) \/ Returns(o)

\* Such a step keeps one claim on a coupon.
LEMMA CouponMoveKeeps == ASSUME TypeOK, ClaimedOnce, CouponMove PROVE ClaimedOnce'
<1> USE DEF ClaimedOnce, TypeOK, StateTypeOK
<1>0. \A p \in Order : ClaimsCoupon(p) => CouponOf[p] \in Coupon
  BY OrderFacts DEF ClaimsCoupon, HasCoupon
<1>0a. \A p \in Order : ClaimsCoupon(p)' => CouponOf[p] \in Coupon
  BY OrderFacts DEF ClaimsCoupon, HasCoupon
<1>1. CASE UNCHANGED coupon /\ ClaimsKept
  BY <1>1 DEF ClaimsKept
<1>2. ASSUME NEW o \in Order, Takes(o) PROVE ClaimedOnce'
  <2>1. \A p \in Order : ClaimsCoupon(p) => CouponOf[p] # CouponOf[o]
    BY <1>2 DEF Takes
  <2>2. CouponOf[o] \in Coupon
    BY <1>2, OrderFacts DEF Takes, HasCoupon
  <2>3. \A c \in Coupon : coupon'[c] = IF c = CouponOf[o] THEN "used" ELSE coupon[c]
    BY <1>2, <2>2 DEF Takes, TakeCoupon
  <2> QED
    BY <1>0, <1>0a, <1>2, <2>1, <2>2, <2>3 DEF Takes
<1>3. ASSUME NEW o \in Order, Returns(o) PROVE ClaimedOnce'
  <2>1. \A p \in Order : ClaimsCoupon(p)' => ClaimsCoupon(p) /\ CouponOf[p] # CouponOf[o]
    BY <1>3 DEF Returns, ClaimsKept, ClaimsCoupon, HasCoupon
  <2>2. \A c \in Coupon : c # CouponOf[o] => coupon'[c] = coupon[c]
    BY <1>3 DEF Returns, ReturnCoupon
  <2> QED
    BY <1>0, <2>1, <2>2
<1> QED
  BY <1>1, <1>2, <1>3 DEF CouponMove

\* Claims depend on the calls, the messages, the workers and the orders.
LEMMA ClaimsFrame ==
    ASSUME UNCHANGED <<topic, order, wpc, wmsg>>, NEW p \in Order,
           pc'[p] \in ClaimingPc => pc[p] \in ClaimingPc
    PROVE  ClaimsCoupon(p)' => ClaimsCoupon(p)
  BY DEF ClaimsCoupon, Pursued, OrderOf, HasCoupon, Ledger!Exists, Ledger!Live

\* Nobody else claims the coupon of an order whose message is not out.
LEMMA UnsentPursued ==
    ASSUME HoldInv, NEW o \in Order, pc[o] \notin SentPc
    PROVE  ~Pursued(o) /\ o \notin Ledger!Live
  BY MessageFacts DEF HoldInv, SentFirst, Pursued, DecidingPc, Ledger!Live, Ledger!Exists

\* The steps of a call.
LEMMA CallClaims ==
    ASSUME TypeOK, HoldInv, HonestErrors, CouponInv, PlaceNext,
           UNCHANGED <<consumerVars, cpc>>
    PROVE  CouponMove
<1> PICK o \in Order : Admit(o) \/ Refuse(o) \/ CallStep(o) \/ CrashCall(o)
  BY DEF PlaceNext
<1> USE DEF TypeOK, PlaceTypeOK, consumerVars, redisVars, mysqlVars, kafkaVars, sharedVars
<1> DEFINE Frame == UNCHANGED <<topic, order, wpc, wmsg>>
<1>0. ASSUME NEW to, pc' = [pc EXCEPT ![o] = to], Frame
      PROVE  /\ \A p \in Order : p # o /\ ClaimsCoupon(p)' => ClaimsCoupon(p)
             /\ (to \in ClaimingPc => pc[o] \in ClaimingPc) => ClaimsKept
  BY <1>0, ClaimsFrame DEF ClaimsKept
<1>1. ASSUME NEW from, NEW to, Goes(o, from, to), Frame, UNCHANGED coupon,
             to \in ClaimingPc => from \in ClaimingPc
      PROVE  CouponMove
  BY <1>0, <1>1 DEF Goes, CouponMove
<1> USE <1>1 DEF ClaimingPc, HoldingPc, BestEffort, AfterRefusal
<1>2. CASE Admit(o)
  BY <1>2 DEF Admit
<1>3. CASE Refuse(o)
  BY <1>3 DEF Refuse
<1>4. CASE CrashCall(o)
  BY <1>0, <1>4 DEF CrashCall, CouponMove
<1>5. CASE Qualify(o)
  BY <1>5 DEF Qualify
<1>6. CASE CheckMark(o)
  BY <1>6 DEF CheckMark
<1>7. CASE CheckRecord(o)
  <2>1. CASE ~HasCoupon(o) /\ Goes(o, "record", "deduct") /\ UNCHANGED <<coupon>> /\ Frame
    <3>1. ~ClaimsCoupon(o)'
      BY <2>1 DEF ClaimsCoupon, HasCoupon
    <3> QED
      BY <1>0, <2>1, <3>1 DEF Goes, CouponMove, ClaimsKept
  <2> QED
    BY <1>7, <2>1 DEF CheckRecord
<1>8. CASE ApplyCoupon(o)
  <2>1. CASE coupon[CouponOf[o]] = "unused" /\ TakeCoupon(o)
    BY <1>0, <1>8, <2>1 DEF ApplyCoupon, Goes, CouponInv, Takes, CouponMove
  <2> QED
    BY <1>8, <2>1 DEF ApplyCoupon
<1>9. CASE DeductStock(o)
  BY <1>9 DEF DeductStock
<1>10. CASE SetPending(o)
  BY <1>10 DEF SetPending
<1>11. CASE Send(o)
  <2>1. \A p \in Order : p # o => (Pursued(p)' => Pursued(p))
    <3>1. \A m \in Message : m[1] # o => topic'[m] = topic[m]
      BY <1>11, CopyFacts DEF Send, SendFails, Publish
    <3> QED
      BY <1>11, <3>1 DEF Send, Pursued, OrderOf, Ledger!Exists
  <2>2. \A p \in Order : p # o => (ClaimsCoupon(p)' => ClaimsCoupon(p))
    BY <1>11, <2>1 DEF Send, Goes, ClaimsCoupon, HasCoupon, Ledger!Live
  <2>3. pc[o] = "send" /\ UNCHANGED coupon
    BY <1>11 DEF Send, Goes
  <2>4. ClaimsCoupon(o)' => ClaimsCoupon(o)
    BY <2>3 DEF ClaimsCoupon, HasCoupon
  <2> QED
    BY <2>2, <2>3, <2>4 DEF CouponMove, ClaimsKept
<1>12. CASE RemarkBuy(o)
  BY <1>12 DEF RemarkBuy
<1>13. CASE UndoPending(o)
  BY <1>13 DEF UndoPending
<1>14. CASE UndoStock(o)
  BY <1>14 DEF UndoStock
<1>15. CASE UndoMark(o)
  BY <1>15 DEF UndoMark
<1>16. CASE UndoCoupon(o)
  <2>1. pc[o] = "uncoupon" /\ pc' = [pc EXCEPT ![o] = "rejected"] /\ Frame
    BY <1>16 DEF UndoCoupon, Goes
  <2>2. ClaimsKept
    BY <1>0, <2>1
  <2>3. ~Pursued(o)' /\ o \notin Ledger!Live'
    BY <2>1, UnsentPursued DEF SentPc, Pursued, OrderOf, Ledger!Live, Ledger!Exists
  <2>4. ~ClaimsCoupon(o)'
    BY <2>1, <2>3 DEF ClaimsCoupon
  <2>5. HasCoupon(o) => ClaimsCoupon(o)
    BY <2>1 DEF ClaimsCoupon
  <2> QED
    BY <1>16, <2>2, <2>4, <2>5 DEF UndoCoupon, CouponMove, Returns
<1> QED
  BY <1>2, <1>3, <1>4, <1>5, <1>6, <1>7, <1>8, <1>9, <1>10, <1>11, <1>12, <1>13,
     <1>14, <1>15, <1>16 DEF CallStep

\* The steps of a worker.
LEMMA WorkerClaims ==
    ASSUME TypeOK, HoldInv, StockFaults, ConsumerNext, UNCHANGED <<pc, cpc>>
    PROVE  CouponMove
<1> USE DEF consumerVars, redisVars, mysqlVars, kafkaVars, StockFaults
<1>0. StateTypeOK /\ ConsumerTypeOK
  BY DEF TypeOK
\* Claims are kept when no order becomes live and no more orders are pursued.
<1>1. ASSUME Ledger!Live' \subseteq Ledger!Live, \A p \in Order : Pursued(p)' => Pursued(p)
      PROVE  ClaimsKept
  BY <1>1 DEF ClaimsKept, ClaimsCoupon, HasCoupon
<1>2. ASSUME NEW m \in Message, ResumePassed(m) PROVE CouponMove
  <2>1. \A n \in Message : /\ topic'[n] # "absent" => topic[n] # "absent"
                           /\ DeliveredOnce /\ topic'[n] = "ready" => topic[n] = "ready"
    BY <1>0, <1>2 DEF ResumePassed, StateTypeOK, DeliveredOnce
  <2> QED
    BY <1>1, <1>2, <2>1
       DEF ResumePassed, CouponMove, Pursued, OrderOf, Ledger!Live, Ledger!Exists
<1>3. ASSUME NEW w \in Worker, WorkerStep(w) \/ CrashWorker(w) \/ Rebalance(w)
      PROVE  CouponMove
  <2> DEFINE o == OrderOf(w)
  <2>0. wpc[w] # "idle" => o \in Order /\ wmsg[w] \in Message /\ wmsg[w][1] = o
    BY <1>0, WorkerFacts DEF OrderOf
  <2>1. wpc[w] \notin {"idle", "ack"} \cup ConfirmingPc => DeliveredOnce
    BY DEF HoldInv, NeverFails
  \* At most the worker's own order is pursued by its message.
  <2>2. ASSUME NEW to, wpc[w] # "idle",
               wpc' = [wpc EXCEPT ![w] = to],
               wmsg' = wmsg \/ (wmsg' = [wmsg EXCEPT ![w] = None] /\ to = "idle"),
               to \in DecidingPc => wpc[w] \in DecidingPc,
               \A m \in Message :
                   \/ topic'[m] = topic[m]
                   \/ m = wmsg[w] /\ (DeliveredOnce => topic'[m] # "ready"),
               UNCHANGED order
        PROVE  ClaimsKept
    <3>1. \A v \in Worker : /\ wpc'[v] = IF v = w THEN to ELSE wpc[v]
                            /\ wpc'[v] # "idle" => OrderOf(v)' = OrderOf(v)
      BY <1>0, <2>2 DEF OrderOf, ConsumerTypeOK
    <3>2. \A p \in Order : Pursued(p)' => Pursued(p)
      BY <2>0, <2>2, <3>1 DEF Pursued, DecidingPc, Ledger!Exists
    <3> QED
      BY <1>1, <2>2, <3>2 DEF Ledger!Live
  <2>3. ASSUME NEW from, NEW to, Moves(w, from, to), from # "idle",
               UNCHANGED <<topic, order>>, to \in DecidingPc => from \in DecidingPc
        PROVE  ClaimsKept
    BY <2>2, <2>3 DEF Moves
  <2>4. ASSUME NEW outcome, Leaves(w, topic, outcome), wpc[w] # "idle", UNCHANGED order,
               outcome # "ready" \/ ~DeliveredOnce
        PROVE  ClaimsKept
    <3>1. \A m \in Message : topic'[m] = topic[m] \/ (m = wmsg[w] /\ topic'[m] = outcome)
      BY <1>0, <2>4 DEF Leaves, StateTypeOK
    <3> QED
      BY <2>2, <2>4, <3>1 DEF Leaves, DecidingPc
  <2> USE DEF BestEffort, CouponMove
  <2>5. ASSUME NEW m \in Message, Fetch(w, m) PROVE CouponMove
    <3>1. \A n \in Message : topic'[n] = IF n = m THEN "taken" ELSE topic[n]
      BY <1>0, <2>5 DEF Fetch, StateTypeOK
    <3>2. \A v \in Worker : /\ wpc'[v] = IF v = w THEN "confirm" ELSE wpc[v]
                            /\ OrderOf(v)' = IF v = w THEN m[1] ELSE OrderOf(v)
      BY <1>0, <2>5 DEF Fetch, ConsumerTypeOK, OrderOf
    <3>3. \A p \in Order : Pursued(p)' => Pursued(p)
      BY <2>5, <3>1, <3>2 DEF Fetch, Pursued, Ledger!Exists
    <3> QED
      BY <1>1, <2>5, <3>3 DEF Fetch, Ledger!Live
  <2>6. CASE ConfirmTx(w)
    <3>1. CASE Confirm(o)
      <4>1. Pursued(o)
        BY <2>6, <3>1, <2>0
           DEF ConfirmTx, Pursued, DecidingPc, Confirm, Duplicate, Clash
      <4>2. \A p \in Order : order'[p] = IF p = o THEN "Pending" ELSE order[p]
        BY <1>0, <3>1 DEF Confirm, StateTypeOK
      <4>3. \A v \in Worker : /\ OrderOf(v)' = OrderOf(v)
                              /\ wpc'[v] \in DecidingPc => wpc[v] \in DecidingPc
                              /\ wpc'[v] # "idle" => wpc[v] # "idle"
        BY <1>0, <2>6 DEF ConfirmTx, Moves, Fails, DuplicateSucceeds, OrderOf, DecidingPc,
                          ConsumerTypeOK
      <4>4. UNCHANGED <<coupon, topic>>
        BY <2>6 DEF ConfirmTx
      <4>5. \A p \in Order : p # o => (Pursued(p)' => Pursued(p))
        BY <4>2, <4>3, <4>4 DEF Pursued, Ledger!Exists
      <4> QED
        BY <4>1, <4>2, <4>4, <4>5 DEF ClaimsKept, ClaimsCoupon, HasCoupon, Ledger!Live
    <3>2. CASE UNCHANGED order
      BY <2>3, <2>6, <3>2 DEF ConfirmTx, DuplicateSucceeds, Fails, DecidingPc
    <3> QED
      BY <2>6, <3>1, <3>2 DEF ConfirmTx
  <2>7. CASE ClearPending(w)
    BY <2>3, <2>7 DEF ClearPending, DecidingPc
  <2>8. CASE Schedule(w)
    BY <2>3, <2>8 DEF Schedule, DecidingPc
  <2>9. CASE Ack(w)
    BY <2>4, <2>9 DEF Ack
  <2>10. CASE RouteRetry(w)
    <3>1. CASE Moves(w, "route", "ack") /\ Publish(<<o, RetryCount(w) + 1>>)
      <4>1. wpc[w] = "route" /\ UNCHANGED <<order, coupon>>
        BY <2>10, <3>1 DEF RouteRetry, Moves
      <4>2. \A m \in Message : m[1] # o => topic'[m] = topic[m]
        BY <1>0, <3>1, CopyFacts DEF Publish
      <4>3. \A v \in Worker : /\ wpc'[v] \in DecidingPc => wpc[v] \in DecidingPc
                              /\ wpc'[v] # "idle" => wpc[v] # "idle"
                              /\ OrderOf(v)' = OrderOf(v)
        BY <1>0, <3>1 DEF Moves, DecidingPc, OrderOf, ConsumerTypeOK
      <4>4. Pursued(o)
        BY <2>1, <4>1 DEF Pursued, DecidingPc, ConfirmingPc
      <4>5. \A p \in Order : Pursued(p)' => Pursued(p)
        BY <4>1, <4>2, <4>3, <4>4 DEF Pursued, Ledger!Exists
      <4> QED
        BY <1>1, <4>1, <4>5 DEF Ledger!Live
    <3>2. CASE wpc[w] = "route" /\ GivesUp(w)
      BY <2>4, <2>10, <3>2 DEF RouteRetry, GivesUp
    <3> QED
      BY <2>10, <3>1, <3>2 DEF RouteRetry, SendFails, HonestErrors
  <2>11. CASE DeadLetter(w)
    BY <2>3, <2>4, <2>11 DEF DeadLetter, GivesUp, DecidingPc
  <2>12. CASE Restock(w)
    BY <2>3, <2>4, <2>12 DEF Restock, GivesUp, DecidingPc
  <2>13. CASE RemoveMark(w)
    BY <2>3, <2>4, <2>13 DEF RemoveMark, GivesUp, DecidingPc
  <2>14. CASE RestoreCoupon(w)
    <3>1. ClaimsKept
      BY <2>3, <2>14 DEF RestoreCoupon, DecidingPc
    <3>2. DeliveredOnce /\ wpc[w] = "uncoupon" /\ wpc' = [wpc EXCEPT ![w] = "drop"]
      BY <2>1, <2>14 DEF RestoreCoupon, Moves, ConfirmingPc
    <3>3. PICK p \in Order : p = OrderOf(w)
      BY <2>0, <3>2
    <3>4. /\ ~Ledger!Exists(p) /\ pc[p] \in SentPc
          /\ \A m \in Message : topic[m] = "ready" => m[1] # p
          /\ \A v \in Worker : wpc[v] \in DecidingPc /\ v # w => OrderOf(v) # p
      BY <3>2, <3>3 DEF HoldInv, OneDecides, SentFirst, DecidingPc
    <3>5. UNCHANGED <<topic, order, pc, wmsg>>
      BY <2>14 DEF RestoreCoupon, Moves
    <3>6. \A v \in Worker : /\ wpc'[v] \in DecidingPc => wpc[v] \in DecidingPc /\ v # w
                            /\ OrderOf(v)' = OrderOf(v)
      BY <1>0, <3>2, <3>5 DEF DecidingPc, ConsumerTypeOK, OrderOf
    <3>7. ~Pursued(p)'
      BY <3>2, <3>4, <3>5, <3>6 DEF Pursued
    <3>8. ~ClaimsCoupon(p)'
      BY <3>4, <3>5, <3>7
         DEF ClaimsCoupon, SentPc, ClaimingPc, HoldingPc, Ledger!Live, Ledger!Exists
    <3>9. HasCoupon(p) => ClaimsCoupon(p)
      BY <3>2, <3>3 DEF ClaimsCoupon, Pursued, DecidingPc
    <3>10. ReturnCoupon(p) \/ UNCHANGED coupon
      BY <2>14, <3>3 DEF RestoreCoupon
    <3> QED
      BY <3>1, <3>8, <3>9, <3>10 DEF Returns
  <2>15. CASE DropReservation(w)
    BY <2>3, <2>15 DEF DropReservation, DecidingPc
  <2>16. CASE CrashWorker(w)
    BY <2>4, <2>16 DEF CrashWorker, DeliveredOnce
  <2>17. CASE Rebalance(w)
    <3>1. wpc' = [wpc EXCEPT ![w] = wpc[w]] /\ wmsg' = wmsg
      BY <1>0, <2>17 DEF Rebalance, ConsumerTypeOK
    <3>2. \A m \in Message : topic'[m] = topic[m] \/ m = wmsg[w]
      BY <1>0, <2>17 DEF Rebalance, StateTypeOK
    <3>3. ~DeliveredOnce
      BY <2>17 DEF Rebalance, DeliveredOnce
    <3> QED
      BY <2>2, <2>17, <3>1, <3>2, <3>3 DEF Rebalance
  <2> QED
    BY <1>3, <2>5, <2>6, <2>7, <2>8, <2>9, <2>10, <2>11, <2>12, <2>13, <2>14, <2>15,
       <2>16, <2>17 DEF WorkerStep
<1> QED
  BY <1>2, <1>3 DEF ConsumerNext

\* The steps of a cancellation and of a payment.
LEMMA CancelClaims ==
    ASSUME TypeOK, HoldInv, CancelNext, UNCHANGED <<pc, consumerVars>>
    PROVE  CouponMove
<1> PICK o \in Order : CancelStep(o) \/ CancelOrder(o) \/ Pay(o) \/ CrashCancel(o)
  BY DEF CancelNext
<1> USE DEF consumerVars, redisVars, mysqlVars, kafkaVars, sharedVars
<1>1. ASSUME UNCHANGED topic, Ledger!Live' \subseteq Ledger!Live,
             \A p \in Order : Ledger!Exists(p)' <=> Ledger!Exists(p)
      PROVE  ClaimsKept
  <2>1. \A p \in Order : Pursued(p)' => Pursued(p)
    BY <1>1 DEF Pursued, OrderOf
  <2> QED
    BY <1>1, <2>1 DEF ClaimsKept, ClaimsCoupon, HasCoupon
<1>2. CASE CancelTx(o)
  <2>1. \A p \in Order : order'[p] = IF p = o THEN "Cancel" ELSE order[p]
    BY <1>2 DEF CancelTx, TypeOK, StateTypeOK
  <2>2. order[o] = "Pending" /\ UNCHANGED topic
    BY <1>2 DEF CancelTx
  <2>3. ClaimsKept
    BY <1>1, <2>1, <2>2 DEF Ledger!Live, Ledger!Exists
  <2>4. pc[o] \in SentPc
    BY <2>2 DEF HoldInv, SentFirst, Ledger!Exists
  <2>5. ~Pursued(o)'
    BY <2>1, <2>2 DEF Pursued, OrderOf, HoldInv, OneDecides, Ledger!Exists
  <2>6. ~ClaimsCoupon(o)'
    <3>1. pc'[o] \notin ClaimingPc
      BY <2>4 DEF SentPc, ClaimingPc, HoldingPc
    <3>2. o \notin Ledger!Live'
      BY <2>1 DEF Ledger!Live
    <3> QED
      BY <2>5, <3>1, <3>2, Zenon DEF ClaimsCoupon, ClaimingPc, HoldingPc
  <2>7. HasCoupon(o) => ClaimsCoupon(o)
    BY <2>2 DEF ClaimsCoupon, Ledger!Live
  <2> QED
    BY <1>2, <2>3, <2>6, <2>7 DEF CancelTx, CouponMove, Returns
<1>3. CASE Pay(o)
  BY <1>1, <1>3 DEF Pay, TypeOK, StateTypeOK, CouponMove, Ledger!Live, Ledger!Exists
<1>4. CASE RestoreStock(o) \/ ClearMark(o) \/ DropTask(o) \/ CrashCancel(o)
  <2>1. UNCHANGED <<topic, order, coupon>>
    BY <1>4 DEF RestoreStock, ClearMark, DropTask, CrashCancel
  <2> QED
    BY <1>1, <2>1 DEF CouponMove, Ledger!Live, Ledger!Exists
<1> QED
  BY <1>2, <1>3, <1>4 DEF CancelStep, CancelOrder, HandleTimeout

\* Every step of the pipeline.
LEMMA CouponMoves ==
    ASSUME TypeOK, HoldInv, CouponInv, StockFaults, [Next]_vars
    PROVE  CouponMove
<1> USE DEF StockFaults
<1>0. ASSUME UNCHANGED <<topic, order, wpc, wmsg, pc, coupon>> PROVE CouponMove
  BY <1>0, ClaimsFrame DEF CouponMove, ClaimsKept
<1>1. CASE PlaceNext /\ UNCHANGED <<consumerVars, cpc>>
  BY <1>1, CallClaims
<1>2. CASE ConsumerNext /\ UNCHANGED <<pc, cpc>>
  BY <1>2, WorkerClaims
<1>3. CASE CancelNext /\ UNCHANGED <<pc, consumerVars>>
  BY <1>3, CancelClaims
<1>4. CASE DeadLettersNext /\ UNCHANGED <<pc, consumerVars, cpc>>
  <2>1. ASSUME NEW o \in Order, Replay(o) PROVE FALSE
    BY <2>1 DEF Replay, HasRow, HoldInv, NeverFails, DeliveredOnce
  <2> QED
    BY <1>0, <1>4, <2>1 DEF DeadLettersNext, PersistDeadLetter, consumerVars, mysqlVars
<1>5. CASE Expire /\ UNCHANGED <<pc, consumerVars, cpc>>
  BY <1>0, <1>5 DEF Expire, ExpireRequest, ExpireMark, ExpirePending, consumerVars,
                    mysqlVars, kafkaVars
<1>6. CASE UNCHANGED vars
  BY <1>0, <1>6 DEF vars, sharedVars, consumerVars, mysqlVars, kafkaVars
<1> QED
  BY <1>1, <1>2, <1>3, <1>4, <1>5, <1>6 DEF Next

LEMMA CouponStep ==
    ASSUME TypeOK, HoldInv, CouponInv, StockFaults, [Next]_vars
    PROVE  CouponInv'
<1>1. CouponMove
  BY CouponMoves
<1>2. ClaimedOnce'
  BY <1>1, CouponMoveKeeps DEF CouponInv
<1>3. \A p \in Order : pc'[p] = "coupon" => HasCoupon(p)
  <2>1. CASE UNCHANGED pc
    BY <2>1 DEF CouponInv
  <2>2. ASSUME NEW o \in Order, Admit(o) \/ Refuse(o) \/ CallStep(o) \/ CrashCall(o)
        PROVE  pc'[o] = "coupon" => pc[o] = "coupon" \/ HasCoupon(o)
    BY <2>2 DEF TypeOK, PlaceTypeOK, CallStep, Admit, Refuse, CrashCall, Qualify, CheckMark,
                CheckRecord, ApplyCoupon, DeductStock, AfterRefusal, SetPending, Send,
                RemarkBuy, UndoPending, UndoStock, UndoMark, UndoCoupon, Goes
  <2>3. ASSUME NEW o \in Order, Admit(o) \/ Refuse(o) \/ CallStep(o) \/ CrashCall(o)
        PROVE  \A p \in Order : p # o => pc'[p] = pc[p]
    BY <2>3 DEF TypeOK, PlaceTypeOK, CallStep, Admit, Refuse, CrashCall, Qualify, CheckMark,
                CheckRecord, ApplyCoupon, DeductStock, AfterRefusal, SetPending, Send,
                RemarkBuy, UndoPending, UndoStock, UndoMark, UndoCoupon, Goes
  <2> QED
    BY <2>1, <2>2, <2>3 DEF CouponInv, Next, PlaceNext, vars
<1> QED
  BY <1>2, <1>3 DEF CouponInv, HasCoupon

\* At first no coupon is claimed.
LEMMA CouponInit == Init => CouponInv
  BY DEF Init, StateInit, PlaceInit, ConsumerInit, CouponInv, ClaimedOnce, ClaimsCoupon,
         Pursued, ClaimingPc, HoldingPc, DecidingPc, Ledger!Live

\* The coupon of an order that stands is used, and by no other order that stands:
\* nobody returns it but the one who took it, and only for an order that fell.
THEOREM CouponAlwaysHeld == StockFaults /\ Spec => []CouponHeld
<1> SUFFICES ASSUME StockFaults PROVE Spec => []CouponHeld
  OBVIOUS
<1>1. CouponInv /\ StockInv /\ TypeOK /\ [Next]_vars => CouponInv'
  BY CouponStep DEF StockInv
<1>2. CouponInv => CouponHeld
  BY DEF CouponInv, ClaimedOnce, CouponHeld, ClaimsCoupon, HasCoupon, Ledger!Live
<1> QED
  BY <1>1, <1>2, CouponInit, StockInductive, TypeCorrect, PTL DEF Spec

-------------------------------------------------------------------------------
(* Buy marks. *)

\* A step adds marks and gives reservations back, or reserves under a mark that
\* was free, or removes the mark of an order that has nothing else.
MarkKept ==
    /\ buyMark \subseteq buyMark'
    /\ \A p \in Order : /\ p \in reserved' => p \in reserved
                        /\ Unmarking(p)' => \/ Unmarking(p)
                                            \/ p \in reserved /\ p \notin reserved'
MarkSet(o) ==
    /\ Reserve(o) /\ Mark(o) \notin buyMark /\ ~Unmarking(o)'
    /\ \A p \in Order : Unmarking(p)' => Unmarking(p)
MarkRemoved(o) ==
    /\ Unmark(o) /\ Unmarking(o) /\ ~Unmarking(o)' /\ UNCHANGED reserved
    /\ \A p \in Order : Unmarking(p)' => Unmarking(p)
MarkMove == MarkKept \/ \E o \in Order : MarkSet(o) \/ MarkRemoved(o)

\* Such a step keeps one holder of a mark.
LEMMA MarkMoveKeeps == ASSUME MarkInv, MarkMove PROVE MarkInv'
<1>1. CASE MarkKept
  BY <1>1 DEF MarkKept, MarkInv, HoldsMark, Mark
<1>2. ASSUME NEW o \in Order, MarkSet(o) PROVE MarkInv'
  <2>1. \A p \in Order : HoldsMark(p) => Mark(p) # Mark(o)
    BY <1>2 DEF MarkInv, MarkSet
  <2>2. \A p \in Order : /\ p \in reserved' <=> p \in reserved \/ p = o
                         /\ HoldsMark(p)' => HoldsMark(p) \/ p = o
    BY <1>2 DEF MarkSet, Reserve, HoldsMark
  <2>3. buyMark' = buyMark \cup {Mark(o)}
    BY <1>2 DEF MarkSet, Reserve
  <2>4. \A p \in Order : Mark(p)' = Mark(p)
    BY DEF Mark
  <2>5. \A p \in Order : Unmarking(p)' => p # o /\ Unmarking(p)
    BY <1>2 DEF MarkSet
  <2> QED
    BY <2>1, <2>2, <2>3, <2>4, <2>5 DEF MarkInv
<1>3. ASSUME NEW o \in Order, MarkRemoved(o) PROVE MarkInv'
  <2>1. o \notin reserved /\ Mark(o) \in buyMark
    BY <1>3 DEF MarkInv, MarkRemoved, HoldsMark
  <2>2. \A p \in Order : HoldsMark(p)' => HoldsMark(p) /\ Mark(p) # Mark(o)
    BY <1>3, <2>1 DEF MarkInv, MarkRemoved, HoldsMark
  <2>3. buyMark' = buyMark \ {Mark(o)}
    BY <1>3 DEF MarkRemoved, Unmark
  <2>4. \A p \in Order : Mark(p)' = Mark(p)
    BY DEF Mark
  <2> QED
    BY <1>3, <2>2, <2>3, <2>4 DEF MarkInv, MarkRemoved
<1> QED
  BY <1>1, <1>2, <1>3 DEF MarkMove

\* The steps of a call.
LEMMA CallMarks ==
    ASSUME TypeOK, HoldInv, MarkFaults, PlaceNext, UNCHANGED <<consumerVars, cpc>>
    PROVE  MarkMove
<1> PICK o \in Order : Admit(o) \/ Refuse(o) \/ CallStep(o) \/ CrashCall(o)
  BY DEF PlaceNext
<1> USE DEF TypeOK, PlaceTypeOK, consumerVars, redisVars, sharedVars, Goes, BestEffort,
            AfterRefusal
<1>1. ASSUME NEW to, pc' = [pc EXCEPT ![o] = to]
      PROVE  /\ \A p \in Order : p # o => (Unmarking(p)' => Unmarking(p))
             /\ to # "unmark" => \A p \in Order : Unmarking(p)' => Unmarking(p)
  BY <1>1 DEF Unmarking, OrderOf
\* An order whose message is not out is unmarked by its call alone.
<1>2. pc[o] \notin SentPc => (Unmarking(o) <=> pc[o] = "unmark")
  BY DEF Unmarking, HoldInv, CancelsHold, SentFirst, Ledger!Exists
<1>3. ASSUME NEW to, pc' = [pc EXCEPT ![o] = to], to # "unmark", pc[o] \notin SentPc
      PROVE  ~Unmarking(o)'
  <2>1. /\ pc'[o] # "unmark"
        /\ cpc' = cpc /\ wpc' = wpc /\ wmsg' = wmsg
    BY <1>3
  <2>2. cpc[o] # "unmark" /\ \A w \in Worker : ~(wpc[w] = "unmark" /\ OrderOf(w) = o)
    BY <1>3 DEF HoldInv, CancelsHold, SentFirst, Ledger!Exists
  <2> QED
    BY <2>1, <2>2 DEF Unmarking, OrderOf
<1>4. CASE DeductStock(o)
  <2>1. pc[o] = "deduct" /\ \E to : to # "unmark" /\ pc' = [pc EXCEPT ![o] = to]
    BY <1>4 DEF DeductStock
  <2>2. CASE Reserve(o) /\ CanReserve(o)
    BY <1>1, <1>3, <2>1, <2>2 DEF CanReserve, MarkSet, MarkMove, SentPc
  <2> QED
    BY <1>1, <1>4, <2>1, <2>2 DEF DeductStock, MarkMove, MarkKept
<1>5. CASE UndoStock(o)
  <2>1. /\ pc[o] = "restock" /\ pc' = [pc EXCEPT ![o] = "unmark"]
        /\ GiveBack(o) /\ UNCHANGED buyMark
    BY <1>5 DEF UndoStock, MarkFaults
  <2>2. o \in reserved
    BY <2>1 DEF HoldInv, CallsHold, HoldingPc
  <2> QED
    BY <1>1, <2>1, <2>2 DEF MarkMove, MarkKept, GiveBack
<1>6. CASE UndoMark(o)
  <2>0. AfterRefusal(o) # "unmark"
    OBVIOUS
  <2>1. /\ pc[o] = "unmark" /\ Unmark(o) /\ UNCHANGED reserved
        /\ pc' = [pc EXCEPT ![o] = AfterRefusal(o)]
    BY <1>6 DEF UndoMark, MarkFaults
  <2> QED
    BY <1>1, <1>2, <1>3, <2>0, <2>1 DEF MarkMove, MarkRemoved, SentPc
<1>7. CASE ~DeductStock(o) /\ ~UndoStock(o) /\ ~UndoMark(o)
  <2>1. /\ UNCHANGED reserved /\ buyMark \subseteq buyMark'
        /\ \E to : to # "unmark" /\ pc' = [pc EXCEPT ![o] = to]
    BY <1>7 DEF CallStep, Admit, Refuse, CrashCall, Qualify, CheckMark, CheckRecord,
                ApplyCoupon, SetPending, Send, RemarkBuy, UndoPending, UndoCoupon
  <2> QED
    BY <1>1, <2>1 DEF MarkMove, MarkKept
<1> QED
  BY <1>4, <1>5, <1>6, <1>7

\* The steps of a worker.
LEMMA WorkerMarks ==
    ASSUME TypeOK, HoldInv, MarkFaults, ConsumerNext, UNCHANGED <<pc, cpc>>
    PROVE  MarkMove
<1> USE DEF consumerVars, redisVars, TypeOK, ConsumerTypeOK
<1>1. ASSUME NEW m \in Message, ResumePassed(m) PROVE MarkMove
  BY <1>1 DEF ResumePassed, MarkMove, MarkKept, Unmarking, OrderOf
<1>2. ASSUME NEW w \in Worker, WorkerStep(w) \/ CrashWorker(w) \/ Rebalance(w)
      PROVE  MarkMove
  <2>1. ASSUME \A v \in Worker : v # w => wpc'[v] = wpc[v] /\ OrderOf(v)' = OrderOf(v),
               wpc'[w] # "unmark"
        PROVE  \A p \in Order : Unmarking(p)' => Unmarking(p)
    BY <2>1 DEF Unmarking
  <2>2. \A v \in Worker : v # w => wpc'[v] = wpc[v] /\ OrderOf(v)' = OrderOf(v)
    BY <1>2 DEF WorkerStep, Fetch, ConfirmTx, ClearPending, Schedule, Ack, RouteRetry,
                DeadLetter, Restock, RemoveMark, RestoreCoupon, DropReservation, CrashWorker,
                Rebalance, Moves, Leaves, GivesUp, Fails, DuplicateSucceeds, SendFails,
                StoreFails, OrderOf
  <2>3. CASE Restock(w)
    <3>1. /\ wpc[w] = "restock" /\ wpc' = [wpc EXCEPT ![w] = "unmark"] /\ wmsg' = wmsg
          /\ GiveBack(OrderOf(w)) /\ UNCHANGED buyMark
      BY <2>3 DEF Restock, StoreFails, MarkFaults, Moves
    <3>2. PICK o \in Order : o = OrderOf(w)
      BY <3>1, WorkerFacts
    <3>3. o \in reserved /\ o \notin reserved'
      BY <3>1, <3>2, ReturnedIsHeld DEF Returning, GiveBack
    <3>4. \A p \in Order : Unmarking(p)' => Unmarking(p) \/ p = o
      BY <2>2, <3>1, <3>2 DEF Unmarking, OrderOf
    <3> QED
      BY <3>1, <3>2, <3>3, <3>4 DEF MarkMove, MarkKept, GiveBack
  <2>4. CASE RemoveMark(w)
    <3>1. /\ wpc[w] = "unmark" /\ wpc'[w] # "unmark" /\ wmsg' = wmsg
          /\ Unmark(OrderOf(w)) /\ UNCHANGED reserved
      BY <2>4 DEF RemoveMark, StoreFails, MarkFaults, Moves
    <3>2. PICK o \in Order : o = OrderOf(w)
      BY <3>1, WorkerFacts
    <3>3. DeliveredOnce
      BY <3>1 DEF HoldInv, NeverFails, ConfirmingPc
    <3>4. /\ pc[o] # "unmark" /\ cpc[o] # "unmark"
          /\ \A v \in Worker : v # w /\ wpc[v] = "unmark" => OrderOf(v) # o
      BY <3>1, <3>2, <3>3
         DEF HoldInv, OneDecides, CancelsHold, SentFirst, SentPc, DecidingPc, Ledger!Exists
    <3>5. Unmarking(o) /\ ~Unmarking(o)'
      BY <2>2, <3>1, <3>2, <3>4 DEF Unmarking
    <3> QED
      BY <2>1, <2>2, <3>1, <3>2, <3>5 DEF MarkMove, MarkRemoved
  <2>5. CASE ~Restock(w) /\ ~RemoveMark(w)
    <3>1. UNCHANGED <<reserved, buyMark>>
      BY <1>2, <2>5 DEF WorkerStep, Fetch, ConfirmTx, ClearPending, Schedule, Ack, RouteRetry,
                        DeadLetter, RestoreCoupon, DropReservation, CrashWorker, Rebalance
    <3>2. wpc'[w] # "unmark" \/ (wpc'[w] = wpc[w] /\ wmsg' = wmsg)
      BY <1>2, <2>5
         DEF WorkerStep, Fetch, ConfirmTx, ClearPending, Schedule, Ack, RouteRetry, DeadLetter,
             RestoreCoupon, DropReservation, CrashWorker, Rebalance, Moves, Leaves, GivesUp,
             Fails, DuplicateSucceeds, SendFails
    <3>3. \A p \in Order : Unmarking(p)' => Unmarking(p)
      BY <2>1, <2>2, <3>2 DEF Unmarking, OrderOf
    <3> QED
      BY <3>1, <3>3 DEF MarkMove, MarkKept
  <2> QED
    BY <2>3, <2>4, <2>5
<1> QED
  BY <1>1, <1>2 DEF ConsumerNext

\* The steps of a cancellation and of a payment.
LEMMA CancelMarks ==
    ASSUME TypeOK, HoldInv, MarkFaults, CancelNext, UNCHANGED <<pc, consumerVars>>
    PROVE  MarkMove
<1> PICK o \in Order : CancelStep(o) \/ CancelOrder(o) \/ Pay(o) \/ CrashCancel(o)
  BY DEF CancelNext
<1> USE DEF TypeOK, CancelTypeOK, CancelGoes, consumerVars, redisVars, sharedVars, BestEffort
<1>1. ASSUME \A p \in Order : p # o => cpc'[p] = cpc[p]
      PROVE  /\ \A p \in Order : p # o => (Unmarking(p)' => Unmarking(p))
             /\ cpc'[o] # "unmark" => \A p \in Order : Unmarking(p)' => Unmarking(p)
  BY <1>1 DEF Unmarking, OrderOf
<1>2. CASE RestoreStock(o)
  <2>1. /\ cpc[o] = "restock" /\ cpc' = [cpc EXCEPT ![o] = "unmark"]
        /\ GiveBack(o) /\ UNCHANGED buyMark
    BY <1>2 DEF RestoreStock, MarkFaults
  <2>2. o \in reserved /\ o \notin reserved'
    BY <2>1 DEF HoldInv, CancelsHold, GiveBack
  <2> QED
    BY <1>1, <2>1, <2>2 DEF MarkMove, MarkKept, GiveBack
<1>3. CASE ClearMark(o)
  <2>1. /\ cpc[o] = "unmark" /\ cpc' = [cpc EXCEPT ![o] = "idle"]
        /\ Unmark(o) /\ UNCHANGED reserved
    BY <1>3 DEF ClearMark, MarkFaults
  <2>2. order[o] = "Cancel" /\ pc[o] \in SentPc
    BY <2>1 DEF HoldInv, CancelsHold, SentFirst, Ledger!Exists
  <2>3. \A w \in Worker : wpc[w] = "unmark" => OrderOf(w) # o
    BY <2>2 DEF HoldInv, OneDecides, NeverFails, ConfirmingPc, DecidingPc, Ledger!Exists
  <2>4. Unmarking(o) /\ ~Unmarking(o)'
    BY <2>1, <2>2, <2>3 DEF Unmarking, OrderOf, SentPc
  <2> QED
    BY <1>1, <2>1, <2>4 DEF MarkMove, MarkRemoved
<1>4. CASE CancelTx(o) \/ DropTask(o) \/ Pay(o) \/ CrashCancel(o)
  <2>1. UNCHANGED <<reserved, buyMark>>
    BY <1>4 DEF CancelTx, DropTask, Pay, CrashCancel
  <2>2. /\ \A p \in Order : p # o => cpc'[p] = cpc[p]
        /\ cpc'[o] = cpc[o] \/ cpc'[o] # "unmark"
    BY <1>4 DEF CancelTx, DropTask, Pay, CrashCancel
  <2>3. \A p \in Order : Unmarking(p)' => Unmarking(p)
    BY <1>1, <2>2 DEF Unmarking, OrderOf
  <2> QED
    BY <2>1, <2>3 DEF MarkMove, MarkKept
<1> QED
  BY <1>2, <1>3, <1>4 DEF CancelStep, CancelOrder, HandleTimeout

\* Every step of the pipeline.
LEMMA MarkMoves ==
    ASSUME TypeOK, HoldInv, MarkFaults, [Next]_vars
    PROVE  MarkMove
<1>0. ASSUME UNCHANGED <<reserved, buyMark, pc, wpc, wmsg, cpc>> PROVE MarkMove
  BY <1>0 DEF MarkMove, MarkKept, Unmarking, OrderOf
<1>1. CASE PlaceNext /\ UNCHANGED <<consumerVars, cpc>>
  BY <1>1, CallMarks
<1>2. CASE ConsumerNext /\ UNCHANGED <<pc, cpc>>
  BY <1>2, WorkerMarks
<1>3. CASE CancelNext /\ UNCHANGED <<pc, consumerVars>>
  BY <1>3, CancelMarks
<1>4. CASE DeadLettersNext /\ UNCHANGED <<pc, consumerVars, cpc>>
  BY <1>0, <1>4 DEF DeadLettersNext, PersistDeadLetter, Replay, consumerVars, redisVars
<1>5. CASE Expire
  BY <1>5 DEF Expire, MarkFaults
<1>6. CASE UNCHANGED vars
  BY <1>0, <1>6 DEF vars, sharedVars, redisVars, consumerVars
<1> QED
  BY <1>1, <1>2, <1>3, <1>4, <1>5, <1>6 DEF Next

LEMMA MarkStep ==
    ASSUME TypeOK, HoldInv, MarkInv, MarkFaults, [Next]_vars
    PROVE  MarkInv'
  BY MarkMoves, MarkMoveKeeps

\* At first there is no mark.
LEMMA MarkInit == Init => MarkInv
  BY DEF Init, StateInit, PlaceInit, ConsumerInit, CancelInit, MarkInv, HoldsMark, Unmarking

\* A user has one reservation of a sku at a time, through any order of failed
\* sends, final failures and cancellations that remove the mark.
THEOREM OneReservationAlways == MarkFaults /\ Spec => []OneReservationPerUser
<1> SUFFICES ASSUME MarkFaults PROVE Spec => []OneReservationPerUser
  OBVIOUS
<1>1. StockFaults
  BY DEF MarkFaults
<1>2. MarkInv /\ StockInv /\ TypeOK /\ [Next]_vars => MarkInv'
  BY MarkStep DEF StockInv
<1>3. MarkInv /\ TypeOK => OneReservationPerUser
  BY DEF MarkInv, HoldsMark, OneReservationPerUser, TypeOK, StateTypeOK
<1> QED
  BY <1>1, <1>2, <1>3, MarkInit, StockInductive, TypeCorrect, PTL DEF Spec
-------------------------------------------------------------------------------
(* Pending records. *)

\* A step admits nobody, or one order whose request is new.
AdmitsNew ==
    \/ /\ idempotent \subseteq idempotent'
       /\ \A p \in Order : Admitted(p)' => Admitted(p)
    \/ \E o \in Order :
          /\ RequestOf[o] \notin idempotent
          /\ idempotent' = idempotent \cup {RequestOf[o]}
          /\ \A p \in Order : p # o /\ Admitted(p)' => Admitted(p)

\* What is recorded of the admitted orders, which are of different requests.
OncePerRequest ==
    /\ \A o \in Order : Admitted(o) => RequestOf[o] \in idempotent
    /\ \A o, p \in Order :
          Admitted(o) /\ Admitted(p) /\ RequestOf[o] = RequestOf[p] => o = p

\* Such a step keeps one admitted order of a request.
LEMMA AdmissionKeeps == ASSUME OncePerRequest, AdmitsNew PROVE OncePerRequest'
<1>1. CASE /\ idempotent \subseteq idempotent'
           /\ \A p \in Order : Admitted(p)' => Admitted(p)
  BY <1>1 DEF OncePerRequest
<1>2. ASSUME NEW o \in Order, RequestOf[o] \notin idempotent,
             idempotent' = idempotent \cup {RequestOf[o]},
             \A p \in Order : p # o /\ Admitted(p)' => Admitted(p)
      PROVE  OncePerRequest'
  <2>1. \A p \in Order : Admitted(p) => RequestOf[p] # RequestOf[o]
    BY <1>2 DEF OncePerRequest
  <2> QED
    BY <1>2, <2>1 DEF OncePerRequest
<1> QED
  BY <1>1, <1>2 DEF AdmitsNew

\* Every step of the pipeline, without keys that expire.
LEMMA AdmissionStep ==
    ASSUME TypeOK, "Expiry" \notin Faults, [Next]_vars
    PROVE  AdmitsNew
<1> USE DEF TypeOK, PlaceTypeOK
<1>1. ASSUME UNCHANGED <<pc, idempotent>>, reserved' \subseteq reserved PROVE AdmitsNew
  BY <1>1 DEF AdmitsNew, Admitted
<1>2. ASSUME PlaceNext PROVE AdmitsNew
  <2> PICK o \in Order : Admit(o) \/ Refuse(o) \/ CallStep(o) \/ CrashCall(o)
    BY <1>2 DEF PlaceNext
  <2>1. \A p \in Order : p # o => pc'[p] = pc[p] /\ (p \in reserved' => p \in reserved)
    BY DEF CallStep, Admit, Refuse, CrashCall, Qualify, CheckMark, CheckRecord, ApplyCoupon,
           DeductStock, AfterRefusal, SetPending, Send, RemarkBuy, UndoPending, UndoStock,
           UndoMark, UndoCoupon, Goes, BestEffort, GiveBack, Reserve, sharedVars
  <2>2. CASE Admit(o)
    BY <2>1, <2>2 DEF Admit, AdmitsNew, Admitted
  <2>3. CASE ~Admit(o)
    <3>1. UNCHANGED idempotent
      BY <2>3 DEF CallStep, Refuse, CrashCall, Qualify, CheckMark, CheckRecord, ApplyCoupon,
                  DeductStock, SetPending, Send, RemarkBuy, UndoPending, UndoStock,
                  UndoMark, UndoCoupon, sharedVars, redisVars
    <3>2. CASE pc[o] \in {"start", "rejected"}
      <4>1. pc'[o] = "rejected" /\ UNCHANGED reserved
        BY <2>3, <3>2
           DEF CallStep, Refuse, CrashCall, Qualify, CheckMark, CheckRecord, ApplyCoupon,
               DeductStock, SetPending, Send, RemarkBuy, UndoPending, UndoStock, UndoMark,
               UndoCoupon, sharedVars, Goes, Terminal
      <4> QED
        BY <2>1, <3>1, <4>1 DEF AdmitsNew, Admitted
    <3>3. CASE Admitted(o)
      BY <2>1, <3>1, <3>3 DEF AdmitsNew, Admitted
    <3> QED
      BY <3>2, <3>3 DEF Admitted
  <2> QED
    BY <2>2, <2>3
<1>3. ASSUME ConsumerNext, UNCHANGED pc PROVE AdmitsNew
  <2>1. ASSUME NEW w \in Worker, Restock(w) PROVE reserved' \subseteq reserved
    BY <2>1 DEF Restock, StoreFails, GiveBack
  <2>2. UNCHANGED idempotent /\ reserved' \subseteq reserved
    BY <1>3, <2>1, WorkersWrite
  <2> QED
    BY <1>1, <1>3, <2>2
<1>4. ASSUME CancelNext, UNCHANGED pc PROVE AdmitsNew
  BY <1>1, <1>4
     DEF CancelNext, CancelStep, CancelOrder, HandleTimeout, CancelTx, RestoreStock,
         ClearMark, DropTask, Pay, CrashCancel, GiveBack, BestEffort, redisVars, sharedVars
<1>5. ASSUME DeadLettersNext, UNCHANGED pc PROVE AdmitsNew
  BY <1>1, <1>5 DEF DeadLettersNext, PersistDeadLetter, Replay, redisVars
<1>6. CASE UNCHANGED vars
  BY <1>1, <1>6 DEF vars, sharedVars, redisVars
<1> QED
  BY <1>2, <1>3, <1>4, <1>5, <1>6 DEF Next, Expire
\* A reservation without an order needs a record, except between the script that
\* takes it and the record, and while its call gives it back.
NeedsRecord(o) ==
    /\ o \in reserved /\ ~Ledger!Exists(o) /\ pc[o] \notin {"pend", "restock"}

\* A step writes the record of an admitted order, or drops it when it is not
\* needed any more.
RecordsStay == \A p \in Order : NeedsRecord(p)' => NeedsRecord(p)
Records(o) ==
    /\ Admitted(o) /\ pending' = [pending EXCEPT ![RequestOf[o]] = o]
    /\ \A p \in Order : p # o /\ NeedsRecord(p)' => NeedsRecord(p)
Forgets(o) ==
    Admitted(o) /\ DropPending(o) /\ ~NeedsRecord(o)' /\ RecordsStay
RecordMove ==
    \/ UNCHANGED pending /\ RecordsStay
    \/ \E o \in Order : Records(o) \/ Forgets(o)

AllRecorded == \A o \in Order : NeedsRecord(o) => pending[RequestOf[o]] = o

\* No record is overwritten or dropped by another order of its request, because
\* there is none that was admitted.
LEMMA RecordMoveKeeps ==
    ASSUME TypeOK, OncePerRequest, AllRecorded, RecordMove
    PROVE  AllRecorded'
<1> USE OrderFacts DEF TypeOK, StateTypeOK, AllRecorded
<1>0. \A p \in Order : NeedsRecord(p) => Admitted(p)
  BY DEF NeedsRecord, Admitted
<1>1. CASE UNCHANGED pending /\ RecordsStay
  BY <1>1 DEF RecordsStay
<1>2. ASSUME NEW o \in Order, Records(o) PROVE AllRecorded'
  <2>1. \A p \in Order : p # o /\ NeedsRecord(p)' => RequestOf[p] # RequestOf[o]
    BY <1>0, <1>2 DEF Records, OncePerRequest
  <2>2. \A r \in Request : pending'[r] = IF r = RequestOf[o] THEN o ELSE pending[r]
    BY <1>2 DEF Records
  <2> QED
    BY <1>2, <2>1, <2>2 DEF Records
<1>3. ASSUME NEW o \in Order, Forgets(o) PROVE AllRecorded'
  <2>1. \A p \in Order : p # o /\ NeedsRecord(p)' => RequestOf[p] # RequestOf[o]
    BY <1>0, <1>3 DEF Forgets, RecordsStay, OncePerRequest
  <2>2. \A r \in Request : r # RequestOf[o] => pending'[r] = pending[r]
    BY <1>3 DEF Forgets, DropPending
  <2> QED
    BY <1>3, <2>1, <2>2 DEF Forgets, RecordsStay
<1> QED
  BY <1>1, <1>2, <1>3 DEF RecordMove

\* The steps of a call.
LEMMA CallRecords ==
    ASSUME TypeOK, HoldInv, RecordFaults, PlaceNext, UNCHANGED <<consumerVars, cpc>>
    PROVE  RecordMove
<1> PICK o \in Order : Admit(o) \/ Refuse(o) \/ CallStep(o)
  BY DEF PlaceNext, CrashCall, RecordFaults, WholeCalls
<1> USE DEF TypeOK, PlaceTypeOK, RecordFaults, WholeCalls, Goes, BestEffort, sharedVars,
            redisVars, mysqlVars
<1>1. ASSUME NEW to, pc' = [pc EXCEPT ![o] = to], UNCHANGED order,
             \A p \in Order : p # o => (p \in reserved' => p \in reserved)
      PROVE  \A p \in Order : p # o => (NeedsRecord(p)' => NeedsRecord(p))
  BY <1>1 DEF NeedsRecord, Ledger!Exists
<1>2. ASSUME NEW to, pc' = [pc EXCEPT ![o] = to], UNCHANGED <<order, reserved, pending>>,
             pc[o] \notin {"pend", "restock"}
      PROVE  RecordMove
  BY <1>1, <1>2 DEF NeedsRecord, RecordMove, RecordsStay, Ledger!Exists
<1>3. CASE DeductStock(o)
  <2>1. UNCHANGED <<pending, order>> /\ pc[o] = "deduct"
    BY <1>3 DEF DeductStock
  <2>2. CASE Reserve(o) /\ pc' = [pc EXCEPT ![o] = "pend"]
    <3>1. ~NeedsRecord(o)'
      BY <2>2 DEF NeedsRecord
    <3> QED
      BY <1>1, <2>1, <2>2, <3>1 DEF Reserve, RecordMove, RecordsStay
  <2> QED
    BY <1>2, <1>3, <2>1, <2>2 DEF DeductStock
<1>4. CASE SetPending(o)
  <2>1. /\ pc[o] = "pend" /\ pc' = [pc EXCEPT ![o] = "send"] /\ UNCHANGED <<order, reserved>>
        /\ pending' = [pending EXCEPT ![RequestOf[o]] = o]
    BY <1>4 DEF SetPending
  <2> QED
    BY <1>1, <2>1 DEF RecordMove, Records, Admitted
<1>5. CASE UndoPending(o)
  <2>1. /\ pc[o] = "unpend" /\ pc' = [pc EXCEPT ![o] = "restock"]
        /\ UNCHANGED <<order, reserved>> /\ DropPending(o)
    BY <1>5 DEF UndoPending
  <2>2. ~NeedsRecord(o)'
    BY <2>1 DEF NeedsRecord
  <2> QED
    BY <1>1, <2>1, <2>2 DEF RecordMove, Forgets, RecordsStay, Admitted
<1>6. CASE UndoStock(o)
  <2>1. /\ pc' = [pc EXCEPT ![o] = "unmark"] /\ UNCHANGED <<order, pending>> /\ GiveBack(o)
    BY <1>6 DEF UndoStock
  <2>2. ~NeedsRecord(o)'
    BY <2>1 DEF NeedsRecord, GiveBack
  <2> QED
    BY <1>1, <2>1, <2>2 DEF RecordMove, RecordsStay, GiveBack
<1>7. CASE ~(DeductStock(o) \/ SetPending(o) \/ UndoPending(o) \/ UndoStock(o))
  <2>1. /\ UNCHANGED <<order, reserved, pending>> /\ pc[o] \notin {"pend", "restock"}
        /\ \E to : pc' = [pc EXCEPT ![o] = to]
    BY <1>7 DEF CallStep, Admit, Refuse, Qualify, CheckMark, CheckRecord, ApplyCoupon, Send,
                RemarkBuy, UndoMark, UndoCoupon
  <2> QED
    BY <1>2, <2>1
<1> QED
  BY <1>3, <1>4, <1>5, <1>6, <1>7

\* What a worker that is past the transaction, or past the command that gives the
\* stock back, knows of its order.
WorkersKnow ==
    \A w \in Worker :
        /\ wpc[w] = "clear" => Ledger!Exists(OrderOf(w))
        /\ wpc[w] \in {"unmark", "uncoupon", "drop"} => OrderOf(w) \notin reserved

\* The steps of a worker.
LEMMA WorkerRecords ==
    ASSUME TypeOK, HoldInv, WorkersKnow, RecordFaults, ConsumerNext, UNCHANGED <<pc, cpc>>
    PROVE  RecordMove
<1> USE DEF TypeOK, StateTypeOK, ConsumerTypeOK, RecordFaults, WholeCalls, redisVars, mysqlVars,
            BestEffort, Moves
<1>0. RecordsStay
  <2>1. /\ reserved' \subseteq reserved
        /\ \A p \in Order : Ledger!Exists(p) => Ledger!Exists(p)'
    <3>1. ASSUME NEW w \in Worker, Restock(w) PROVE reserved' \subseteq reserved
      BY <3>1 DEF Restock, StoreFails, GiveBack
    <3>2. ASSUME NEW w \in Worker, Confirm(OrderOf(w))
          PROVE  \A p \in Order : Ledger!Exists(p) => Ledger!Exists(p)'
      BY <3>2 DEF Confirm, Ledger!Exists
    <3>3. UNCHANGED order => \A p \in Order : Ledger!Exists(p) => Ledger!Exists(p)'
      BY DEF Ledger!Exists
    <3> QED
      BY <3>1, <3>2, <3>3, WorkersWrite
  <2> QED
    BY <2>1 DEF RecordsStay, NeedsRecord
<1>1. ASSUME NEW w \in Worker, ClearPending(w) \/ DropReservation(w) PROVE RecordMove
  <2>1. PICK o \in Order : o = OrderOf(w)
    BY <1>1, WorkerFacts DEF ClearPending, DropReservation
  <2>2. DropPending(o) /\ UNCHANGED <<order, reserved>>
    BY <1>1, <2>1 DEF ClearPending, DropReservation
  <2>3. Ledger!Exists(o) \/ o \notin reserved
    BY <1>1, <2>1 DEF ClearPending, DropReservation, WorkersKnow
  <2>4. Admitted(o)
    BY <1>1, <2>1 DEF ClearPending, DropReservation, HoldInv, SentFirst, SentPc, Admitted
  <2>5. ~NeedsRecord(o)'
    BY <2>2, <2>3 DEF NeedsRecord, Ledger!Exists
  <2> QED
    BY <1>0, <2>2, <2>4, <2>5 DEF RecordMove, Forgets
<1>2. CASE \A w \in Worker : ~ClearPending(w) /\ ~DropReservation(w)
  <2>1. UNCHANGED pending
    BY <1>2, WorkersWrite
  <2> QED
    BY <1>0, <2>1 DEF RecordMove
<1> QED
  BY <1>1, <1>2

\* A worker learns of the row from its transaction, and of the stock that was
\* given back from its own command.
LEMMA WorkerLearns ==
    ASSUME TypeOK, ConsumerNext, NEW v \in Worker
    PROVE  /\ wpc'[v] = "clear" =>
                \/ UNCHANGED <<wpc[v], wmsg[v]>>
                \/ UNCHANGED wmsg[v] /\ wpc[v] = "confirm" /\ Confirm(OrderOf(v))
           /\ wpc'[v] \in {"unmark", "uncoupon", "drop"} =>
                /\ UNCHANGED wmsg[v]
                /\ \/ wpc[v] \in {"unmark", "uncoupon", "drop"}
                   \/ wpc[v] = "restock" /\ GiveBack(OrderOf(v))
<1> USE DEF TypeOK, ConsumerTypeOK, consumerVars
<1>1. ASSUME NEW m \in Message, ResumePassed(m) PROVE UNCHANGED <<wpc, wmsg>>
  BY <1>1 DEF ResumePassed
<1>2. ASSUME NEW w \in Worker, WorkerStep(w) \/ CrashWorker(w) \/ Rebalance(w), w # v
      PROVE  UNCHANGED <<wpc[v], wmsg[v]>>
  BY <1>2 DEF WorkerStep, Fetch, ConfirmTx, ClearPending, Schedule, Ack, RouteRetry,
              DeadLetter, Restock, RemoveMark, RestoreCoupon, DropReservation, CrashWorker,
              Rebalance, Moves, Leaves, GivesUp, Fails, DuplicateSucceeds, SendFails,
              StoreFails
<1>3. CASE WorkerStep(v) \/ CrashWorker(v) \/ Rebalance(v)
  BY <1>3 DEF WorkerStep, Fetch, ConfirmTx, ClearPending, Schedule, Ack, RouteRetry,
              DeadLetter, Restock, RemoveMark, RestoreCoupon, DropReservation, CrashWorker,
              Rebalance, Moves, Leaves, GivesUp, Fails, DuplicateSucceeds, SendFails,
              StoreFails
<1> QED
  BY <1>1, <1>2, <1>3 DEF ConsumerNext

\* It knows so until it is done with the message.
LEMMA WorkersKnowStep ==
    ASSUME TypeOK, HoldInv, WorkersKnow, [Next]_vars
    PROVE  WorkersKnow'
<1> SUFFICES ASSUME NEW v \in Worker
             PROVE  /\ wpc'[v] = "clear" => Ledger!Exists(OrderOf(v))'
                    /\ wpc'[v] \in {"unmark", "uncoupon", "drop"} =>
                         OrderOf(v)' \notin reserved'
  BY DEF WorkersKnow
<1>1. wpc[v] # "idle" => OrderOf(v) \in Order /\ pc[OrderOf(v)] \in SentPc
  BY WorkerFacts DEF TypeOK, HoldInv, SentFirst
<1>2. wpc[v] # "idle" /\ OrderOf(v) \in reserved' => OrderOf(v) \in reserved
  BY <1>1, StockMoves DEF Reserve, GiveBack, SentPc
<1>3. CASE ConsumerNext
  <2>1. CASE wpc'[v] = "clear"
    <3>1. CASE UNCHANGED <<wpc[v], wmsg[v]>>
      <4>1. Ledger!Exists(OrderOf(v)) /\ OrderOf(v) \in Order
        BY <1>1, <2>1, <3>1 DEF WorkersKnow
      <4>2. order'[OrderOf(v)] # "none"
        BY <4>1, RowsStay DEF Ledger!Exists
      <4> QED
        BY <2>1, <3>1, <4>2 DEF OrderOf, Ledger!Exists
    <3>2. CASE UNCHANGED wmsg[v] /\ wpc[v] = "confirm" /\ Confirm(OrderOf(v))
      <4>1. order'[OrderOf(v)] = "Pending"
        BY <1>1, <3>2 DEF Confirm, TypeOK, StateTypeOK
      <4> QED
        BY <2>1, <3>2, <4>1 DEF OrderOf, Ledger!Exists
    <3> QED
      BY <1>3, <2>1, <3>1, <3>2, WorkerLearns
  <2>2. CASE wpc'[v] \in {"unmark", "uncoupon", "drop"}
    <3>1. /\ UNCHANGED wmsg[v] /\ wpc[v] # "idle"
          /\ OrderOf(v) \notin reserved \/ OrderOf(v) \notin reserved'
      BY <1>3, <2>2, WorkerLearns DEF WorkersKnow, GiveBack
    <3> QED
      BY <1>2, <2>2, <3>1 DEF OrderOf
  <2> QED
    BY <2>1, <2>2
<1>4. CASE UNCHANGED consumerVars
  <2>1. UNCHANGED <<wpc[v], wmsg[v]>>
    BY <1>4 DEF consumerVars
  <2>2. wpc[v] = "clear" => order'[OrderOf(v)] # "none"
    BY <1>1, RowsStay DEF WorkersKnow, Ledger!Exists
  <2> QED
    BY <1>2, <2>1, <2>2 DEF WorkersKnow, OrderOf, Ledger!Exists
<1> QED
  BY <1>3, <1>4 DEF Next, vars

\* A cancellation that has not given the stock back is about to: without a crash
\* or a commit that reports an error it goes on.
CancelsAnswer == \A o \in reserved : order[o] = "Cancel" => cpc[o] = "restock"

\* Every step of the pipeline.
LEMMA CancelsAnswerStep ==
    ASSUME TypeOK, HoldInv, CancelsAnswer, UndoFaults, [Next]_vars
    PROVE  CancelsAnswer'
<1> USE DEF TypeOK, StateTypeOK, CancelTypeOK, UndoFaults, StockFaults, HonestErrors
<1>1. \A o \in reserved' : o \in Order /\ (o \notin reserved => pc[o] = "deduct")
  BY StockMoves DEF Reserve, GiveBack
<1>2. \A o \in Order : order[o] = "Cancel" => pc[o] # "deduct"
  BY DEF HoldInv, SentFirst, SentPc, Ledger!Exists
<1>3. CASE CancelNext
  <2> PICK o \in Order : CancelStep(o) \/ CancelOrder(o) \/ Pay(o)
    BY <1>3 DEF CancelNext, CrashCancel
  <2>1. \A p \in Order : p # o => cpc'[p] = cpc[p] /\ order'[p] = order[p]
    BY DEF CancelStep, CancelOrder, HandleTimeout, CancelTx, RestoreStock, ClearMark,
           DropTask, Pay, CancelGoes, mysqlVars
  <2>2. CASE RestoreStock(o)
    BY <1>1, <1>2, <2>1, <2>2 DEF CancelsAnswer, RestoreStock, BestEffort, GiveBack
  <2>3. CASE CancelTx(o)
    BY <1>1, <1>2, <2>1, <2>3 DEF CancelsAnswer, CancelTx, CancelGoes
  <2>4. CASE ClearMark(o) \/ DropTask(o) \/ Pay(o)
    <3>1. reserved' = reserved /\ (cpc[o] = "restock" => cpc'[o] = cpc[o])
          /\ (order'[o] = "Cancel" => order[o] = "Cancel")
      BY <2>4 DEF ClearMark, DropTask, Pay, CancelGoes, mysqlVars
    <3> QED
      BY <2>1, <3>1 DEF CancelsAnswer
  <2> QED
    BY <2>2, <2>3, <2>4 DEF CancelStep, CancelOrder, HandleTimeout
<1>4. CASE ~CancelNext
  <2>1. UNCHANGED cpc
    BY <1>4 DEF Next, vars
  <2>2. \A p \in Order : order'[p] = "Cancel" => order[p] = "Cancel"
    BY <1>4, OrderWrites DEF Confirm
  <2> QED
    BY <1>1, <1>2, <2>1, <2>2 DEF CancelsAnswer
<1> QED
  BY <1>3, <1>4

\* The record of a reservation.
LEMMA RecordStep ==
    ASSUME TypeOK, HoldInv, RecordInv, RecordFaults, [Next]_vars
    PROVE  RecordInv'
<1> USE DEF RecordFaults
<1>1. OncePerRequest /\ AllRecorded /\ CancelsAnswer /\ WorkersKnow
  BY DEF RecordInv, OncePerRequest, AllRecorded, NeedsRecord, CancelsAnswer, WorkersKnow, TypeOK,
         StateTypeOK
<1>2. OncePerRequest' /\ CancelsAnswer' /\ WorkersKnow'
  <2>1. UndoFaults
    BY DEF WholeCalls, UndoFaults
  <2> QED
    BY <1>1, <2>1, AdmissionStep, AdmissionKeeps, CancelsAnswerStep, WorkersKnowStep
<1>3. RecordMove
  <2>1. ASSUME UNCHANGED <<pending, pc>>, reserved' \subseteq reserved PROVE RecordMove
    BY <2>1, RowsStay DEF RecordMove, RecordsStay, NeedsRecord, Ledger!Exists
  <2>2. CASE PlaceNext /\ UNCHANGED <<consumerVars, cpc>>
    BY <2>2, CallRecords
  <2>3. CASE ConsumerNext /\ UNCHANGED <<pc, cpc>>
    BY <1>1, <2>3, WorkerRecords
  <2>4. CASE CancelNext /\ UNCHANGED <<pc, consumerVars>>
    BY <2>1, <2>4
       DEF CancelNext, CancelStep, CancelOrder, HandleTimeout, CancelTx, RestoreStock,
           ClearMark, DropTask, Pay, CrashCancel, GiveBack, BestEffort, redisVars, sharedVars
  <2>5. CASE DeadLettersNext /\ UNCHANGED <<pc, consumerVars, cpc>>
    BY <2>1, <2>5 DEF DeadLettersNext, PersistDeadLetter, Replay, redisVars
  <2>6. CASE UNCHANGED vars
    BY <2>1, <2>6 DEF vars, sharedVars, redisVars
  <2> QED
    BY <2>2, <2>3, <2>4, <2>5, <2>6 DEF Next, Expire
<1>4. AllRecorded'
  BY <1>1, <1>3, RecordMoveKeeps
<1>5. reserved' \subseteq Order
  BY StockMoves DEF Reserve, GiveBack, TypeOK, StateTypeOK
<1> QED
  BY <1>2, <1>4, <1>5 DEF RecordInv, OncePerRequest, AllRecorded, NeedsRecord, CancelsAnswer,
                          WorkersKnow, Ledger!Exists

\* At first nobody is admitted.
LEMMA RecordInit == Init => RecordInv
  BY DEF Init, StateInit, PlaceInit, ConsumerInit, RecordInv, Admitted

\* No leak goes unnoticed: a reservation without an order, that nobody works on,
\* is one that CompensateTask finds.
THEOREM LeaksAreRecorded == RecordFaults /\ Spec => []LeakIsRecorded
<1> SUFFICES ASSUME RecordFaults PROVE Spec => []LeakIsRecorded
  OBVIOUS
<1>0. StockFaults
  BY DEF RecordFaults, WholeCalls
<1>1. RecordInv /\ StockInv /\ TypeOK /\ [Next]_vars => RecordInv'
  BY RecordStep DEF StockInv
<1>2. TypeOK /\ RecordInv => LeakIsRecorded
  <2> SUFFICES ASSUME TypeOK, RecordInv, NEW o \in reserved, o \notin Ledger!Live,
                      ~InProgress(o)
               PROVE  pending[RequestOf[o]] = o
    BY DEF LeakIsRecorded
  <2>1. o \in Order /\ order[o] \in Ledger!Status
    BY DEF TypeOK, StateTypeOK
  <2>2. ~Ledger!Exists(o)
    BY <2>1 DEF RecordInv, InProgress, Ledger!Live, Ledger!Exists, Ledger!Status
  <2>3. pc[o] \notin {"pend", "restock"}
    BY DEF InProgress
  <2> QED
    BY <2>2, <2>3 DEF RecordInv
<1> QED
  BY <1>0, <1>1, <1>2, RecordInit, StockInductive, TypeCorrect, PTL DEF Spec

-------------------------------------------------------------------------------
(* Used coupons. *)

\* Somebody answers for the coupon of o.
Answers(o) ==
    \/ o \in reserved /\ order[o] # "Cancel"
    \/ pc[o] \in {"deduct", "unmark", "uncoupon"}
    \/ \E w \in Worker : wpc[w] \in {"unmark", "uncoupon"} /\ OrderOf(w) = o

\* Who answered for a coupon still does, or has returned it; who takes one does
\* from then on.
AnswersKept == \A p \in Order : HasCoupon(p) /\ Answers(p) => Answers(p)'
AnswerMove ==
    \/ UNCHANGED coupon /\ AnswersKept
    \/ \E o \in Order : /\ TakeCoupon(o) /\ Answers(o)' /\ AnswersKept
    \/ \E o \in Order : /\ ReturnCoupon(o)
                        /\ \A p \in Order : p # o /\ HasCoupon(p) /\ Answers(p) => Answers(p)'

\* Such a step leaves no used coupon without an order that answers for it.
LEMMA AnswerMoveKeeps == ASSUME TypeOK, UsedInv, AnswerMove PROVE UsedInv'
<1> SUFFICES ASSUME NEW c \in Coupon, coupon'[c] = "used"
             PROVE  \E o \in Order : CouponOf[o] = c /\ Answers(o)'
  BY DEF UsedInv, Answers
<1> USE DEF TypeOK, StateTypeOK
<1>0. \A o \in Order : CouponOf[o] = c => HasCoupon(o)
  BY PipelineAssumption DEF HasCoupon
<1>1. coupon[c] = "used" => \E o \in Order : CouponOf[o] = c /\ Answers(o)
  BY DEF UsedInv, Answers
<1>2. CASE UNCHANGED coupon /\ AnswersKept
  BY <1>0, <1>1, <1>2 DEF AnswersKept
<1>3. ASSUME NEW o \in Order, TakeCoupon(o), Answers(o)', AnswersKept
      PROVE  \E p \in Order : CouponOf[p] = c /\ Answers(p)'
  <2>1. CASE CouponOf[o] = c
    BY <1>3, <2>1
  <2>2. CASE CouponOf[o] # c
    <3>1. coupon[c] = "used"
      BY <1>3, <2>2 DEF TakeCoupon
    <3> QED
      BY <1>0, <1>1, <1>3, <3>1 DEF AnswersKept
  <2> QED
    BY <2>1, <2>2
<1>4. ASSUME NEW o \in Order, ReturnCoupon(o),
             \A p \in Order : p # o /\ HasCoupon(p) /\ Answers(p) => Answers(p)'
      PROVE  \E p \in Order : CouponOf[p] = c /\ Answers(p)'
  <2>1. CouponOf[o] # c /\ coupon[c] = "used"
    BY <1>4 DEF ReturnCoupon
  <2> QED
    BY <1>0, <1>1, <1>4, <2>1
<1> QED
  BY <1>2, <1>3, <1>4 DEF AnswerMove

\* The steps of a call.
LEMMA CallAnswers ==
    ASSUME TypeOK, HoldInv, WholeCalls, PlaceNext, UNCHANGED <<consumerVars, cpc>>
    PROVE  AnswerMove
<1> PICK o \in Order : Admit(o) \/ Refuse(o) \/ CallStep(o)
  BY DEF PlaceNext, CrashCall, WholeCalls
<1> USE DEF TypeOK, PlaceTypeOK, WholeCalls, Goes, BestEffort, sharedVars, redisVars,
            mysqlVars, consumerVars, AfterRefusal
\* Another order is not touched, and this one has no row while its call can
\* still reserve or undo.
<1>1. ASSUME NEW to, pc' = [pc EXCEPT ![o] = to], UNCHANGED order,
             \A p \in Order : p # o => (p \in reserved => p \in reserved')
      PROVE  \A p \in Order : p # o => (Answers(p) => Answers(p)')
  BY <1>1 DEF Answers, OrderOf
<1>2. ASSUME NEW to, pc' = [pc EXCEPT ![o] = to], UNCHANGED <<order, coupon>>,
             \A p \in Order : p # o => (p \in reserved => p \in reserved'),
             HasCoupon(o) /\ Answers(o) => Answers(o)'
      PROVE  AnswerMove
  BY <1>1, <1>2 DEF AnswerMove, AnswersKept
<1>3. CASE DeductStock(o)
  <2>1. /\ pc[o] = "deduct" /\ UNCHANGED <<order, coupon>>
        /\ \/ Reserve(o) /\ pc' = [pc EXCEPT ![o] = "pend"]
           \/ UNCHANGED reserved /\ pc' = [pc EXCEPT ![o] = AfterRefusal(o)]
    BY <1>3 DEF DeductStock
  <2>2. order[o] # "Cancel"
    BY <2>1 DEF HoldInv, SentFirst, SentPc, Ledger!Exists
  <2>3. HasCoupon(o) => Answers(o)'
    BY <2>1, <2>2 DEF Answers, Reserve
  <2> QED
    BY <1>2, <2>1, <2>3 DEF Reserve
<1>4. CASE ApplyCoupon(o)
  <2>1. /\ pc[o] = "coupon" /\ UNCHANGED <<order, reserved>>
        /\ \/ TakeCoupon(o) /\ pc' = [pc EXCEPT ![o] = "deduct"]
           \/ UNCHANGED coupon /\ pc' = [pc EXCEPT ![o] = "rejected"]
    BY <1>4 DEF ApplyCoupon
  <2>2. Answers(o) => Answers(o)'
    BY <2>1 DEF Answers, OrderOf
  <2>3. TakeCoupon(o) /\ pc'[o] = "deduct" => Answers(o)'
    BY DEF Answers
  <2>4. AnswersKept
    BY <1>1, <2>1, <2>2 DEF AnswersKept
  <2> QED
    BY <2>1, <2>3, <2>4 DEF AnswerMove
<1>5. CASE UndoStock(o)
  <2>1. /\ pc' = [pc EXCEPT ![o] = "unmark"] /\ UNCHANGED <<order, coupon>> /\ GiveBack(o)
    BY <1>5 DEF UndoStock
  <2>2. Answers(o)'
    BY <2>1 DEF Answers
  <2> QED
    BY <1>2, <2>1, <2>2 DEF GiveBack
<1>6. CASE UndoMark(o)
  <2>1. /\ pc' = [pc EXCEPT ![o] = AfterRefusal(o)] /\ UNCHANGED <<order, coupon, reserved>>
    BY <1>6 DEF UndoMark
  <2>2. HasCoupon(o) => Answers(o)'
    BY <2>1 DEF Answers
  <2> QED
    BY <1>2, <2>1, <2>2
<1>7. CASE UndoCoupon(o)
  <2>1. /\ pc' = [pc EXCEPT ![o] = "rejected"] /\ UNCHANGED <<order, reserved>>
        /\ ReturnCoupon(o)
    BY <1>7 DEF UndoCoupon
  <2> QED
    BY <1>1, <2>1 DEF AnswerMove
<1>8. CASE ~(DeductStock(o) \/ ApplyCoupon(o) \/ UndoStock(o) \/ UndoMark(o) \/ UndoCoupon(o))
  <2>1. /\ UNCHANGED <<order, reserved, coupon>>
        /\ pc[o] \notin {"deduct", "unmark", "uncoupon"}
        /\ \E to : pc' = [pc EXCEPT ![o] = to]
    BY <1>8 DEF CallStep, Admit, Refuse, Qualify, CheckMark, CheckRecord, SetPending, Send,
                RemarkBuy, UndoPending
  <2>2. Answers(o) => Answers(o)'
    BY <2>1 DEF Answers, OrderOf
  <2> QED
    BY <1>2, <2>1, <2>2
<1> QED
  BY <1>3, <1>4, <1>5, <1>6, <1>7, <1>8

\* The steps of a worker.  One that compensates is not stopped halfway: where
\* workers are stopped nothing is compensated.
LEMMA WorkerAnswers ==
    ASSUME TypeOK, HoldInv, WholeCalls, ConsumerNext, UNCHANGED <<pc, cpc>>
    PROVE  AnswerMove
<1> USE DEF TypeOK, StateTypeOK, ConsumerTypeOK, WholeCalls, StockFaults, redisVars,
            mysqlVars, consumerVars, BestEffort
<1>0. \A p \in Order : order[p] # "Cancel" => order'[p] # "Cancel"
  BY WorkersWrite DEF Confirm
<1>1. ASSUME NEW m \in Message, ResumePassed(m) PROVE AnswerMove
  BY <1>1 DEF ResumePassed, AnswerMove, AnswersKept, Answers, OrderOf
<1>2. ASSUME NEW w \in Worker, WorkerStep(w) \/ CrashWorker(w) \/ Rebalance(w)
      PROVE  AnswerMove
  <2>1. \A v \in Worker : v # w => wpc'[v] = wpc[v] /\ OrderOf(v)' = OrderOf(v)
    BY <1>2 DEF WorkerStep, Fetch, ConfirmTx, ClearPending, Schedule, Ack, RouteRetry,
                DeadLetter, Restock, RemoveMark, RestoreCoupon, DropReservation, CrashWorker,
                Rebalance, Moves, Leaves, GivesUp, Fails, DuplicateSucceeds, SendFails,
                StoreFails, OrderOf
  <2>2. CASE Restock(w)
    <3>1. /\ wpc[w] = "restock" /\ wpc' = [wpc EXCEPT ![w] = "unmark"] /\ wmsg' = wmsg
          /\ GiveBack(OrderOf(w)) /\ UNCHANGED <<order, coupon>>
      BY <2>2 DEF Restock, Moves, StoreFails
    <3>2. PICK o \in Order : o = OrderOf(w)
      BY <3>1, WorkerFacts
    <3>3. Answers(o)'
      BY <3>1, <3>2 DEF Answers, OrderOf
    <3>4. \A p \in Order : p # o /\ Answers(p) => Answers(p)'
      BY <2>1, <3>1, <3>2 DEF Answers, GiveBack
    <3> QED
      BY <3>1, <3>3, <3>4 DEF AnswerMove, AnswersKept
  <2>3. CASE RemoveMark(w)
    <3>1. /\ wpc[w] = "unmark" /\ wmsg' = wmsg /\ UNCHANGED <<order, coupon, reserved>>
          /\ wpc'[w] = IF HasCoupon(OrderOf(w)) THEN "uncoupon" ELSE "drop"
      BY <2>3 DEF RemoveMark, Moves, StoreFails
    <3>2. PICK o \in Order : o = OrderOf(w)
      BY <3>1, WorkerFacts
    <3>3. HasCoupon(o) => Answers(o)'
      BY <3>1, <3>2 DEF Answers, OrderOf
    <3>4. \A p \in Order : p # o /\ Answers(p) => Answers(p)'
      BY <2>1, <3>1, <3>2 DEF Answers
    <3> QED
      BY <3>1, <3>3, <3>4 DEF AnswerMove, AnswersKept
  <2>4. CASE RestoreCoupon(w)
    <3>1. /\ wpc[w] = "uncoupon" /\ UNCHANGED <<order, reserved>>
          /\ ReturnCoupon(OrderOf(w))
      BY <2>4 DEF RestoreCoupon, Moves
    <3>2. PICK o \in Order : o = OrderOf(w)
      BY <3>1, WorkerFacts
    <3>3. \A p \in Order : p # o /\ Answers(p) => Answers(p)'
      BY <2>1, <3>1, <3>2 DEF Answers
    <3> QED
      BY <3>1, <3>2, <3>3 DEF AnswerMove
  <2>5. CASE ~(Restock(w) \/ RemoveMark(w) \/ RestoreCoupon(w))
    <3>1. UNCHANGED <<coupon, reserved>>
      BY <1>2, <2>5
         DEF WorkerStep, Fetch, ConfirmTx, ClearPending, Schedule, Ack, RouteRetry,
             DeadLetter, DropReservation, CrashWorker, Rebalance
    <3>2. wpc[w] \in {"unmark", "uncoupon"} => UNCHANGED <<wpc, wmsg>>
      BY <1>2, <2>5
         DEF WorkerStep, Fetch, ConfirmTx, ClearPending, Schedule, Ack, RouteRetry,
             DeadLetter, DropReservation, CrashWorker, Rebalance, Moves, DeliveredOnce, HoldInv,
             NeverFails, ConfirmingPc
    <3>3. \A p \in Order : Answers(p) => Answers(p)'
      BY <1>0, <2>1, <3>1, <3>2 DEF Answers, OrderOf
    <3> QED
      BY <3>1, <3>3 DEF AnswerMove, AnswersKept
  <2> QED
    BY <2>2, <2>3, <2>4, <2>5
<1> QED
  BY <1>1, <1>2 DEF ConsumerNext

\* The steps of a cancellation and of a payment.
LEMMA CancelAnswers ==
    ASSUME TypeOK, HoldInv, WholeCalls, CancelNext, UNCHANGED <<pc, consumerVars>>
    PROVE  AnswerMove
<1> PICK o \in Order : CancelStep(o) \/ CancelOrder(o) \/ Pay(o) \/ CrashCancel(o)
  BY DEF CancelNext
<1> USE DEF TypeOK, StateTypeOK, CancelTypeOK, CancelGoes, consumerVars, redisVars, mysqlVars,
            sharedVars, BestEffort
<1>1. CASE CancelTx(o)
  <2>1. /\ UNCHANGED reserved /\ ReturnCoupon(o)
        /\ \A p \in Order : p # o => order'[p] = order[p]
    BY <1>1 DEF CancelTx
  <2>2. \A p \in Order : p # o /\ Answers(p) => Answers(p)'
    BY <2>1 DEF Answers, OrderOf
  <2> QED
    BY <2>1, <2>2 DEF AnswerMove
<1>2. CASE RestoreStock(o)
  <2>1. order[o] = "Cancel" /\ GiveBack(o) /\ UNCHANGED <<order, coupon>>
    BY <1>2 DEF RestoreStock, WholeCalls, HoldInv, CancelsHold
  <2>2. \A p \in Order : Answers(p) => Answers(p)'
    BY <2>1 DEF Answers, OrderOf, GiveBack
  <2> QED
    BY <2>1, <2>2 DEF AnswerMove, AnswersKept
<1>3. CASE ClearMark(o) \/ DropTask(o) \/ Pay(o) \/ CrashCancel(o)
  <2>1. /\ UNCHANGED <<reserved, coupon>>
        /\ \A p \in Order : order[p] # "Cancel" => order'[p] # "Cancel"
    BY <1>3 DEF ClearMark, DropTask, Pay, CrashCancel
  <2>2. \A p \in Order : Answers(p) => Answers(p)'
    BY <2>1 DEF Answers, OrderOf
  <2> QED
    BY <2>1, <2>2 DEF AnswerMove, AnswersKept
<1> QED
  BY <1>1, <1>2, <1>3 DEF CancelStep, CancelOrder, HandleTimeout

\* Every step of the pipeline.
LEMMA UsedStep ==
    ASSUME TypeOK, HoldInv, UsedInv, WholeCalls, [Next]_vars
    PROVE  UsedInv'
<1>0. ASSUME UNCHANGED <<pc, wpc, wmsg, reserved, order, coupon>> PROVE AnswerMove
  BY <1>0 DEF AnswerMove, AnswersKept, Answers, OrderOf
<1>1. AnswerMove
  <2> USE DEF consumerVars, mysqlVars
  <2>1. CASE PlaceNext /\ UNCHANGED <<consumerVars, cpc>>
    BY <2>1, CallAnswers
  <2>2. CASE ConsumerNext /\ UNCHANGED <<pc, cpc>>
    BY <2>2, WorkerAnswers
  <2>3. CASE CancelNext /\ UNCHANGED <<pc, consumerVars>>
    BY <2>3, CancelAnswers
  <2>4. CASE DeadLettersNext /\ UNCHANGED <<pc, consumerVars, cpc>>
    BY <1>0, <2>4 DEF DeadLettersNext, PersistDeadLetter, Replay
  <2>5. CASE Expire /\ UNCHANGED <<pc, consumerVars, cpc>>
    BY <1>0, <2>5 DEF Expire, ExpireRequest, ExpireMark, ExpirePending
  <2>6. CASE UNCHANGED vars
    BY <1>0, <2>6 DEF vars, sharedVars
  <2> QED
    BY <2>1, <2>2, <2>3, <2>4, <2>5, <2>6 DEF Next
<1> QED
  BY <1>1, AnswerMoveKeeps

\* At first no coupon is used.
LEMMA UsedInit == Init => UsedInv
  BY DEF Init, StateInit, UsedInv

\* No coupon is stranded: one that is used is used by an order, by a reservation,
\* or by a call or a worker that is about to reserve or to return it.
THEOREM UsedCouponsAnswered == WholeCalls /\ Spec => []NoCouponStranded
<1> SUFFICES ASSUME WholeCalls PROVE Spec => []NoCouponStranded
  OBVIOUS
<1>0. StockFaults
  BY DEF WholeCalls
<1>1. UsedInv /\ StockInv /\ TypeOK /\ [Next]_vars => UsedInv'
  BY UsedStep DEF StockInv
<1>2. UsedInv => NoCouponStranded
  BY DEF UsedInv, NoCouponStranded, InProgress
<1> QED
  BY <1>0, <1>1, <1>2, UsedInit, StockInductive, TypeCorrect, PTL DEF Spec

-------------------------------------------------------------------------------
(* Messages and those who process them, under every fault. *)

\* What may become of a message.
Fate == {"absent", "ready", "taken", "passed", "done"}

\* What is taken stays with whom it is with.
LEMMA TakenFrame ==
    ASSUME TakenOnce, UNCHANGED <<wmsg, fenced>>,
           \A w \in Worker : wpc[w] = "idle" <=> wpc'[w] = "idle",
           \A m \in Message : topic[m] = "taken" <=> topic'[m] = "taken",
           ConsumerTypeOK
    PROVE  TakenOnce'
<1>1. \A w \in Worker : wpc[w] # "idle" => wmsg[w] \in Message
  BY DEF ConsumerTypeOK
<1>2. fenced \subseteq Worker
  BY DEF ConsumerTypeOK
<1> QED
  BY <1>1, <1>2 DEF TakenOnce

\* A worker takes a message that nobody has.
LEMMA FetchTakes ==
    ASSUME StateTypeOK, ConsumerTypeOK, TakenOnce, NEW w \in Worker, NEW m \in Message,
           Fetch(w, m)
    PROVE  TakenOnce'
<1> USE DEF Fetch, StateTypeOK, ConsumerTypeOK
<1>1. /\ \A n \in Message : topic'[n] = IF n = m THEN "taken" ELSE topic[n]
      /\ \A v \in Worker : /\ wpc'[v] = IF v = w THEN "confirm" ELSE wpc[v]
                           /\ wmsg'[v] = IF v = w THEN m ELSE wmsg[v]
      /\ fenced' = fenced /\ w \notin fenced /\ topic[m] = "ready"
  BY DEF TakenOnce
<1>2. \A v \in Worker \ fenced : wpc[v] # "idle" => wmsg[v] \in Message /\ wmsg[v] # m
  BY <1>1 DEF TakenOnce
<1>3. \A v \in fenced' : wpc'[v] # "idle"
  BY <1>1 DEF TakenOnce
<1>4. \A v \in Worker \ fenced' : wpc'[v] # "idle" => topic'[wmsg'[v]] = "taken"
  BY <1>1, <1>2 DEF TakenOnce
<1>5. \A v, u \in Worker \ fenced' :
         wpc'[v] # "idle" /\ wpc'[u] # "idle" /\ wmsg'[v] = wmsg'[u] => v = u
  BY <1>1, <1>2 DEF TakenOnce
<1>6. \A n \in Message : topic'[n] = "taken" =>
         \E v \in Worker \ fenced' : wpc'[v] # "idle" /\ wmsg'[v] = n
  BY <1>1, <1>2 DEF TakenOnce
<1> QED
  BY <1>3, <1>4, <1>5, <1>6 DEF TakenOnce

\* A worker leaves its message, which is not with it any more.
LEMMA LeavesTaken ==
    ASSUME StateTypeOK, ConsumerTypeOK, TakenOnce, NEW w \in Worker, wpc[w] # "idle",
           NEW outcome, outcome # "taken", NEW t \in [Message -> Fate],
           \A m \in Message : t[m] = "taken" <=> topic[m] = "taken",
           Leaves(w, t, outcome)
    PROVE  TakenOnce'
<1> USE DEF Leaves, ConsumerTypeOK
<1>1. /\ \A v \in Worker : /\ wpc'[v] = IF v = w THEN "idle" ELSE wpc[v]
                           /\ wmsg'[v] = IF v = w THEN None ELSE wmsg[v]
      /\ fenced' = fenced \ {w}
      /\ wmsg[w] \in Message
  OBVIOUS
<1>2. \A n \in Message :
         topic'[n] = IF w \notin fenced /\ n = wmsg[w] THEN outcome ELSE t[n]
  BY <1>1
<1>3. \A v \in Worker \ fenced' : wpc'[v] # "idle" =>
         /\ v \in Worker \ fenced /\ v # w /\ wmsg'[v] = wmsg[v] /\ wmsg[v] \in Message
         /\ wpc[v] # "idle" /\ (w \notin fenced => wmsg[v] # wmsg[w])
  BY <1>1 DEF TakenOnce
<1>4. \A v \in fenced' : wpc'[v] # "idle"
  BY <1>1 DEF TakenOnce
<1>5. \A v \in Worker \ fenced' : wpc'[v] # "idle" => topic'[wmsg'[v]] = "taken"
  BY <1>2, <1>3 DEF TakenOnce
<1>6. \A v, u \in Worker \ fenced' :
         wpc'[v] # "idle" /\ wpc'[u] # "idle" /\ wmsg'[v] = wmsg'[u] => v = u
  BY <1>3 DEF TakenOnce
<1>7. ASSUME NEW n \in Message, topic'[n] = "taken"
      PROVE  \E v \in Worker \ fenced' : wpc'[v] # "idle" /\ wmsg'[v] = n
  <2>1. topic[n] = "taken" /\ ~(w \notin fenced /\ n = wmsg[w])
    BY <1>2, <1>7
  <2>2. PICK v \in Worker \ fenced : wpc[v] # "idle" /\ wmsg[v] = n
    BY <2>1 DEF TakenOnce
  <2>3. v # w
    BY <2>1, <2>2
  <2> QED
    BY <1>1, <2>2, <2>3
<1> QED
  BY <1>4, <1>5, <1>6, <1>7 DEF TakenOnce

\* A partition goes to another worker, who may read its message again.
LEMMA RebalanceTakes ==
    ASSUME StateTypeOK, ConsumerTypeOK, TakenOnce, NEW w \in Worker, Rebalance(w)
    PROVE  TakenOnce'
<1> USE DEF Rebalance, StateTypeOK, ConsumerTypeOK
<1>1. /\ UNCHANGED <<wpc, wmsg>> /\ fenced' = fenced \cup {w}
      /\ wmsg[w] \in Message /\ wpc[w] # "idle"
      /\ \A n \in Message : topic'[n] = IF n = wmsg[w] THEN "ready" ELSE topic[n]
  OBVIOUS
<1>2. \A v \in Worker \ fenced' : wpc[v] # "idle" =>
         v \in Worker \ fenced /\ wmsg[v] \in Message /\ wmsg[v] # wmsg[w]
  BY <1>1 DEF TakenOnce
<1>3. \A v \in fenced' : wpc'[v] # "idle"
  BY <1>1 DEF TakenOnce
<1>4. \A v \in Worker \ fenced' : wpc'[v] # "idle" => topic'[wmsg'[v]] = "taken"
  BY <1>1, <1>2 DEF TakenOnce
<1>5. \A v, u \in Worker \ fenced' :
         wpc'[v] # "idle" /\ wpc'[u] # "idle" /\ wmsg'[v] = wmsg'[u] => v = u
  BY <1>1, <1>2 DEF TakenOnce
<1>6. ASSUME NEW n \in Message, topic'[n] = "taken"
      PROVE  \E v \in Worker \ fenced' : wpc'[v] # "idle" /\ wmsg'[v] = n
  <2>1. topic[n] = "taken" /\ n # wmsg[w]
    BY <1>1, <1>6
  <2>2. PICK v \in Worker \ fenced : wpc[v] # "idle" /\ wmsg[v] = n
    BY <2>1 DEF TakenOnce
  <2> QED
    BY <1>1, <2>1, <2>2
<1> QED
  BY <1>3, <1>4, <1>5, <1>6 DEF TakenOnce

\* A copy is taken where it was before.
LEMMA CopyTaken ==
    ASSUME StateTypeOK, NEW m
    PROVE  /\ WithCopy(m) \in [Message -> Fate]
           /\ \A n \in Message : WithCopy(m)[n] = "taken" <=> topic[n] = "taken"
  BY CopyFacts, CopyType DEF StateTypeOK, Fate

\* Every step of the pipeline.
LEMMA TakenStep ==
    ASSUME TypeOK, TakenOnce, [Next]_vars
    PROVE  TakenOnce'
<1> USE DEF TypeOK
<1>0. topic \in [Message -> Fate]
  BY DEF StateTypeOK, Fate
<1>1. CASE ~ConsumerNext
  <2>1. \A m \in Message : topic[m] = "taken" <=> topic'[m] = "taken"
    <3>1. ASSUME NEW m, Publish(m)
          PROVE  \A n \in Message : topic[n] = "taken" <=> topic'[n] = "taken"
      BY <3>1, CopyTaken DEF Publish
    <3>2. CASE \E o \in Order : Send(o) \/ Replay(o)
      BY <3>1, <3>2 DEF Send, Replay, SendFails
    <3>3. CASE \A o \in Order : ~Send(o) /\ ~Replay(o)
      <4>1. UNCHANGED topic
        BY <1>1, <3>3
           DEF Next, PlaceNext, CallStep, Admit, Refuse, CrashCall, Qualify, CheckMark,
               CheckRecord, ApplyCoupon, DeductStock, SetPending, RemarkBuy, UndoPending,
               UndoStock, UndoMark, UndoCoupon, CancelNext, CancelStep, CancelOrder,
               HandleTimeout, CancelTx, RestoreStock, ClearMark, DropTask, Pay,
               CrashCancel, DeadLettersNext, PersistDeadLetter, Expire, ExpireRequest,
               ExpireMark, ExpirePending, vars, sharedVars, kafkaVars
      <4> QED
        BY <4>1
    <3> QED
      BY <3>2, <3>3
  <2>2. UNCHANGED consumerVars
    BY <1>1 DEF Next, vars
  <2> QED
    BY <2>1, <2>2, TakenFrame DEF consumerVars
<1>2. CASE ConsumerNext
  <2>1. ASSUME NEW m \in Message, ResumePassed(m) PROVE TakenOnce'
    <3>1. \A n \in Message : topic[n] = "taken" <=> topic'[n] = "taken"
      BY <2>1 DEF ResumePassed, StateTypeOK
    <3> QED
      BY <2>1, <3>1, TakenFrame DEF ResumePassed, consumerVars
  <2>2. ASSUME NEW w \in Worker, WorkerStep(w) \/ CrashWorker(w) \/ Rebalance(w)
        PROVE  TakenOnce'
    <3>1. ASSUME NEW from, NEW to, Moves(w, from, to), from # "idle", to # "idle",
                 \A m \in Message : topic[m] = "taken" <=> topic'[m] = "taken"
          PROVE  TakenOnce'
      <4>1. \A v \in Worker : wpc[v] = "idle" <=> wpc'[v] = "idle"
        BY <3>1 DEF Moves, ConsumerTypeOK
      <4> QED
        BY <3>1, <4>1, TakenFrame DEF Moves
    <3>2. ASSUME NEW t \in [Message -> Fate], NEW outcome, outcome # "taken",
                 wpc[w] # "idle", Leaves(w, t, outcome),
                 \A m \in Message : t[m] = "taken" <=> topic[m] = "taken"
          PROVE  TakenOnce'
      BY <3>2, LeavesTaken
    <3>3. ASSUME NEW m \in Message, Fetch(w, m) PROVE TakenOnce'
      BY <3>3, FetchTakes
    <3>4. CASE Rebalance(w)
      BY <3>4, RebalanceTakes
    <3>5. CASE CrashWorker(w)
      BY <1>0, <3>2, <3>5 DEF CrashWorker
    <3>6. CASE Ack(w)
      BY <1>0, <3>2, <3>6 DEF Ack
    <3>7. CASE RouteRetry(w)
      <4> DEFINE next == <<OrderOf(w), RetryCount(w) + 1>>
      <4> HIDE DEF next
      <4>1. CASE Moves(w, "route", "ack") /\ Publish(next)
        BY <3>1, <4>1, CopyTaken DEF Publish
      <4>2. CASE wpc[w] = "route" /\ Leaves(w, WithCopy(next), "passed")
        BY <3>2, <4>2, CopyTaken
      <4>3. CASE wpc[w] = "route" /\ GivesUp(w)
        BY <1>0, <3>2, <4>3 DEF GivesUp
      <4> QED
        BY <3>7, <4>1, <4>2, <4>3 DEF RouteRetry, SendFails, next
    <3>8. CASE wpc[w] # "idle" /\ GivesUp(w)
      BY <1>0, <3>2, <3>8 DEF GivesUp
    <3>9. CASE UNCHANGED topic /\ \E from, to \in WpcValues \ {"idle"} : Moves(w, from, to)
      BY <3>1, <3>9
    <3>10. CASE /\ ~(\E m \in Message : Fetch(w, m)) /\ ~Rebalance(w) /\ ~CrashWorker(w)
                /\ ~Ack(w) /\ ~RouteRetry(w) /\ ~(wpc[w] # "idle" /\ GivesUp(w))
      <4>1. /\ UNCHANGED topic
            /\ ConfirmTx(w) \/ ClearPending(w) \/ Schedule(w) \/ DeadLetter(w) \/ Restock(w)
                 \/ RemoveMark(w) \/ RestoreCoupon(w) \/ DropReservation(w)
        BY <2>2, <3>10
           DEF WorkerStep, ConfirmTx, ClearPending, Schedule, DeadLetter, Restock,
               RemoveMark, RestoreCoupon, DropReservation, kafkaVars
      <4>2. \E from, to \in WpcValues \ {"idle"} : Moves(w, from, to)
        BY <3>10, <4>1
           DEF ConfirmTx, DuplicateSucceeds, Fails, ClearPending, Schedule, DeadLetter,
               Restock, RemoveMark, RestoreCoupon, DropReservation, WpcValues
      <4> QED
        BY <3>9, <4>1, <4>2
    <3> QED
      BY <3>3, <3>4, <3>5, <3>6, <3>7, <3>8, <3>10
  <2> QED
    BY <1>2, <2>1, <2>2 DEF ConsumerNext
<1> QED
  BY <1>1, <1>2
-------------------------------------------------------------------------------
(* Where every message is processed once. *)

\* A step beside the workers that sends nothing, and reserves for no order that was sent.
LEMMA DriveFrame ==
    ASSUME TypeOK, HoldInv, LaterAbsent, SentIsDriven,
           [Next]_vars, UNCHANGED <<topic, wpc, wmsg>>,
           \A o \in Order : o \in reserved' => o \in reserved \/ pc[o] \notin SentPc
    PROVE  LaterAbsent' /\ SentIsDriven'
<1>1. LaterAbsent'
  BY DEF LaterAbsent, OrderOf, RetryCount
<1>2. ASSUME NEW m \in Message, topic'[m] # "absent", m[1] \in reserved', ~Confirmed(m[1])'
      PROVE  Driven(m[1])'
  <2>1. m[1] \in Order /\ pc[m[1]] \in SentPc
    BY <1>2, MessageFacts DEF HoldInv, SentFirst
  <2>2. m[1] \in reserved /\ ~Confirmed(m[1])
    BY <1>2, <2>1, RowsStay DEF Confirmed, Duplicate
  <2>3. Driven(m[1])
    BY <1>2, <2>2 DEF SentIsDriven
  <2> QED
    BY <2>3 DEF Driven, OrderOf
<1> QED
  BY <1>1, <1>2 DEF SentIsDriven

\* The steps of a call: its first message is the first of its order.
LEMMA CallDrives ==
    ASSUME TypeOK, HoldInv, DriveFaults, LaterAbsent, SentIsDriven,
           PlaceNext, UNCHANGED <<consumerVars, cpc>>
    PROVE  LaterAbsent' /\ SentIsDriven'
<1> USE DEF TypeOK, StateTypeOK, consumerVars
<1> PICK o \in Order : Admit(o) \/ Refuse(o) \/ CallStep(o) \/ CrashCall(o)
  BY DEF PlaceNext
<1>1. CASE Send(o)
  <2>1. /\ pc[o] = "send" /\ Publish(<<o, 0>>) /\ UNCHANGED <<order, reserved>>
    BY <1>1 DEF Send, SendFails, Goes, DriveFaults, StockFaults, HonestErrors, mysqlVars
  <2>a. <<o, 0>> \in Message
    BY MessageFacts, PipelineAssumption
  <2>2. PICK f \in Message : f = <<o, 0>>
    BY <2>a
  <2>3. /\ \A m \in Message : m[1] = o => topic[m] = "absent"
        /\ \A w \in Worker : wpc[w] # "idle" => OrderOf(w) # o
    BY <2>1 DEF HoldInv, SentFirst, SentPc
  <2>4. \A m \in Message : topic'[m] = IF m = f THEN "ready" ELSE topic[m]
    BY <2>1, <2>2, <2>3, CopyFacts DEF Publish
  <2>5. f[1] = o
    BY <2>2
  <2>6. LaterAbsent'
    <3>1. ASSUME NEW m \in Message, NEW n \in Message, topic'[m] = "ready",
                 n[1] = m[1], n[2] > m[2]
          PROVE  topic'[n] = "absent"
      <4>1. n # m
        BY <3>1, MessageFacts
      <4>2. CASE m = f
        BY <2>3, <2>4, <2>5, <3>1, <4>1, <4>2
      <4>3. CASE m # f
        BY <2>3, <2>4, <2>5, <3>1, <4>3 DEF LaterAbsent
      <4> QED
        BY <4>2, <4>3
    <3>2. ASSUME NEW w \in Worker, NEW n \in Message, wpc[w] \in DecidingPc,
                 n[1] = OrderOf(w), n[2] > RetryCount(w)
          PROVE  topic'[n] = "absent"
      BY <2>3, <2>4, <2>5, <3>2 DEF LaterAbsent, DecidingPc
    <3> QED
      BY <3>1, <3>2 DEF LaterAbsent, OrderOf, RetryCount
  <2>7. SentIsDriven'
    <3>1. ASSUME NEW m \in Message, topic'[m] # "absent", m[1] \in reserved,
                 ~Confirmed(m[1])
          PROVE  Driven(m[1])'
      BY <2>3, <2>4, <2>5, <3>1 DEF SentIsDriven, Driven, OrderOf
    <3> QED
      BY <2>1, <3>1 DEF SentIsDriven, Confirmed, Duplicate, Ledger!Exists
  <2> QED
    BY <2>6, <2>7
<1>2. CASE ~Send(o)
  <2>1. UNCHANGED topic /\ [Next]_vars
    BY <1>2
       DEF CallStep, Admit, Refuse, CrashCall, Qualify, CheckMark, CheckRecord, ApplyCoupon,
           DeductStock, SetPending, RemarkBuy, UndoPending, UndoStock, UndoMark, UndoCoupon,
           kafkaVars, sharedVars, Next
  <2>2. \A p \in Order : p \in reserved' => p \in reserved \/ pc[p] \notin SentPc
    BY <1>2
       DEF CallStep, Admit, Refuse, CrashCall, Qualify, CheckMark, CheckRecord, ApplyCoupon,
           DeductStock, SetPending, RemarkBuy, UndoPending, UndoStock, UndoMark, UndoCoupon,
           sharedVars, Goes, Reserve, GiveBack, BestEffort, SentPc
  <2> QED
    BY <2>1, <2>2, DriveFrame
<1> QED
  BY <1>1, <1>2

\* A worker that leaves the topics alone, and leaves its order confirmed or without a
\* reservation when it has nothing to do for it any more.
LEMMA MovesDrive ==
    ASSUME TypeOK, [Next]_vars, LaterAbsent, SentIsDriven,
           NEW w \in Worker, NEW from, NEW to, Moves(w, from, to), from # "idle",
           UNCHANGED topic, reserved' \subseteq reserved,
           to \in DecidingPc => from \in DecidingPc,
           from \in KeepingPc /\ to \notin KeepingPc =>
               Confirmed(OrderOf(w))' \/ OrderOf(w) \notin reserved'
    PROVE  LaterAbsent' /\ SentIsDriven'
<1>1. \A v \in Worker : /\ wpc'[v] = IF v = w THEN to ELSE wpc[v]
                        /\ OrderOf(v)' = OrderOf(v) /\ RetryCount(v)' = RetryCount(v)
  BY DEF Moves, TypeOK, ConsumerTypeOK, OrderOf, RetryCount
<1>2. LaterAbsent'
  BY <1>1 DEF LaterAbsent, Moves
<1>3. ASSUME NEW m \in Message, topic[m] # "absent", m[1] \in reserved', ~Confirmed(m[1])'
      PROVE  Driven(m[1])'
  <2>1. PICK o \in Order : o = m[1]
    BY MessageFacts
  <2>2. o \in reserved /\ ~Confirmed(o)
    BY <1>3, <2>1, RowsStay DEF Confirmed, Duplicate
  <2>3. Driven(o)
    BY <1>3, <2>1, <2>2 DEF SentIsDriven
  <2>4. CASE OrderOf(w) = o /\ wpc[w] \in KeepingPc
    BY <1>1, <1>3, <2>1, <2>4 DEF Driven, Moves
  <2>5. CASE ~(OrderOf(w) = o /\ wpc[w] \in KeepingPc)
    BY <1>1, <2>1, <2>3, <2>5 DEF Driven
  <2> QED
    BY <2>4, <2>5
<1> QED
  BY <1>2, <1>3 DEF SentIsDriven

\* A worker drives the order of the message it took.
LEMMA FetchDrives ==
    ASSUME TypeOK, LaterAbsent, SentIsDriven, NEW w \in Worker, NEW m \in Message,
           Fetch(w, m)
    PROVE  LaterAbsent' /\ SentIsDriven'
<1> USE DEF TypeOK, StateTypeOK, ConsumerTypeOK, Fetch, mysqlVars
<1>1. /\ \A n \in Message : topic'[n] = IF n = m THEN "taken" ELSE topic[n]
      /\ topic[m] = "ready" /\ wpc[w] = "idle"
  OBVIOUS
<1>2. \A v \in Worker : /\ wpc'[v] = IF v = w THEN "confirm" ELSE wpc[v]
                        /\ OrderOf(v)' = IF v = w THEN m[1] ELSE OrderOf(v)
                        /\ RetryCount(v)' = IF v = w THEN m[2] ELSE RetryCount(v)
  BY DEF OrderOf, RetryCount
<1>3. LaterAbsent'
  <2>1. ASSUME NEW l \in Message, NEW n \in Message, topic'[l] = "ready",
               n[1] = l[1], n[2] > l[2]
        PROVE  topic'[n] = "absent"
    BY <1>1, <2>1 DEF LaterAbsent
  <2>2. ASSUME NEW v \in Worker, NEW n \in Message, wpc'[v] \in DecidingPc,
               n[1] = OrderOf(v)', n[2] > RetryCount(v)'
        PROVE  topic'[n] = "absent"
    BY <1>1, <1>2, <2>2, MessageFacts DEF LaterAbsent
  <2> QED
    BY <2>1, <2>2 DEF LaterAbsent
<1>4. ASSUME NEW o \in Order, Driven(o) PROVE Driven(o)'
  <2>1. ASSUME NEW l \in Message, l[1] = o, topic[l] = "ready" PROVE Driven(o)'
    <3>1. CASE l = m
      BY <1>2, <2>1, <3>1 DEF Driven, KeepingPc
    <3>2. CASE l # m
      BY <1>1, <2>1, <3>2 DEF Driven
    <3> QED
      BY <3>1, <3>2
  <2>2. ASSUME NEW v \in Worker, wpc[v] \in KeepingPc, OrderOf(v) = o PROVE Driven(o)'
    BY <1>1, <1>2, <2>2 DEF Driven, KeepingPc
  <2> QED
    BY <1>4, <2>1, <2>2 DEF Driven
<1>5. UNCHANGED <<order, reserved>>
  OBVIOUS
<1>6. \A n \in Message : topic'[n] # "absent" => topic[n] # "absent"
  BY <1>1
<1> HIDE DEF Fetch
<1> QED
  BY <1>3, <1>4, <1>5, <1>6, MessageFacts DEF SentIsDriven, Confirmed, Duplicate, Ledger!Exists

\* A worker is done with a message.
LEMMA AckDrives ==
    ASSUME TypeOK, TakenOnce, LaterAbsent, SentIsDriven, NEW w \in Worker, Ack(w)
    PROVE  LaterAbsent' /\ SentIsDriven'
<1> USE DEF TypeOK, StateTypeOK, ConsumerTypeOK, Ack, Leaves, mysqlVars
<1>1. /\ wpc[w] = "ack" /\ wmsg[w] \in Message
      /\ w \notin fenced => topic[wmsg[w]] = "taken"
  BY DEF TakenOnce
<1>2. \A n \in Message : \/ topic'[n] = topic[n]
                         \/ topic[n] = "taken" /\ topic'[n] = "done"
  BY <1>1
<1>3. \A v \in Worker : wpc[v] \in DecidingPc \/ wpc'[v] \in DecidingPc =>
         /\ wpc'[v] = wpc[v]
         /\ OrderOf(v)' = OrderOf(v) /\ RetryCount(v)' = RetryCount(v)
  BY <1>1 DEF OrderOf, RetryCount, DecidingPc
<1>4. LaterAbsent'
  BY <1>2, <1>3 DEF LaterAbsent
<1>5. \A o \in Order : Driven(o) => Driven(o)'
  BY <1>2, <1>3 DEF Driven, KeepingPc, DecidingPc
<1>6. UNCHANGED <<order, reserved>>
  OBVIOUS
<1> HIDE DEF Ack, Leaves
<1> QED
  BY <1>2, <1>4, <1>5, <1>6, MessageFacts DEF SentIsDriven, Confirmed, Duplicate, Ledger!Exists

\* The next attempt drives the order in the place of the worker that asked for it: it
\* has not been there before.
LEMMA RouteDrives ==
    ASSUME TypeOK, HoldInv, DeliveredOnce, LossInv, LaterAbsent, SentIsDriven,
           NEW w \in Worker, Moves(w, "route", "ack"),
           Publish(<<OrderOf(w), RetryCount(w) + 1>>), UNCHANGED <<order, reserved>>
    PROVE  LaterAbsent' /\ SentIsDriven'
<1> USE DEF TypeOK, StateTypeOK, ConsumerTypeOK
<1>1. wpc[w] = "route" /\ RetryCount(w) < MaxRetry
  BY DEF Moves, LossInv
<1>2. PICK f \in Message : /\ f = <<OrderOf(w), RetryCount(w) + 1>>
                          /\ f[1] = wmsg[w][1] /\ f[2] > wmsg[w][2]
  BY <1>1, NextAttempt
<1>3. PICK o \in Order : o = OrderOf(w) /\ o = f[1]
  BY <1>2, MessageFacts DEF OrderOf
<1>4. f[2] > RetryCount(w) /\ RetryCount(w) \in Nat
  BY <1>1, <1>2, WorkerFacts, MessageFacts, PipelineAssumption DEF RetryCount
<1>5. topic[f] = "absent"
  BY <1>1, <1>3, <1>4 DEF LaterAbsent, DecidingPc
<1>6. \A n \in Message : topic'[n] = IF n = f THEN "ready" ELSE topic[n]
  BY <1>2, <1>5, CopyFacts DEF Publish
<1>7. /\ \A m \in Message : topic[m] = "ready" => m[1] # o
      /\ \A v \in Worker : wpc[v] \in DecidingPc /\ v # w => OrderOf(v) # o
  BY <1>1, <1>3 DEF HoldInv, OneDecides, DecidingPc
<1>8. \A v \in Worker : /\ wpc'[v] = IF v = w THEN "ack" ELSE wpc[v]
                        /\ OrderOf(v)' = OrderOf(v) /\ RetryCount(v)' = RetryCount(v)
  BY DEF Moves, OrderOf, RetryCount
<1>9. LaterAbsent'
  <2>1. ASSUME NEW m \in Message, NEW n \in Message, topic'[m] = "ready",
               n[1] = m[1], n[2] > m[2]
        PROVE  topic'[n] = "absent"
    <3>1. m[2] \in Nat /\ n[2] \in Nat /\ f[2] \in Nat
      BY MessageFacts, PipelineAssumption
    <3>2. CASE m = f
      <4>1. n[1] = OrderOf(w) /\ n[2] > RetryCount(w) /\ n # f
        BY <1>3, <1>4, <2>1, <3>1, <3>2
      <4> QED
        BY <1>1, <1>6, <4>1 DEF LaterAbsent, DecidingPc
    <3>3. CASE m # f
      <4>1. topic[m] = "ready" /\ n # f
        BY <1>3, <1>6, <1>7, <2>1, <3>3
      <4> QED
        BY <1>6, <2>1, <4>1 DEF LaterAbsent
    <3> QED
      BY <3>2, <3>3
  <2>2. ASSUME NEW v \in Worker, NEW n \in Message, wpc'[v] \in DecidingPc,
               n[1] = OrderOf(v), n[2] > RetryCount(v)
        PROVE  topic'[n] = "absent"
    <3>1. v # w /\ wpc[v] \in DecidingPc
      BY <1>8, <2>2 DEF DecidingPc
    <3>2. n # f
      BY <1>3, <1>7, <2>2, <3>1
    <3> QED
      BY <1>6, <2>2, <3>1, <3>2 DEF LaterAbsent
  <2> QED
    BY <1>8, <2>1, <2>2 DEF LaterAbsent
<1>10. ASSUME NEW m \in Message, topic'[m] # "absent", m[1] \in reserved,
              ~Confirmed(m[1])
       PROVE  Driven(m[1])'
  <2>1. CASE m[1] = o
    BY <1>3, <1>6, <2>1 DEF Driven
  <2>2. CASE m[1] # o
    <3>1. topic[m] # "absent" /\ Driven(m[1])
      BY <1>3, <1>6, <1>10, <2>2 DEF SentIsDriven
    <3>2. \A n \in Message : topic[n] = "ready" => topic'[n] = "ready"
      BY <1>6
    <3>3. \A v \in Worker : OrderOf(v) = m[1] => wpc'[v] = wpc[v] /\ OrderOf(v)' = m[1]
      BY <1>3, <1>8, <2>2
    <3> QED
      BY <3>1, <3>2, <3>3 DEF Driven
  <2> QED
    BY <2>1, <2>2
<1> QED
  BY <1>9, <1>10 DEF SentIsDriven, Confirmed, Duplicate, Ledger!Exists

\* The steps of a worker where every message is processed once.
LEMMA WorkerDrives ==
    ASSUME TypeOK, HoldInv, DriveFaults, DeliveredOnce, LossInv, TakenOnce,
           LaterAbsent, SentIsDriven, ConsumerNext, UNCHANGED <<pc, cpc>>
    PROVE  LaterAbsent' /\ SentIsDriven'
<1> USE DEF TypeOK, DriveFaults, StockFaults, HonestErrors, DeliveredOnce, redisVars,
            mysqlVars, kafkaVars
<1>1. ASSUME NEW m \in Message, ResumePassed(m) PROVE LaterAbsent' /\ SentIsDriven'
  <2>1. \A n \in Message : \/ topic'[n] = topic[n]
                           \/ topic[n] = "passed" /\ topic'[n] = "done"
    BY <1>1 DEF ResumePassed, StateTypeOK
  <2>2. UNCHANGED <<wpc, wmsg, order, reserved>>
    BY <1>1 DEF ResumePassed, consumerVars
  <2>3. LaterAbsent'
    BY <2>1, <2>2 DEF LaterAbsent, OrderOf, RetryCount
  <2>4. \A o \in Order : Driven(o) => Driven(o)'
    BY <2>1, <2>2 DEF Driven, OrderOf
  <2> QED
    BY <2>1, <2>2, <2>3, <2>4, MessageFacts DEF SentIsDriven, Confirmed, Duplicate, Ledger!Exists
<1>2. ASSUME NEW w \in Worker, WorkerStep(w) \/ CrashWorker(w) \/ Rebalance(w)
      PROVE  LaterAbsent' /\ SentIsDriven'
  <2>1. [Next]_vars
    BY DEF Next
  <2>2. WorkerStep(w)
    BY <1>2 DEF CrashWorker, Rebalance
  <2>3. ASSUME NEW from, NEW to, Moves(w, from, to), from # "idle", UNCHANGED topic,
               reserved' \subseteq reserved,
               to \in DecidingPc => from \in DecidingPc,
               from \in KeepingPc /\ to \notin KeepingPc =>
                   Confirmed(OrderOf(w))' \/ OrderOf(w) \notin reserved'
        PROVE  LaterAbsent' /\ SentIsDriven'
    BY <2>1, <2>3, MovesDrive
  <2>4. CASE \E m \in Message : Fetch(w, m)
    BY <2>4, FetchDrives
  <2>5. CASE ConfirmTx(w)
    <3>1. OrderOf(w) \in Order
      BY <2>5, WorkerFacts DEF ConfirmTx
    <3>2. CASE Duplicate(OrderOf(w)) /\ DuplicateSucceeds(w) /\ UNCHANGED <<order, available>>
      <4>1. PICK o \in Order : o = OrderOf(w) /\ o = OrderOf(w)'
        BY <3>1, <3>2 DEF DuplicateSucceeds, Moves, OrderOf
      <4>2. Confirmed(o)'
        BY <2>1, <3>2, <4>1, RowsStay DEF Confirmed, Duplicate
      <4> QED
        BY <2>3, <2>5, <3>2, <4>1, <4>2 DEF ConfirmTx, DuplicateSucceeds, DecidingPc
    <3>3. CASE Confirm(OrderOf(w)) /\ Moves(w, "confirm", "clear")
      <4>1. PICK o \in Order : o = OrderOf(w) /\ o = OrderOf(w)'
        BY <3>1, <3>3 DEF Moves, OrderOf
      <4>2. order'[o] # "none"
        BY <3>3, <4>1 DEF Confirm, StateTypeOK
      <4>3. Confirmed(o)'
        BY <4>2 DEF Confirmed, Duplicate, Clash, Ledger!Exists
      <4> QED
        BY <2>3, <2>5, <3>3, <4>1, <4>3 DEF ConfirmTx, DecidingPc
    <3>4. CASE Moves(w, "confirm", "dead") \/ Moves(w, "confirm", "route")
      BY <2>3, <2>5, <3>4 DEF ConfirmTx, DecidingPc, KeepingPc
    <3> QED
      BY <2>5, <3>2, <3>3, <3>4 DEF ConfirmTx, Fails
  <2>6. CASE ClearPending(w)
    BY <2>3, <2>6 DEF ClearPending, DecidingPc, KeepingPc
  <2>7. CASE Schedule(w)
    BY <2>3, <2>7 DEF Schedule, DecidingPc, KeepingPc
  <2>8. CASE Ack(w)
    BY <2>8, AckDrives
  <2>9. CASE RouteRetry(w)
    <3>1. /\ Moves(w, "route", "ack") /\ Publish(<<OrderOf(w), RetryCount(w) + 1>>)
          /\ UNCHANGED <<order, reserved>>
      BY <2>9 DEF RouteRetry, SendFails
    <3> QED
      BY <3>1, RouteDrives
  <2>10. CASE DeadLetter(w)
    BY <2>3, <2>10 DEF DeadLetter, SendFails, DecidingPc, KeepingPc
  <2>11. CASE Restock(w)
    <3>1. /\ Moves(w, "restock", "unmark") /\ GiveBack(OrderOf(w)) /\ UNCHANGED topic
      BY <2>11 DEF Restock, StoreFails
    <3>2. reserved' \subseteq reserved /\ OrderOf(w) \notin reserved'
      BY <3>1 DEF GiveBack
    <3>3. OrderOf(w)' = OrderOf(w)
      BY <3>1 DEF Moves, OrderOf
    <3> QED
      BY <2>3, <3>1, <3>2, <3>3 DEF DecidingPc
  <2>12. CASE RemoveMark(w)
    BY <2>3, <2>12 DEF RemoveMark, StoreFails, DecidingPc, KeepingPc
  <2>13. CASE RestoreCoupon(w)
    BY <2>3, <2>13 DEF RestoreCoupon, DecidingPc, KeepingPc
  <2>14. CASE DropReservation(w)
    BY <2>3, <2>14 DEF DropReservation, DecidingPc, KeepingPc
  <2> QED
    BY <2>2, <2>4, <2>5, <2>6, <2>7, <2>8, <2>9, <2>10, <2>11, <2>12, <2>13, <2>14
       DEF WorkerStep
<1> QED
  BY <1>1, <1>2 DEF ConsumerNext

\* Every step, where every message is processed once.
LEMMA DriveStep ==
    ASSUME TypeOK, HoldInv, DriveFaults, DeliveredOnce, LossInv, TakenOnce,
           LaterAbsent, SentIsDriven, [Next]_vars
    PROVE  LaterAbsent' /\ SentIsDriven'
<1> USE DEF consumerVars, redisVars, mysqlVars, kafkaVars, sharedVars
<1>1. CASE PlaceNext /\ UNCHANGED <<consumerVars, cpc>>
  BY <1>1, CallDrives
<1>2. CASE ConsumerNext /\ UNCHANGED <<pc, cpc>>
  BY <1>2, WorkerDrives
<1>3. CASE CancelNext /\ UNCHANGED <<pc, consumerVars>>
  <2>1. UNCHANGED topic /\ reserved' \subseteq reserved
    BY <1>3 DEF CancelNext, CancelStep, CancelOrder, HandleTimeout, CancelTx, RestoreStock,
                ClearMark, DropTask, Pay, CrashCancel, GiveBack, BestEffort
  <2> QED
    BY <1>3, <2>1, DriveFrame
<1>4. CASE DeadLettersNext /\ UNCHANGED <<pc, consumerVars, cpc>>
  <2>1. UNCHANGED <<topic, reserved>>
    BY <1>4 DEF DeadLettersNext, PersistDeadLetter, Replay, DeliveredOnce
  <2> QED
    BY <1>4, <2>1, DriveFrame
<1>5. CASE Expire /\ UNCHANGED <<pc, consumerVars, cpc>>
  <2>1. UNCHANGED <<topic, reserved>>
    BY <1>5 DEF Expire, ExpireRequest, ExpireMark, ExpirePending
  <2> QED
    BY <1>5, <2>1, DriveFrame
<1>6. CASE UNCHANGED vars
  BY <1>6, DriveFrame DEF vars
<1> QED
  BY <1>1, <1>2, <1>3, <1>4, <1>5, <1>6 DEF Next

-------------------------------------------------------------------------------
(* Where a message may be processed again. *)

\* A step ends no message but that of a confirmed order, and no worker has anything to do
\* after its order but who confirmed it or found it confirmed.
EndsRight ==
    \A m \in Message : \/ topic'[m] = topic[m]
                       \/ topic'[m] \in {"ready", "taken"}
                       \/ topic'[m] = "done" /\ Confirmed(m[1])
WorkerEndsRight(w) ==
    wpc'[w] \in {"clear", "schedule", "ack"} =>
        /\ wmsg'[w] = wmsg[w]
        /\ \/ wpc[w] \in {"clear", "schedule", "ack"}
           \/ wpc[w] = "confirm" /\ Confirmed(OrderOf(w))'

\* Such a step keeps that nothing but an order ends a message.
LEMMA EndsRightKeeps ==
    ASSUME TypeOK, EndsConfirmed, [Next]_vars, EndsRight, \A w \in Worker : WorkerEndsRight(w)
    PROVE  EndsConfirmed'
<1>0. \A o \in Order : Confirmed(o) => Confirmed(o)'
  BY RowsStay DEF Confirmed, Duplicate
<1>1. \A m \in Message : topic'[m] # "passed" /\ (topic'[m] = "done" => Confirmed(m[1])')
  BY <1>0, MessageFacts DEF EndsRight, EndsConfirmed
<1>2. ASSUME NEW w \in Worker, wpc'[w] \in {"clear", "schedule", "ack"}
      PROVE  Confirmed(OrderOf(w))'
  <2>1. CASE wpc[w] \in {"clear", "schedule", "ack"}
    <3>1. wpc[w] # "idle" /\ Confirmed(OrderOf(w)) /\ wmsg'[w] = wmsg[w]
      BY <1>2, <2>1 DEF EndsConfirmed, WorkerEndsRight
    <3>2. PICK o \in Order : o = OrderOf(w) /\ o = OrderOf(w)'
      BY <3>1, WorkerFacts DEF OrderOf, TypeOK
    <3> QED
      BY <1>0, <3>1, <3>2
  <2> QED
    BY <1>2, <2>1 DEF WorkerEndsRight
<1> QED
  BY <1>1, <1>2 DEF EndsConfirmed

\* The steps of the workers where a message may be processed again.
LEMMA WorkerEnds ==
    ASSUME TypeOK, HoldInv, HoldInv', DriveFaults, ~DeliveredOnce,
           EndsConfirmed, [Next]_vars,
           NEW w \in Worker, WorkerStep(w) \/ CrashWorker(w) \/ Rebalance(w)
    PROVE  EndsRight /\ WorkerEndsRight(w)
<1>0. StateTypeOK /\ ConsumerTypeOK
  BY DEF TypeOK
<1>1. wpc[w] \in {"idle", "ack", "confirm", "clear", "schedule"} /\ wpc'[w] # "dead"
  BY DEF HoldInv, NeverFails, ConfirmingPc
<1>2. ASSUME NEW from, NEW to, Moves(w, from, to), UNCHANGED topic
      PROVE  EndsRight /\ wpc[w] = from /\ wpc'[w] = to /\ wmsg'[w] = wmsg[w]
  <2>1. EndsRight
    BY <1>2 DEF EndsRight
  <2>2. wpc[w] = from /\ wpc'[w] = to /\ wmsg'[w] = wmsg[w]
    BY <1>0, <1>2 DEF Moves, ConsumerTypeOK
  <2> QED
    BY <2>1, <2>2
<1>3. CASE \E m \in Message : Fetch(w, m)
  BY <1>0, <1>3 DEF Fetch, EndsRight, WorkerEndsRight, StateTypeOK, ConsumerTypeOK
<1>4. CASE CrashWorker(w)
  BY <1>0, <1>4, WorkerFacts
     DEF CrashWorker, Leaves, EndsRight, WorkerEndsRight, StateTypeOK, ConsumerTypeOK
<1>5. CASE Rebalance(w)
  BY <1>0, <1>5, WorkerFacts DEF Rebalance, EndsRight, WorkerEndsRight, StateTypeOK,
                                 EndsConfirmed
<1>6. CASE Ack(w)
  <2>1. wmsg[w] \in Message /\ Confirmed(wmsg[w][1])
    BY <1>0, <1>6, WorkerFacts DEF Ack, EndsConfirmed, OrderOf
  <2> QED
    BY <1>0, <1>6, <2>1 DEF Ack, Leaves, EndsRight, WorkerEndsRight, StateTypeOK,
                            ConsumerTypeOK
<1>7. CASE ConfirmTx(w)
  <2>1. UNCHANGED topic /\ \E to : Moves(w, "confirm", to)
    BY <1>7 DEF ConfirmTx, Fails, DuplicateSucceeds, kafkaVars
  <2>2. PICK o \in Order : o = OrderOf(w) /\ o = OrderOf(w)'
    BY <1>0, <1>7, <2>1, WorkerFacts DEF ConfirmTx, Moves, OrderOf
  <2>3. EndsRight /\ wpc[w] = "confirm" /\ wmsg'[w] = wmsg[w]
    BY <1>2, <2>1
  <2>4. CASE Duplicate(o)
    <3>1. Confirmed(o)'
      BY <2>4, RowsStay DEF Confirmed, Duplicate
    <3> QED
      BY <2>2, <2>3, <3>1 DEF WorkerEndsRight
  <2>5. CASE Confirm(o)
    <3>1. order'[o] # "none"
      BY <1>0, <2>5 DEF Confirm, StateTypeOK
    <3>2. Confirmed(o)'
      BY <3>1 DEF Confirmed, Duplicate, Clash, Ledger!Exists
    <3> QED
      BY <2>2, <2>3, <3>2 DEF WorkerEndsRight
  <2>6. CASE Moves(w, "confirm", "dead")
    BY <1>1, <1>2, <2>1, <2>6 DEF Moves, ConsumerTypeOK
  <2>7. "TxError" \notin Faults
    BY DEF DriveFaults, StockFaults, FailedOnce
  <2> QED
    BY <1>7, <2>2, <2>4, <2>5, <2>6, <2>7 DEF ConfirmTx
<1>8. CASE ClearPending(w) \/ Schedule(w)
  <2>1. UNCHANGED topic /\ (Moves(w, "clear", "schedule") \/ Moves(w, "schedule", "ack"))
    BY <1>8 DEF ClearPending, Schedule, kafkaVars
  <2> QED
    BY <1>2, <2>1 DEF WorkerEndsRight
<1>9. ~(RouteRetry(w) \/ DeadLetter(w) \/ Restock(w) \/ RemoveMark(w) \/ RestoreCoupon(w)
          \/ DropReservation(w))
  BY <1>1 DEF RouteRetry, DeadLetter, Restock, RemoveMark, RestoreCoupon, DropReservation,
              Moves
<1> QED
  BY <1>3, <1>4, <1>5, <1>6, <1>7, <1>8, <1>9 DEF WorkerStep

\* Every step, where a message may be processed again.
LEMMA ConfirmedEnds ==
    ASSUME TypeOK, HoldInv, HoldInv', DriveFaults, ~DeliveredOnce, EndsConfirmed,
           [Next]_vars
    PROVE  EndsConfirmed'
<1>1. CASE ~ConsumerNext
  <2>1. \A w \in Worker : WorkerEndsRight(w)
    BY <1>1 DEF Next, vars, consumerVars, WorkerEndsRight
  <2>2. EndsRight
    <3>1. ASSUME NEW m, Publish(m) PROVE EndsRight
      BY <3>1, CopyFacts DEF Publish, EndsRight, TypeOK
    <3>2. CASE \E o \in Order : Send(o) \/ Replay(o)
      BY <3>1, <3>2 DEF Send, Replay, SendFails, EndsRight
    <3>3. CASE \A o \in Order : ~Send(o) /\ ~Replay(o)
      <4>1. UNCHANGED topic
        BY <1>1, <3>3
           DEF Next, PlaceNext, CallStep, Admit, Refuse, CrashCall, Qualify, CheckMark,
               CheckRecord, ApplyCoupon, DeductStock, SetPending, RemarkBuy, UndoPending,
               UndoStock, UndoMark, UndoCoupon, CancelNext, CancelStep, CancelOrder,
               HandleTimeout, CancelTx, RestoreStock, ClearMark, DropTask, Pay,
               CrashCancel, DeadLettersNext, PersistDeadLetter, Expire, ExpireRequest,
               ExpireMark, ExpirePending, vars, sharedVars, kafkaVars
      <4> QED
        BY <4>1 DEF EndsRight
    <3> QED
      BY <3>2, <3>3
  <2> QED
    BY <2>1, <2>2, EndsRightKeeps
<1>2. ASSUME NEW m \in Message, ResumePassed(m) PROVE FALSE
  BY <1>2 DEF ResumePassed, EndsConfirmed
<1>3. ASSUME NEW w \in Worker, WorkerStep(w) \/ CrashWorker(w) \/ Rebalance(w)
      PROVE  EndsConfirmed'
  <2>1. EndsRight /\ WorkerEndsRight(w)
    BY <1>3, WorkerEnds
  <2>2. \A v \in Worker : v # w => wpc'[v] = wpc[v] /\ wmsg'[v] = wmsg[v]
    BY <1>3 DEF WorkerStep, Fetch, ConfirmTx, ClearPending, Schedule, Ack, RouteRetry,
                DeadLetter, Restock, RemoveMark, RestoreCoupon, DropReservation, CrashWorker,
                Rebalance, Moves, Leaves, GivesUp, Fails, DuplicateSucceeds, SendFails,
                StoreFails, TypeOK, ConsumerTypeOK
  <2>3. \A v \in Worker : WorkerEndsRight(v)
    BY <2>1, <2>2 DEF WorkerEndsRight
  <2> QED
    BY <2>1, <2>3, EndsRightKeeps
<1> QED
  BY <1>1, <1>2, <1>3 DEF ConsumerNext

-------------------------------------------------------------------------------
(* Somebody is there. *)

\* At first there is no message, and nobody to process one.
LEMMA DriveInit == Init => DriveInv
  BY DEF Init, StateInit, ConsumerInit, DriveInv, TakenOnce, LaterAbsent, SentIsDriven,
         EndsConfirmed, DecidingPc

\* Every step.
LEMMA DriveInvStep ==
    ASSUME TypeOK, HoldInv, HoldInv', DriveFaults, LossInv, DriveInv, [Next]_vars
    PROVE  DriveInv'
<1>1. TakenOnce'
  BY TakenStep DEF DriveInv
<1>2. CASE DeliveredOnce
  BY <1>1, <1>2, DriveStep DEF DriveInv
<1>3. CASE ~DeliveredOnce
  BY <1>1, <1>3, ConfirmedEnds DEF DriveInv
<1> QED
  BY <1>2, <1>3

\* An accepted order has a message, which says who is going to settle it.
LEMMA DrivenEnough ==
    ASSUME TypeOK, HoldInv, LossInv, DriveInv
    PROVE  AcceptedIsDriven
<1> SUFFICES ASSUME NEW o \in Order, pc[o] = "accepted", o \in reserved, ~Confirmed(o)
             PROVE  Driven(o)
  BY DEF AcceptedIsDriven
<1>1. <<o, 0>> \in Message
  BY MessageFacts, PipelineAssumption
<1>2. PICK f \in Message : f[1] = o /\ topic[f] # "absent"
  BY <1>1 DEF LossInv
<1>3. CASE DeliveredOnce
  BY <1>2, <1>3 DEF DriveInv, SentIsDriven
<1>4. CASE ~DeliveredOnce
  <2>1. topic[f] \in {"ready", "taken"}
    BY <1>2, <1>4 DEF DriveInv, EndsConfirmed, TypeOK, StateTypeOK
  <2>2. CASE topic[f] = "ready"
    BY <1>2, <2>2 DEF Driven
  <2>3. CASE topic[f] = "taken"
    <3>1. PICK w \in Worker : wpc[w] # "idle" /\ wmsg[w] = f
      BY <2>3 DEF DriveInv, TakenOnce
    <3>2. OrderOf(w) = o
      BY <1>2, <3>1 DEF OrderOf
    <3>3. wpc[w] = "confirm"
      BY <1>4, <3>1, <3>2 DEF HoldInv, NeverFails, ConfirmingPc, DriveInv, EndsConfirmed
    <3> QED
      BY <3>2, <3>3 DEF Driven, KeepingPc
  <2> QED
    BY <2>1, <2>2, <2>3
<1> QED
  BY <1>3, <1>4

\* An accepted order that is neither confirmed nor given back is in the topics, ready to
\* be read, or with a worker that confirms it, routes it, dead-letters it or gives its
\* stock back: no handler ends with the message and leaves the order to nobody.
THEOREM AcceptedAlwaysDriven == DriveFaults /\ Spec => []AcceptedIsDriven
<1> SUFFICES ASSUME DriveFaults PROVE Spec => []AcceptedIsDriven
  OBVIOUS
<1>1. StockFaults /\ MessageFaults
  BY DEF DriveFaults, MessageFaults
<1>2. TypeOK /\ StockInv /\ StockInv' /\ LossInv /\ DriveInv /\ [Next]_vars => DriveInv'
  BY DriveInvStep DEF StockInv
<1>3. TypeOK /\ StockInv /\ LossInv /\ DriveInv => AcceptedIsDriven
  BY DrivenEnough DEF StockInv
<1>4. TypeOK /\ LossInv /\ [Next]_vars => LossInv'
  BY <1>1, LossStep
<1> QED
  BY <1>1, <1>2, <1>3, <1>4, DriveInit, LossInit, StockInductive, TypeCorrect, PTL DEF Spec

-------------------------------------------------------------------------------
(* Orders that wait to be paid, and orders that were cancelled. *)

\* The worker that creates an order goes on to the delay queue, which keeps what is
\* neither paid nor cancelled.
LEMMA ScheduleStep ==
    ASSUME TypeOK, ScheduleFaults, PendingIsScheduled, [Next]_vars
    PROVE  PendingIsScheduled'
<1> SUFFICES ASSUME NEW o \in Order, order'[o] = "Pending"
             PROVE  \/ o \in delayQueue'
                    \/ \E w \in Worker : wpc'[w] \in {"clear", "schedule"} /\ OrderOf(w)' = o
  BY DEF PendingIsScheduled
<1> USE DEF TypeOK, StateTypeOK, ConsumerTypeOK, ScheduleFaults, redisVars, mysqlVars,
            kafkaVars, sharedVars, BestEffort
<1>1. CASE order[o] # "Pending"
  <2>0. ASSUME NEW p \in Order, CancelTx(p) \/ Pay(p) PROVE FALSE
    BY <1>1, <2>0 DEF CancelTx, Pay
  <2>1. PICK w \in Worker : ConfirmTx(w) /\ Confirm(OrderOf(w)) /\ order' # order
    BY <1>1, <2>0, OrderWrites
  <2>2. OrderOf(w) = o
    BY <1>1, <2>1 DEF Confirm
  <2>3. Moves(w, "confirm", "clear")
    BY <2>1 DEF ConfirmTx, Confirm
  <2> QED
    BY <2>2, <2>3 DEF Moves, OrderOf
<1>2. CASE order[o] = "Pending" /\ o \in delayQueue
  <2>0. ASSUME NEW p \in Order, p # o, DropTask(p) PROVE o \in delayQueue'
    BY <1>2, <2>0 DEF DropTask
  <2>1. o \in delayQueue' \/ DropTask(o)
    BY <1>2, <2>0, QueueWrites
  <2> QED
    BY <1>2, <2>1 DEF DropTask
<1>3. ASSUME NEW v \in Worker, wpc[v] \in {"clear", "schedule"}, OrderOf(v) = o
      PROVE  \/ o \in delayQueue'
             \/ \E w \in Worker : wpc'[w] \in {"clear", "schedule"} /\ OrderOf(w)' = o
  <2>1. CASE ClearPending(v) \/ Schedule(v)
    BY <1>3, <2>1 DEF ClearPending, Schedule, Moves, OrderOf
  <2>2. CASE ~(ClearPending(v) \/ Schedule(v))
    <3>1. CASE ~ConsumerNext \/ \E m \in Message : ResumePassed(m)
      BY <1>3, <3>1 DEF Next, vars, consumerVars, ResumePassed, OrderOf
    <3>2. ASSUME NEW w \in Worker, WorkerStep(w)
          PROVE  wpc'[v] = wpc[v] /\ wmsg'[v] = wmsg[v]
      <4>1. CASE w = v
        BY <1>3, <2>2, <3>2, <4>1
           DEF WorkerStep, Fetch, ConfirmTx, Ack, RouteRetry, DeadLetter, Restock,
               RemoveMark, RestoreCoupon, DropReservation, Moves, Fails, DuplicateSucceeds
      <4>2. CASE w # v
        BY <3>2, <4>2
           DEF WorkerStep, Fetch, ConfirmTx, ClearPending, Schedule, Ack, RouteRetry,
               DeadLetter, Restock, RemoveMark, RestoreCoupon, DropReservation, Moves, Leaves,
               GivesUp, Fails, DuplicateSucceeds, SendFails, StoreFails
      <4> QED
        BY <4>1, <4>2
    <3>3. ASSUME NEW w \in Worker PROVE ~CrashWorker(w) /\ ~Rebalance(w)
      BY DEF CrashWorker, Rebalance
    <3> QED
      BY <1>3, <3>1, <3>2, <3>3 DEF ConsumerNext, OrderOf
  <2> QED
    BY <2>1, <2>2
<1> QED
  BY <1>1, <1>2, <1>3 DEF PendingIsScheduled

\* No order waits to be paid without an end: it is in the delay queue, or the worker that
\* created it is about to add it.
THEOREM PendingAlwaysScheduled == ScheduleFaults /\ Spec => []PendingIsScheduled
<1> SUFFICES ASSUME ScheduleFaults PROVE Spec => []PendingIsScheduled
  OBVIOUS
<1>1. Init => PendingIsScheduled
  BY DEF Init, StateInit, PendingIsScheduled
<1>2. TypeOK /\ PendingIsScheduled /\ [Next]_vars => PendingIsScheduled'
  BY ScheduleStep
<1> QED
  BY <1>1, <1>2, TypeCorrect, PTL DEF Spec

\* Whoever cancels an order that still has its reservation is about to give it back.
THEOREM CancelledAlwaysReturned == UndoFaults /\ Spec => []CancelledIsReturned
<1> SUFFICES ASSUME UndoFaults PROVE Spec => []CancelledIsReturned
  OBVIOUS
<1>0. StockFaults
  BY DEF UndoFaults
<1>1. Init => CancelsAnswer
  BY DEF Init, StateInit, CancelsAnswer
<1>2. TypeOK /\ StockInv /\ CancelsAnswer /\ [Next]_vars => CancelsAnswer'
  BY CancelsAnswerStep DEF StockInv
<1>3. CancelsAnswer => CancelledIsReturned
  BY DEF CancelsAnswer, CancelledIsReturned
<1> QED
  BY <1>0, <1>1, <1>2, <1>3, StockInductive, TypeCorrect, PTL DEF Spec

-------------------------------------------------------------------------------
(* The pipeline keeps the promise of the two stocks. *)

\* A call that is past the script does not come back.
LEMMA PastTheScript ==
    ASSUME TypeOK, PlaceNext
    PROVE  /\ UNCHANGED <<order, available>>
           /\ \E o \in Order :
                /\ pc'[o] \in EarlyPc => pc[o] \in EarlyPc
                /\ \A p \in Order : p # o =>
                      pc'[p] = pc[p] /\ (p \in reserved' <=> p \in reserved)
<1> PICK o \in Order : Admit(o) \/ Refuse(o) \/ CallStep(o) \/ CrashCall(o)
  BY DEF PlaceNext
<1>1. UNCHANGED <<order, available>>
  BY DEF CallStep, Admit, Refuse, CrashCall, Qualify, CheckMark, CheckRecord, ApplyCoupon,
         DeductStock, SetPending, Send, RemarkBuy, UndoPending, UndoStock, UndoMark, UndoCoupon,
         mysqlVars, sharedVars
<1>2. ASSUME NEW p \in Order, p # o
      PROVE  pc'[p] = pc[p] /\ (p \in reserved' <=> p \in reserved)
  BY <1>2
     DEF CallStep, Admit, Refuse, CrashCall, Qualify, CheckMark, CheckRecord, ApplyCoupon,
         DeductStock, AfterRefusal, SetPending, Send, RemarkBuy, UndoPending, UndoStock,
         UndoMark, UndoCoupon, Goes, BestEffort, GiveBack, Reserve, sharedVars, TypeOK,
         PlaceTypeOK
<1>3. pc'[o] \in EarlyPc => pc[o] \in EarlyPc
  BY DEF CallStep, Admit, Refuse, CrashCall, Qualify, CheckMark, CheckRecord, ApplyCoupon,
         DeductStock, AfterRefusal, SetPending, Send, RemarkBuy, UndoPending, UndoStock,
         UndoMark, UndoCoupon, Goes, Terminal, TypeOK, PlaceTypeOK, EarlyPc
<1> QED
  BY <1>1, <1>2, <1>3

\* A step is one of a call, or it changes the core database, or what is reserved.
LEMMA OneStore ==
    ASSUME TypeOK, [Next]_vars
    PROVE  PlaceNext \/ UNCHANGED <<order, available, pc>> \/ UNCHANGED <<pc, reserved, redisStock>>
<1> USE DEF mysqlVars, sharedVars, redisVars
<1>1. CASE ConsumerNext /\ UNCHANGED pc
  <2>1. ASSUME NEW w \in Worker, WorkerStep(w)
        PROVE  UNCHANGED <<order, available>> \/ UNCHANGED <<reserved, redisStock>>
    <3>1. CASE ConfirmTx(w)
      BY <3>1 DEF ConfirmTx
    <3>2. CASE ~ConfirmTx(w)
      BY <2>1, <3>2 DEF WorkerStep, Fetch, ClearPending, Schedule, Ack, RouteRetry, DeadLetter,
                        Restock, RemoveMark, RestoreCoupon, DropReservation
    <3> QED
      BY <3>1, <3>2
  <2>2. ASSUME NEW w \in Worker, CrashWorker(w) \/ Rebalance(w)
        PROVE  UNCHANGED <<order, available>>
    BY <2>2 DEF CrashWorker, Rebalance
  <2>3. ASSUME NEW m \in Message, ResumePassed(m) PROVE UNCHANGED <<order, available>>
    BY <2>3 DEF ResumePassed
  <2> QED
    BY <1>1, <2>1, <2>2, <2>3 DEF ConsumerNext
<1>2. CASE CancelNext /\ UNCHANGED pc
  BY <1>2 DEF CancelNext, CancelStep, CancelOrder, HandleTimeout, CancelTx, RestoreStock,
              ClearMark, DropTask, Pay, CrashCancel
<1>3. CASE DeadLettersNext /\ UNCHANGED pc
  BY <1>3 DEF DeadLettersNext, PersistDeadLetter, Replay
<1>4. CASE Expire /\ UNCHANGED pc
  BY <1>4 DEF Expire, ExpireRequest, ExpireMark, ExpirePending
<1>5. CASE UNCHANGED vars
  BY <1>5 DEF vars
<1> QED
  BY <1>1, <1>2, <1>3, <1>4, <1>5 DEF Next

\* Every step is one of the promise: it turns o away, admits it, confirms it, closes it or
\* gives it up, or is not seen there.
LEMMA PromiseStep ==
    ASSUME TypeOK, HoldInv, HoldInv', [Next]_vars
    PROVE  [Promise!PromiseNext]_(Promise!promiseVars)
<1> DEFINE h == [o \in Order |-> HeldBy(o)]
<1>0. \A o \in Order : o \in reserved => pc[o] \notin EarlyPc
  BY DEF HoldInv, CallsHold
<1>1. ASSUME NEW o \in Order, UNCHANGED <<order, available>>,
             pc'[o] \in EarlyPc => pc[o] \in EarlyPc,
             \A p \in Order : p # o =>
                pc'[p] = pc[p] /\ (p \in reserved' <=> p \in reserved)
      PROVE  [Promise!PromiseNext]_(Promise!promiseVars)
  <2>1. \A p \in Order : p # o => HeldBy(p)' = HeldBy(p)
    BY <1>1 DEF HeldBy
  <2>2. h' = [h EXCEPT ![o] = HeldBy(o)']
    BY <2>1
  <2>3. CASE UNCHANGED <<redisStock, reserved>>
    <3>1. CASE HeldBy(o)' = HeldBy(o)
      <4>1. h' = h
        BY <2>2, <3>1
      <4> QED
        BY <1>1, <2>3, <4>1 DEF Promise!promiseVars
    <3>2. CASE HeldBy(o)' # HeldBy(o)
      <4>1. HeldBy(o) = "new" /\ HeldBy(o)' = "over"
        BY <1>1, <2>3, <3>2 DEF HeldBy
      <4>2. Promise!TurnAway(o)
        BY <1>1, <2>2, <2>3, <4>1 DEF Promise!TurnAway, Promise!Becomes
      <4> QED
        BY <4>2 DEF Promise!PromiseNext
    <3> QED
      BY <3>1, <3>2
  <2>4. ASSUME NEW q \in Order, pc[q] = "deduct", CanReserve(q), Reserve(q)
        PROVE  [Promise!PromiseNext]_(Promise!promiseVars)
    <3>1. q \notin reserved /\ q \in reserved'
      BY <1>0, <2>4 DEF Reserve, EarlyPc
    <3>2. q = o
      BY <1>1, <3>1
    <3>3. HeldBy(o) = "new" /\ HeldBy(o)' = "held"
      BY <2>4, <3>1, <3>2 DEF HeldBy, EarlyPc
    <3>4. Promise!Admit(o)
      BY <1>1, <2>2, <2>4, <3>2, <3>3 DEF Promise!Admit, Promise!Becomes, Reserve, CanReserve
    <3> QED
      BY <3>4 DEF Promise!PromiseNext
  <2>5. ASSUME NEW q \in Order, Returning(q), GiveBack(q)
        PROVE  [Promise!PromiseNext]_(Promise!promiseVars)
    <3>1. q \in reserved /\ q \notin reserved'
      BY <2>5, ReturnedIsHeld DEF GiveBack
    <3>2. q = o
      BY <1>1, <3>1
    <3>3. HeldBy(o) = "held" /\ HeldBy(o)' = "over"
      BY <1>0, <1>1, <3>1, <3>2 DEF HeldBy
    <3>4. o \notin Promise!Live
      BY <1>1, <3>1, <3>2 DEF HoldInv, OrderBacked, Promise!Live, Ledger!Live
    <3>5. Promise!GiveUp(o)
      BY <1>1, <2>2, <2>5, <3>2, <3>3, <3>4 DEF Promise!GiveUp, Promise!Becomes, GiveBack
    <3> QED
      BY <3>5 DEF Promise!PromiseNext
  <2> QED
    BY <2>3, <2>4, <2>5, StockMoves
<1>2. CASE PlaceNext
  BY <1>1, <1>2, PastTheScript
<1>3. CASE UNCHANGED <<order, available, pc>>
  <2>1. CASE UNCHANGED <<redisStock, reserved>>
    <3>1. \A p \in Order : HeldBy(p)' = HeldBy(p)
      BY <1>3, <2>1 DEF HeldBy
    <3>2. h' = h
      BY <3>1
    <3> QED
      BY <1>3, <2>1, <3>2 DEF Promise!promiseVars
  <2>2. ASSUME NEW o \in Order, Reserve(o) \/ GiveBack(o)
        PROVE  [Promise!PromiseNext]_(Promise!promiseVars)
    <3>1. \A p \in Order : p # o => (p \in reserved' <=> p \in reserved)
      BY <2>2 DEF Reserve, GiveBack
    <3> QED
      BY <1>1, <1>3, <3>1
  <2> QED
    BY <2>1, <2>2, StockMoves
<1>4. CASE UNCHANGED <<pc, reserved, redisStock>>
  <2>1. \A p \in Order : HeldBy(p)' = HeldBy(p)
    BY <1>4 DEF HeldBy
  <2>2. h' = h
    BY <2>1
  <2>3. [Ledger!Next]_(Ledger!ledgerVars)
    BY StepRefines
  <2>4. ASSUME NEW o \in Order, Ledger!Create(o) PROVE Promise!Confirm(o)
    <3>1. o \in Ledger!Live'
      BY <2>4 DEF Ledger!Create, Ledger!Live, TypeOK, StateTypeOK
    <3>2. o \in reserved
      BY <1>4, <3>1 DEF HoldInv, OrderBacked
    <3>3. h[o] = "held"
      BY <3>2 DEF HeldBy
    <3> QED
      BY <1>4, <2>2, <2>4, <3>3
         DEF Promise!Confirm, Promise!Create, Ledger!Create, Promise!Exists, Ledger!Exists,
             Promise!Clash, Ledger!Clash
  <2>5. ASSUME NEW o \in Order, Ledger!Pay(o) \/ Ledger!Cancel(o) PROVE Promise!Close(o)
    BY <1>4, <2>2, <2>5
       DEF Promise!Close, Promise!Pay, Promise!Cancel, Ledger!Pay, Ledger!Cancel
  <2>6. CASE UNCHANGED Ledger!ledgerVars
    BY <1>4, <2>2, <2>6 DEF Ledger!ledgerVars, Promise!promiseVars
  <2> QED
    BY <2>3, <2>4, <2>5, <2>6 DEF Ledger!Next, Promise!PromiseNext
<1> QED
  BY <1>2, <1>3, <1>4, OneStore

\* The pipeline implements StockPromise: whatever crashes, fails or is delivered again
\* within StockFaults, an order number takes units in Redis once, becomes a row only while
\* it holds them, and gives them back once, when its row is closed or will never be.
THEOREM RefinesPromise == StockFaults /\ Spec => ImplementsPromise
<1> SUFFICES ASSUME StockFaults PROVE Spec => ImplementsPromise
  OBVIOUS
<1>1. Init => Promise!PromiseInit
  BY DEF Init, StateInit, PlaceInit, Promise!PromiseInit, Promise!Init, HeldBy, EarlyPc
<1>2. StockInv => HoldInv
  BY DEF StockInv
<1>3. TypeOK /\ HoldInv /\ HoldInv' /\ [Next]_vars => [Promise!PromiseNext]_(Promise!promiseVars)
  BY PromiseStep
<1> QED
  BY <1>1, <1>2, <1>3, StockInductive, TypeCorrect, PTL
     DEF Spec, ImplementsPromise, Promise!PromiseSpec
===============================================================================
