------------------------- MODULE SeckillPipelineProofs -------------------------
(***************************************************************************)
(* What the pipeline keeps whatever Faults contains: its types, and that   *)
(* it takes only the steps of OrderLedger in the core database, so that    *)
(* the ledger's theorems hold of it.  And what it keeps as long as what is *)
(* written to the topics and to the dead letters is not lost: no order     *)
(* number that was given to a client goes missing.                         *)
(***************************************************************************)
EXTENDS PipelineInvariants, TLAPS

\* What the assumptions on the constants say of one order.
LEMMA OrderFacts ==
    ASSUME NEW o \in Order
    PROVE  /\ SkuOf[o] \in Sku /\ UserOf[o] \in User /\ RequestOf[o] \in Request
           /\ Quantity[o] \in Nat /\ CouponOf[o] \in Coupon \cup {None}
           /\ Mark(o) \in Sku \X User
  BY OrderAssumption, PipelineAssumption DEF Mark

-------------------------------------------------------------------------------
(* Types. *)

\* The commands keep the types of what they write.
LEMMA CommandTypes ==
    ASSUME StateTypeOK, NEW o \in Order
    PROVE  /\ GiveBack(o) => redisStock' \in [Sku -> Nat] /\ reserved' \subseteq Order
           /\ Unmark(o) => buyMark' \subseteq Sku \X User
           /\ ReturnCoupon(o) => coupon' \in [Coupon -> {"unused", "used"}]
           /\ DropPending(o) => pending' \in [Request -> Order \cup {None}]
<1> USE OrderFacts DEF StateTypeOK
<1>1. GiveBack(o) => redisStock' \in [Sku -> Nat] /\ reserved' \subseteq Order
  BY DEF GiveBack
<1>2. Unmark(o) => buyMark' \subseteq Sku \X User
  BY DEF Unmark
<1>3. ReturnCoupon(o) => coupon' \in [Coupon -> {"unused", "used"}]
  BY DEF ReturnCoupon
<1>4. DropPending(o) => pending' \in [Request -> Order \cup {None}]
  BY DEF DropPending
<1> QED
  BY <1>1, <1>2, <1>3, <1>4

\* A copy of a message is one of the states a message may be in.
LEMMA CopyType ==
    ASSUME StateTypeOK, NEW m
    PROVE  WithCopy(m) \in [Message -> {"absent", "ready", "taken", "passed", "done"}]
  BY DEF WithCopy, StateTypeOK

\* The script that reserves compares before it subtracts.
LEMMA ReserveType ==
    ASSUME StateTypeOK, NEW o \in Order, CanReserve(o), Reserve(o)
    PROVE  /\ redisStock' \in [Sku -> Nat]
           /\ buyMark' \subseteq Sku \X User
           /\ reserved' \subseteq Order
<1> USE OrderFacts DEF StateTypeOK, CanReserve, Reserve
<1>1. redisStock[SkuOf[o]] - Quantity[o] \in Nat
  OBVIOUS
<1> QED
  BY <1>1

\* The steps of a call.
LEMMA PlaceType ==
    ASSUME StateTypeOK, PlaceTypeOK, PlaceNext
    PROVE  StateTypeOK' /\ PlaceTypeOK'
<1> PICK o \in Order : Admit(o) \/ Refuse(o) \/ CallStep(o) \/ CrashCall(o)
  BY DEF PlaceNext
<1> USE OrderFacts, CommandTypes, CopyType
    DEF StateTypeOK, PlaceTypeOK, PcValues, Terminal, Goes, BestEffort, redisVars,
        mysqlVars, kafkaVars, sharedVars
<1>1. CASE Admit(o)
  BY <1>1 DEF Admit
<1>2. CASE Refuse(o)
  BY <1>2 DEF Refuse
<1>3. CASE CrashCall(o)
  BY <1>3 DEF CrashCall
<1>4. CASE Qualify(o)
  BY <1>4 DEF Qualify
<1>5. CASE CheckMark(o)
  BY <1>5 DEF CheckMark
<1>6. CASE CheckRecord(o)
  BY <1>6 DEF CheckRecord
<1>7. CASE ApplyCoupon(o)
  BY <1>7 DEF ApplyCoupon, TakeCoupon
<1>8. CASE DeductStock(o)
  <2>1. pc' \in [Order -> PcValues]
    BY <1>8 DEF DeductStock, AfterRefusal
  <2>2. /\ redisStock' \in [Sku -> Nat]
        /\ buyMark' \subseteq Sku \X User
        /\ reserved' \subseteq Order
    BY <1>8, ReserveType DEF DeductStock
  <2> QED
    BY <1>8, <2>1, <2>2 DEF DeductStock
<1>9. CASE SetPending(o)
  BY <1>9 DEF SetPending
<1>10. CASE Send(o)
  BY <1>10 DEF Send, SendFails, Publish
<1>11. CASE RemarkBuy(o)
  BY <1>11 DEF RemarkBuy
<1>12. CASE UndoPending(o)
  BY <1>12 DEF UndoPending
<1>13. CASE UndoStock(o)
  BY <1>13 DEF UndoStock
<1>14. CASE UndoMark(o)
  BY <1>14 DEF UndoMark, AfterRefusal
<1>15. CASE UndoCoupon(o)
  BY <1>15 DEF UndoCoupon
<1> QED
  BY <1>1, <1>2, <1>3, <1>4, <1>5, <1>6, <1>7, <1>8, <1>9, <1>10, <1>11, <1>12,
     <1>13, <1>14, <1>15 DEF CallStep

\* The steps of a worker.  It has a message whenever it is not idle.
LEMMA ConsumerType ==
    ASSUME StateTypeOK, ConsumerTypeOK, ConsumerNext
    PROVE  StateTypeOK' /\ ConsumerTypeOK'
<1> USE OrderFacts, CommandTypes, CopyType
    DEF StateTypeOK, ConsumerTypeOK, WpcValues, BestEffort, redisVars, mysqlVars,
        kafkaVars, consumerVars
<1>1. ASSUME NEW m \in Message, ResumePassed(m)
      PROVE  StateTypeOK' /\ ConsumerTypeOK'
  BY <1>1 DEF ResumePassed
<1>2. ASSUME NEW w \in Worker, WorkerStep(w) \/ CrashWorker(w) \/ Rebalance(w)
      PROVE  StateTypeOK' /\ ConsumerTypeOK'
  <2>0. wpc[w] # "idle" => /\ wmsg[w] \in Message
                           /\ OrderOf(w) \in Order
    BY DEF Message, OrderOf
  <2>1. ASSUME NEW from \in WpcValues, NEW to \in WpcValues, from # "idle",
               Moves(w, from, to)
        PROVE  ConsumerTypeOK'
    BY <2>1 DEF Moves
  <2>2. ASSUME NEW t \in [Message -> {"absent", "ready", "taken", "passed", "done"}],
               NEW outcome \in {"ready", "passed", "done"},
               Leaves(w, t, outcome)
        PROVE  /\ ConsumerTypeOK'
               /\ topic' \in [Message -> {"absent", "ready", "taken", "passed", "done"}]
    BY <2>2 DEF Leaves
  <2>3. ASSUME NEW m \in Message, Fetch(w, m)
        PROVE  StateTypeOK' /\ ConsumerTypeOK'
    BY <2>3 DEF Fetch
  <2>4. CASE ConfirmTx(w)
    <3> DEFINE o == OrderOf(w)
    <3>1. o \in Order
      BY <2>0, <2>4 DEF ConfirmTx
    <3>2. Confirm(o) => /\ order' \in [Order -> Ledger!Status]
                        /\ available' \in [Sku -> Nat]
      BY <3>1 DEF Confirm, Ledger!Status
    <3>3. /\ order' \in [Order -> Ledger!Status]
          /\ available' \in [Sku -> Nat]
      BY <2>4, <3>2 DEF ConfirmTx
    <3>4. ConsumerTypeOK'
      BY <2>1, <2>4 DEF ConfirmTx, Fails, DuplicateSucceeds
    <3> QED
      BY <2>4, <3>3, <3>4 DEF ConfirmTx
  <2>5. CASE ClearPending(w)
    BY <2>0, <2>1, <2>5 DEF ClearPending, Moves
  <2>6. CASE Schedule(w)
    BY <2>0, <2>1, <2>6 DEF Schedule, Moves
  <2>7. CASE Ack(w)
    BY <2>0, <2>2, <2>7 DEF Ack
  <2>8. CASE RouteRetry(w)
    BY <2>0, <2>1, <2>2, <2>8 DEF RouteRetry, SendFails, GivesUp, Publish, Moves
  <2>9. CASE DeadLetter(w)
    BY <2>0, <2>1, <2>2, <2>9 DEF DeadLetter, SendFails, GivesUp, Moves
  <2>10. CASE Restock(w)
    BY <2>0, <2>1, <2>2, <2>10 DEF Restock, StoreFails, GivesUp, Moves
  <2>11. CASE RemoveMark(w)
    BY <2>0, <2>1, <2>2, <2>11 DEF RemoveMark, StoreFails, GivesUp, Moves
  <2>12. CASE RestoreCoupon(w)
    BY <2>0, <2>1, <2>12 DEF RestoreCoupon, Moves
  <2>13. CASE DropReservation(w)
    BY <2>0, <2>1, <2>13 DEF DropReservation, Moves
  <2>14. CASE CrashWorker(w)
    BY <2>0, <2>2, <2>14 DEF CrashWorker
  <2>15. CASE Rebalance(w)
    BY <2>0, <2>15 DEF Rebalance
  <2> QED
    BY <1>2, <2>3, <2>4, <2>5, <2>6, <2>7, <2>8, <2>9, <2>10, <2>11, <2>12, <2>13,
       <2>14, <2>15 DEF WorkerStep
<1> QED
  BY <1>1, <1>2 DEF ConsumerNext

\* The steps of a cancellation and of a payment.
LEMMA CancelType ==
    ASSUME StateTypeOK, CancelTypeOK, CancelNext
    PROVE  StateTypeOK' /\ CancelTypeOK'
<1> PICK o \in Order : CancelStep(o) \/ CancelOrder(o) \/ Pay(o) \/ CrashCancel(o)
  BY DEF CancelNext
<1> USE OrderFacts, CommandTypes
    DEF StateTypeOK, CancelTypeOK, CancelGoes, BestEffort, redisVars, mysqlVars,
        kafkaVars, sharedVars, Ledger!Status
<1>1. CASE CancelTx(o)
  BY <1>1 DEF CancelTx
<1>2. CASE RestoreStock(o)
  BY <1>2 DEF RestoreStock
<1>3. CASE ClearMark(o)
  BY <1>3 DEF ClearMark
<1>4. CASE DropTask(o)
  BY <1>4 DEF DropTask
<1>5. CASE Pay(o)
  BY <1>5 DEF Pay
<1>6. CASE CrashCancel(o)
  BY <1>6 DEF CrashCancel
<1> QED
  BY <1>1, <1>2, <1>3, <1>4, <1>5, <1>6 DEF CancelStep, CancelOrder, HandleTimeout

\* Dead letters.
LEMMA DeadLettersType ==
    ASSUME StateTypeOK, DeadLettersNext
    PROVE  StateTypeOK'
<1> USE CopyType DEF StateTypeOK, BestEffort, redisVars, mysqlVars
<1>1. ASSUME NEW m \in Message, PersistDeadLetter(m) PROVE StateTypeOK'
  <2>1. m[1] \in Order /\ m[2] \in 0 .. MaxCount
    BY DEF Message
  <2> QED
    BY <1>1, <2>1 DEF PersistDeadLetter, KeepRow
<1>2. ASSUME NEW o \in Order, Replay(o) PROVE StateTypeOK'
  BY <1>2 DEF Replay, HasRow, Publish, SendFails
<1> QED
  BY <1>1, <1>2 DEF DeadLettersNext

\* Keys that expire.
LEMMA ExpireType ==
    ASSUME StateTypeOK, Expire
    PROVE  StateTypeOK'
  BY DEF StateTypeOK, Expire, ExpireRequest, ExpireMark, ExpirePending, mysqlVars,
         kafkaVars

\* Every step keeps the types.
LEMMA TypeStep == TypeOK /\ [Next]_vars => TypeOK'
<1> SUFFICES ASSUME TypeOK, [Next]_vars PROVE TypeOK'
  OBVIOUS
<1> USE DEF TypeOK
<1>1. ASSUME UNCHANGED pc PROVE PlaceTypeOK'
  BY <1>1 DEF PlaceTypeOK
<1>2. ASSUME UNCHANGED consumerVars PROVE ConsumerTypeOK'
  BY <1>2 DEF ConsumerTypeOK, consumerVars
<1>3. ASSUME UNCHANGED cpc PROVE CancelTypeOK'
  BY <1>3 DEF CancelTypeOK
<1>4. CASE PlaceNext /\ UNCHANGED <<consumerVars, cpc>>
  BY <1>2, <1>3, <1>4, PlaceType
<1>5. CASE ConsumerNext /\ UNCHANGED <<pc, cpc>>
  BY <1>1, <1>3, <1>5, ConsumerType
<1>6. CASE CancelNext /\ UNCHANGED <<pc, consumerVars>>
  BY <1>1, <1>2, <1>6, CancelType
<1>7. CASE DeadLettersNext /\ UNCHANGED <<pc, consumerVars, cpc>>
  BY <1>1, <1>2, <1>3, <1>7, DeadLettersType
<1>8. CASE Expire /\ UNCHANGED <<pc, consumerVars, cpc>>
  BY <1>1, <1>2, <1>3, <1>8, ExpireType
<1>9. CASE UNCHANGED vars
  <2>1. StateTypeOK'
    BY <1>9 DEF vars, sharedVars, redisVars, mysqlVars, kafkaVars, StateTypeOK
  <2> QED
    BY <1>1, <1>2, <1>3, <1>9, <2>1 DEF vars
<1> QED
  BY <1>4, <1>5, <1>6, <1>7, <1>8, <1>9 DEF Next

\* The initial state has the types.
LEMMA TypeInit == Init => TypeOK
  BY OrderAssumption, PipelineAssumption
     DEF Init, StateInit, PlaceInit, ConsumerInit, CancelInit, TypeOK, StateTypeOK,
         PlaceTypeOK, PcValues, ConsumerTypeOK, WpcValues, CancelTypeOK,
         Ledger!Status

\* The pipeline keeps its types whatever fails: in particular neither the stock
\* in Redis nor the one in the core database is ever negative.
THEOREM TypeCorrect == Spec => []TypeOK
  BY TypeInit, TypeStep, PTL DEF Spec

-------------------------------------------------------------------------------
(* The core database. *)

LP == INSTANCE OrderLedgerProofs

\* Outside the transactions that create, pay and cancel, nothing touches the
\* orders and the stock of the core database, and each of the three is one step
\* of the ledger.
LEMMA StepRefines == TypeOK /\ [Next]_vars => [Ledger!Next]_(Ledger!ledgerVars)
<1> SUFFICES ASSUME TypeOK, [Next]_vars PROVE Ledger!Next \/ UNCHANGED <<order, available>>
  BY DEF Ledger!ledgerVars
<1> USE DEF mysqlVars, sharedVars
<1>1. CASE PlaceNext
  BY <1>1 DEF PlaceNext, CallStep, Admit, Refuse, CrashCall, Qualify, CheckMark,
              CheckRecord, ApplyCoupon, DeductStock, SetPending, Send, RemarkBuy,
              UndoPending, UndoStock, UndoMark, UndoCoupon
<1>2. CASE ConsumerNext
  <2>1. ASSUME NEW w \in Worker, ConfirmTx(w), Confirm(OrderOf(w))
        PROVE  Ledger!Next
    <3>1. OrderOf(w) \in Order
      BY <2>1 DEF TypeOK, ConsumerTypeOK, ConfirmTx, OrderOf, Message
    <3>2. Ledger!Create(OrderOf(w))
      BY <2>1, <3>1 DEF Confirm, Duplicate, Ledger!Create, Ledger!Clash, Clash
    <3> QED
      BY <3>1, <3>2 DEF Ledger!Next
  <2>2. ASSUME NEW w \in Worker, ConfirmTx(w), ~Confirm(OrderOf(w))
        PROVE  UNCHANGED <<order, available>>
    BY <2>2 DEF ConfirmTx
  <2> QED
    BY <1>2, <2>1, <2>2
       DEF ConsumerNext, WorkerStep, Fetch, ClearPending, Schedule, Ack, RouteRetry,
           DeadLetter, Restock, RemoveMark, RestoreCoupon, DropReservation,
           CrashWorker, Rebalance, ResumePassed
<1>3. CASE CancelNext
  <2>1. ASSUME NEW o \in Order, CancelTx(o) PROVE Ledger!Next
    BY <2>1 DEF CancelTx, Ledger!Cancel, Ledger!Next
  <2>2. ASSUME NEW o \in Order, Pay(o) PROVE Ledger!Next
    BY <2>2 DEF Pay, Ledger!Pay, Ledger!Next
  <2> QED
    BY <1>3, <2>1, <2>2
       DEF CancelNext, CancelStep, CancelOrder, HandleTimeout, RestoreStock,
           ClearMark, DropTask, CrashCancel
<1>4. CASE DeadLettersNext
  BY <1>4 DEF DeadLettersNext, PersistDeadLetter, Replay
<1>5. CASE Expire
  BY <1>5 DEF Expire, ExpireRequest, ExpireMark, ExpirePending
<1>6. CASE UNCHANGED vars
  BY <1>6 DEF vars
<1> QED
  BY <1>1, <1>2, <1>3, <1>4, <1>5, <1>6 DEF Next

\* The pipeline implements the ledger whatever fails, and whatever is delivered
\* twice or undone too often around the core database.
THEOREM RefinesLedger == Spec => ImplementsLedger
<1>1. Init => Ledger!Init
  BY DEF Init, StateInit, Ledger!Init
<1> QED
  BY <1>1, TypeCorrect, StepRefines, PTL DEF Spec, ImplementsLedger, Ledger!Spec

\* The theorems about the ledger are instantiated with the variables of the
\* pipeline.  Their assumption is the one of the pipeline.
LEMMA LedgerAssumption == LP!OrderAssumption
<1>1. \A S : LP!IsFiniteSet(S) <=> IsFiniteSet(S)
  BY Zenon DEF LP!IsFiniteSet, IsFiniteSet
<1> QED
  BY <1>1, OrderAssumption DEF LP!OrderAssumption

\* A set of orders stands for the same quantity in the pipeline, in its ledger and
\* in the theorems about the ledger.
LEMMA SameTotal ==
    \A S : /\ LP!TotalQuantity(S) = TotalQuantity(S)
           /\ Ledger!TotalQuantity(S) = TotalQuantity(S)
<1>1. \A S : LP!Cardinality(S) = Cardinality(S) /\ Ledger!Cardinality(S) = Cardinality(S)
  BY Zenon DEF LP!Cardinality, Ledger!Cardinality, Cardinality
<1>2. \A S : LP!UnitsOf(S) = UnitsOf(S) /\ Ledger!UnitsOf(S) = UnitsOf(S)
  BY DEF LP!UnitsOf, Ledger!UnitsOf, UnitsOf
<1> QED
  BY <1>1, <1>2, Zenon
     DEF LP!TotalQuantity, Ledger!TotalQuantity, TotalQuantity

\* No oversell, and no second order of a user in an activity or of a request, in
\* the core database.
THEOREM LedgerInherited == Spec => [](LedgerConserved /\ LedgerNoClash)
<1>1. Ledger!Init => LP!Init
  BY DEF Ledger!Init, LP!Init
<1>2. [Ledger!Next]_(Ledger!ledgerVars) => [LP!Next]_(LP!ledgerVars)
  BY DEF Ledger!Next, Ledger!Create, Ledger!Pay, Ledger!Cancel, Ledger!Exists,
         Ledger!Clash, Ledger!ledgerVars, LP!Next, LP!Create, LP!Pay, LP!Cancel,
         LP!Exists, LP!Clash, LP!ledgerVars
<1>3. LP!Conserved => LedgerConserved
  BY SameTotal DEF LedgerConserved, LP!Conserved, Ledger!Conserved, Ledger!LiveOf,
                   Ledger!Live, LP!LiveOf, LP!Live
<1>4. LP!NoClash => LedgerNoClash
  BY DEF LedgerNoClash, Ledger!NoClash, Ledger!Exists, Ledger!Clash, LP!NoClash,
         LP!Exists, LP!Clash
<1>5. LP!Spec => [](LP!TypeOK /\ LP!Conserved /\ LP!NoClash)
  BY LedgerAssumption, LP!LedgerCorrect, PTL
<1> QED
  BY <1>1, <1>2, <1>3, <1>4, <1>5, RefinesLedger, PTL
     DEF ImplementsLedger, Ledger!Spec, LP!Spec

\* In particular a user has one order of an activity that is pending, paid or
\* cancelled, and a request one order.
THEOREM OneOrderEach == Spec => []LedgerNoClash
  BY LedgerInherited, PTL

\* How the total quantity of a set of orders changes with the set.
LEMMA Quantities ==
    /\ TotalQuantity({}) = 0
    /\ \A S \in SUBSET Order : TotalQuantity(S) \in Nat
    /\ \A S \in SUBSET Order, o \in Order :
          o \notin S => TotalQuantity(S \cup {o}) = TotalQuantity(S) + Quantity[o]
    /\ \A S \in SUBSET Order : \A o \in S :
          TotalQuantity(S \ {o}) = TotalQuantity(S) - Quantity[o]
    /\ \A S, T \in SUBSET Order :
          S \cap T = {} => TotalQuantity(S \cup T) = TotalQuantity(S) + TotalQuantity(T)
<1> USE LedgerAssumption
<1>1. TotalQuantity({}) = 0
  BY SameTotal, LP!QuantityOfNone
<1>2. \A S \in SUBSET Order : TotalQuantity(S) \in Nat
  BY SameTotal, LP!UnitsFinite
<1>3. \A S \in SUBSET Order, o \in Order :
         o \notin S => TotalQuantity(S \cup {o}) = TotalQuantity(S) + Quantity[o]
  BY SameTotal, LP!QuantityAdded
<1>4. \A S \in SUBSET Order : \A o \in S :
         TotalQuantity(S \ {o}) = TotalQuantity(S) - Quantity[o]
  BY SameTotal, LP!QuantityRemoved
<1>5. \A S, T \in SUBSET Order :
         S \cap T = {} => TotalQuantity(S \cup T) = TotalQuantity(S) + TotalQuantity(T)
  BY SameTotal, LP!QuantityJoined
<1> QED
  BY <1>1, <1>2, <1>3, <1>4, <1>5

-------------------------------------------------------------------------------
(* Messages and workers. *)

\* What a message is, and what a worker works on.
LEMMA MessageFacts ==
    /\ \A m \in Message : m[1] \in Order /\ m[2] \in 0 .. MaxCount /\ m = <<m[1], m[2]>>
    /\ \A o \in Order, c \in 0 .. MaxCount : <<o, c>> \in Message
  BY DEF Message

\* A worker that is not idle has a message of an order.
LEMMA WorkerFacts ==
    ASSUME ConsumerTypeOK, NEW w \in Worker, wpc[w] # "idle"
    PROVE  wmsg[w] \in Message /\ OrderOf(w) \in Order
  BY MessageFacts DEF ConsumerTypeOK, OrderOf

\* A copy of a message is ready unless the message is being processed, and every
\* other message is as it was.
LEMMA CopyFacts ==
    ASSUME StateTypeOK, NEW m, NEW n \in Message
    PROVE  /\ n # m => WithCopy(m)[n] = topic[n]
           /\ n = m => WithCopy(m)[n] = IF topic[n] = "taken" THEN "taken" ELSE "ready"
  BY DEF WithCopy, StateTypeOK

\* A row stays, whatever becomes of its order.
LEMMA RowsStay ==
    ASSUME TypeOK, [Next]_vars, NEW o \in Order, Ledger!Exists(o)
    PROVE  Ledger!Exists(o)'
<1>1. [Ledger!Next]_(Ledger!ledgerVars)
  BY StepRefines
<1> QED
  BY <1>1 DEF Ledger!Next, Ledger!Create, Ledger!Pay, Ledger!Cancel, Ledger!ledgerVars,
              Ledger!Exists, TypeOK, StateTypeOK

\* A message that may still be read.
Active(m) == topic[m] \in {"ready", "taken", "passed"}

\* What settles an order stays: its row, and its dead letter, which is in the
\* topic or in the table.
LEMMA SettledStays ==
    ASSUME TypeOK, MessageFaults, [Next]_vars, NEW o \in Order
    PROVE  /\ Confirmed(o) => Confirmed(o)'
           /\ DeadLettered(o) => DeadLettered(o)'
<1> USE DEF TypeOK, StateTypeOK, MessageFaults
<1>1. Confirmed(o) => Confirmed(o)'
  BY RowsStay DEF Confirmed, Duplicate
<1>2. ASSUME UNCHANGED deadRow, dlqTopic \subseteq dlqTopic'
      PROVE  DeadLettered(o) => DeadLettered(o)'
  BY <1>2 DEF DeadLettered
<1>3. ASSUME NEW m \in Message, PersistDeadLetter(m)
      PROVE  DeadLettered(o) => DeadLettered(o)'
  <2>1. /\ dlqTopic' = dlqTopic \ {m}
        /\ \A p \in Order : deadRow'[p] =
              IF p = m[1] /\ deadRow[p] = None THEN m[2] ELSE deadRow[p]
    BY <1>3, MessageFacts DEF PersistDeadLetter, BestEffort, KeepRow
  <2>2. m[1] \in Order /\ m[2] # None
    BY MessageFacts, PipelineAssumption
  <2> QED
    BY <2>1, <2>2 DEF DeadLettered
<1>4. CASE \A m \in Message : ~PersistDeadLetter(m)
  <2>1. UNCHANGED deadRow /\ dlqTopic \subseteq dlqTopic'
    BY <1>4
       DEF Next, PlaceNext, CallStep, Admit, Refuse, CrashCall, Qualify, CheckMark,
           CheckRecord, ApplyCoupon, DeductStock, SetPending, Send, RemarkBuy, UndoPending,
           UndoStock, UndoMark, UndoCoupon, ConsumerNext, WorkerStep, Fetch, ConfirmTx,
           ClearPending, Schedule, Ack, RouteRetry, DeadLetter, Restock, RemoveMark,
           RestoreCoupon, DropReservation, CrashWorker, Rebalance, ResumePassed, SendFails,
           CancelNext, CancelStep, CancelOrder, HandleTimeout, CancelTx, RestoreStock,
           ClearMark, DropTask, Pay, CrashCancel, DeadLettersNext, Replay, Expire,
           ExpireRequest, ExpireMark, ExpirePending, vars, sharedVars, kafkaVars
  <2> QED
    BY <1>1, <1>2, <2>1
<1> QED
  BY <1>1, <1>3, <1>4

\* A step ends at most one message, and that one is settled or followed by a
\* later attempt; no message vanishes.
KeepsActive == \A m \in Message : Active(m) => Active(m)'
EndsOne ==
    \E m \in Message :
        /\ Succeeded(m)
        /\ \A n \in Message : n # m /\ Active(n) => Active(n)'
MessageMove ==
    /\ \A m \in Message : topic[m] # "absent" => topic'[m] # "absent"
    /\ KeepsActive \/ EndsOne
    /\ \A m \in Message :
          topic'[m] \in {"passed", "done"} =>
            topic'[m] = topic[m] \/ Succeeded(m) \/ Succeeded(m)'

\* A message that is settled or followed stays so: if the last attempt ends, it
\* is itself settled or followed.
LEMMA SucceededStays ==
    ASSUME TypeOK, MessageFaults, [Next]_vars, MessageMove,
           NEW m \in Message, Succeeded(m)
    PROVE  Succeeded(m)'
<1>1. m[1] \in Order /\ \A n \in Message : n[2] \in Nat
  BY MessageFacts, PipelineAssumption
<1>2. CASE Confirmed(m[1]) \/ DeadLettered(m[1])
  BY <1>1, <1>2, SettledStays DEF Succeeded
<1>3. ASSUME NEW n \in Message, n[1] = m[1], n[2] > m[2], Active(n)
      PROVE  Succeeded(m)'
  <2>1. CASE Active(n)'
    BY <1>3, <2>1 DEF Succeeded, Active
  <2>2. CASE ~Active(n)'
    <3>1. Succeeded(n) /\ \A l \in Message : l # n /\ Active(l) => Active(l)'
      BY <1>3, <2>2 DEF MessageMove, KeepsActive, EndsOne
    <3>2. CASE Confirmed(n[1]) \/ DeadLettered(n[1])
      BY <1>1, <1>3, <3>2, SettledStays DEF Succeeded
    <3>3. ASSUME NEW l \in Message, l[1] = n[1], l[2] > n[2], Active(l)
          PROVE  Succeeded(m)'
      <4>1. l # n /\ l[1] = m[1] /\ l[2] > m[2]
        BY <1>1, <1>3, <3>3
      <4> QED
        BY <3>1, <3>3, <4>1 DEF Succeeded, Active
    <3> QED
      BY <3>1, <3>2, <3>3 DEF Succeeded, Active
  <2> QED
    BY <2>1, <2>2
<1> QED
  BY <1>2, <1>3 DEF Succeeded, Active

\* What a worker knows of its message.
WorkersSettle ==
    \A w \in Worker :
        /\ wpc[w] = "ack" => Succeeded(wmsg[w])
        /\ wpc[w] \in {"clear", "schedule"} => Confirmed(OrderOf(w))
        /\ wpc[w] \in {"restock", "unmark", "uncoupon", "drop"} => DeadLettered(OrderOf(w))
        /\ wpc[w] = "route" => RetryCount(w) < MaxRetry

\* The next attempt that a worker asks for is a message, and a later one.
LEMMA NextAttempt ==
    ASSUME ConsumerTypeOK, NEW w \in Worker, wpc[w] = "route", RetryCount(w) < MaxRetry
    PROVE  \E n \in Message : /\ n = <<OrderOf(w), RetryCount(w) + 1>>
                              /\ n[1] = wmsg[w][1] /\ n[2] > wmsg[w][2]
<1>1. wmsg[w] \in Message /\ OrderOf(w) \in Order
  BY WorkerFacts
<1>2. RetryCount(w) \in Nat /\ RetryCount(w) + 1 \in 0 .. MaxCount
  BY <1>1, MessageFacts, PipelineAssumption DEF RetryCount
<1>3. <<OrderOf(w), RetryCount(w) + 1>> \in Message
  BY <1>1, <1>2, MessageFacts
<1>4. wmsg[w][2] = RetryCount(w) /\ wmsg[w][1] = OrderOf(w)
  BY DEF RetryCount, OrderOf
<1> QED
  BY <1>2, <1>3, <1>4

\* A worker puts back its own message only, and says that it is done with it
\* when it is.
LEMMA WorkerMessages ==
    ASSUME TypeOK, LossInv, MessageFaults, ConsumerNext
    PROVE  MessageMove
<1> USE DEF TypeOK, ConsumerTypeOK, MessageFaults
<1>0. StateTypeOK /\ WorkersSettle
  BY DEF LossInv, WorkersSettle
<1>1. ASSUME NEW m \in Message, ResumePassed(m) PROVE MessageMove
  <2>1. /\ \A n \in Message : n # m => topic'[n] = topic[n]
        /\ topic[m] = "passed" /\ topic'[m] \in {"ready", "done"}
    BY <1>0, <1>1 DEF ResumePassed, StateTypeOK
  <2>2. Succeeded(m)
    BY <2>1 DEF LossInv
  <2> QED
    BY <2>1, <2>2 DEF MessageMove, KeepsActive, EndsOne, Active
<1>2. ASSUME UNCHANGED topic PROVE MessageMove
  BY <1>2 DEF MessageMove, KeepsActive, Active
<1>3. ASSUME NEW w \in Worker, Ack(w) PROVE MessageMove
  <2>1. wmsg[w] \in Message /\ Succeeded(wmsg[w])
    BY <1>0, <1>3, WorkerFacts DEF Ack, WorkersSettle
  <2>2. \A m \in Message : topic'[m] = topic[m] \/ (m = wmsg[w] /\ topic'[m] = "done")
    BY <1>0, <1>3, <2>1 DEF Ack, Leaves, StateTypeOK
  <2> QED
    BY <2>1, <2>2 DEF MessageMove, KeepsActive, EndsOne, Active
<1>4. ASSUME NEW w \in Worker, RouteRetry(w) PROVE MessageMove
  <2>1. wpc[w] = "route"
    BY <1>4 DEF RouteRetry, Moves
  <2>2. PICK m \in Message : m = wmsg[w]
    BY <2>1, WorkerFacts
  <2>3. PICK n \in Message : /\ n = <<OrderOf(w), RetryCount(w) + 1>>
                             /\ n[1] = m[1] /\ n[2] > m[2]
    BY <1>0, <2>1, <2>2, NextAttempt DEF WorkersSettle
  <2>4. n # m
    BY <2>3, MessageFacts
  <2>5. /\ \A l \in Message : l # n => WithCopy(n)[l] = topic[l]
        /\ WithCopy(n)[n] \in {"ready", "taken"}
        /\ WithCopy(n) \in [Message -> {"absent", "ready", "taken", "passed", "done"}]
    BY <1>0, CopyFacts, CopyType
  <2>6. topic' = WithCopy(n) \/ topic' = [WithCopy(n) EXCEPT ![m] = "passed"]
    BY <1>4, <2>2, <2>3 DEF RouteRetry, SendFails, Publish, Leaves
  <2>7. /\ topic'[n] \in {"ready", "taken"}
        /\ \A l \in Message : l # n => topic'[l] = topic[l] \/ (l = m /\ topic'[l] = "passed")
    BY <2>4, <2>5, <2>6
  <2>8. Succeeded(m)'
    BY <2>3, <2>7 DEF Succeeded
  <2> QED
    BY <2>7, <2>8 DEF MessageMove, KeepsActive, Active
<1>5. ASSUME NEW w \in Worker, DeadLetter(w) PROVE MessageMove
  <2>1. wpc[w] = "dead"
    BY <1>5 DEF DeadLetter, Moves
  <2>2. PICK m \in Message : m = wmsg[w]
    BY <2>1, WorkerFacts
  <2>3. dlqTopic' = dlqTopic \cup {m}
    BY <1>5, <2>2 DEF DeadLetter, SendFails
  <2>4. Succeeded(m)'
    BY <2>3 DEF Succeeded, DeadLettered
  <2>5. \A l \in Message : topic'[l] = topic[l] \/ (l = m /\ topic'[l] = "passed")
    BY <1>0, <1>5, <2>2 DEF DeadLetter, GivesUp, Leaves, StateTypeOK
  <2> QED
    BY <2>4, <2>5 DEF MessageMove, KeepsActive, Active
<1>6. ASSUME NEW w \in Worker, CrashWorker(w) \/ Rebalance(w) \/ \E m \in Message : Fetch(w, m)
      PROVE  MessageMove
  <2>1. \A m \in Message : topic'[m] = topic[m] \/ topic'[m] \in {"ready", "taken"}
    BY <1>0, <1>6, WorkerFacts DEF CrashWorker, Rebalance, Fetch, Leaves, StateTypeOK
  <2> QED
    BY <2>1 DEF MessageMove, KeepsActive, Active
<1>7. ASSUME NEW w \in Worker,
             ConfirmTx(w) \/ ClearPending(w) \/ Schedule(w) \/ Restock(w) \/ RemoveMark(w)
               \/ RestoreCoupon(w) \/ DropReservation(w)
      PROVE  UNCHANGED topic
  BY <1>7 DEF ConfirmTx, ClearPending, Schedule, Restock, RemoveMark, RestoreCoupon,
              DropReservation, StoreFails, kafkaVars
<1> QED
  BY <1>1, <1>2, <1>3, <1>4, <1>5, <1>6, <1>7 DEF ConsumerNext, WorkerStep

\* What the steps of a worker tell it.
LEMMA WorkerSettles ==
    ASSUME TypeOK, MessageFaults, WorkersSettle, ConsumerNext, NEW v \in Worker,
           wpc'[v] # "idle", ~UNCHANGED <<wpc[v], wmsg[v]>>
    PROVE  /\ wpc'[v] # "confirm" => UNCHANGED wmsg[v] /\ wmsg[v] \in Message
           /\ wpc'[v] = "clear" => wpc[v] = "confirm" /\ Confirm(OrderOf(v))
           /\ wpc'[v] = "schedule" => wpc[v] = "clear"
           /\ wpc'[v] = "restock" => wmsg[v] \in dlqTopic'
           /\ wpc'[v] \in {"unmark", "uncoupon", "drop"} =>
                wpc[v] \in {"restock", "unmark", "uncoupon"}
           /\ wpc'[v] = "route" => RetryCount(v) < MaxRetry
           /\ wpc'[v] = "ack" =>
                \/ Duplicate(OrderOf(v))
                \/ wpc[v] \in {"schedule", "drop"}
                \/ wpc[v] = "route" /\ Publish(<<OrderOf(v), RetryCount(v) + 1>>)
<1> USE DEF TypeOK, ConsumerTypeOK, consumerVars
<1>1. ASSUME NEW m \in Message, ResumePassed(m) PROVE FALSE
  BY <1>1 DEF ResumePassed
<1>2. ASSUME NEW w \in Worker, WorkerStep(w) \/ CrashWorker(w) \/ Rebalance(w), w # v
      PROVE  FALSE
  BY <1>2 DEF WorkerStep, Fetch, ConfirmTx, ClearPending, Schedule, Ack, RouteRetry,
              DeadLetter, Restock, RemoveMark, RestoreCoupon, DropReservation, CrashWorker,
              Rebalance, Moves, Leaves, GivesUp, Fails, DuplicateSucceeds, SendFails,
              StoreFails
<1>3. CASE WorkerStep(v) \/ CrashWorker(v) \/ Rebalance(v)
  BY <1>3 DEF WorkerStep, Fetch, ConfirmTx, ClearPending, Schedule, Ack, RouteRetry,
              DeadLetter, Restock, RemoveMark, RestoreCoupon, DropReservation, CrashWorker,
              Rebalance, Moves, Leaves, GivesUp, Fails, DuplicateSucceeds, SendFails,
              StoreFails
<1> QED
  BY <1>1, <1>2, <1>3 DEF ConsumerNext

\* What a worker knows of its message it knows until it is done with it.
LEMMA WorkersSettleStep ==
    ASSUME TypeOK, MessageFaults, WorkersSettle, MessageMove, [Next]_vars
    PROVE  WorkersSettle'
<1> SUFFICES ASSUME NEW v \in Worker, wpc'[v] \notin {"idle", "confirm", "dead"}
             PROVE  /\ wpc'[v] = "ack" => Succeeded(wmsg[v])'
                    /\ wpc'[v] \in {"clear", "schedule"} => Confirmed(OrderOf(v))'
                    /\ wpc'[v] \in {"restock", "unmark", "uncoupon", "drop"} =>
                         DeadLettered(OrderOf(v))'
                    /\ wpc'[v] = "route" => (RetryCount(v) < MaxRetry)'
  BY DEF WorkersSettle
<1>1. UNCHANGED wmsg[v] /\ wmsg[v] \in Message
  BY WorkerSettles, WorkerFacts DEF Next, vars, consumerVars, TypeOK
<1>2. PICK m \in Message : m = wmsg[v] /\ m = wmsg'[v]
  BY <1>1
<1>3. PICK o \in Order : o = OrderOf(v) /\ o = OrderOf(v)' /\ o = m[1]
  BY <1>2, MessageFacts DEF OrderOf
<1>4. /\ Succeeded(m) => Succeeded(m)'
      /\ Confirmed(o) => Confirmed(o)'
      /\ DeadLettered(o) => DeadLettered(o)'
  BY SucceededStays, SettledStays
<1>5. CASE UNCHANGED wpc[v]
  BY <1>2, <1>3, <1>4, <1>5 DEF WorkersSettle, RetryCount
<1>6. CASE ~UNCHANGED wpc[v]
  <2>0. ConsumerNext
    BY <1>6 DEF Next, vars, consumerVars
  <2>1. wpc'[v] = "clear" => Confirmed(o)'
    <3>1. Confirm(o) => order'[o] # "none"
      BY DEF Confirm, TypeOK, StateTypeOK
    <3>2. order'[o] # "none" => Confirmed(o)'
      BY DEF Confirmed, Duplicate, Clash, Ledger!Exists
    <3> QED
      BY <1>3, <1>6, <2>0, <3>1, <3>2, WorkerSettles
  <2>2. wpc'[v] = "schedule" => Confirmed(o)'
    BY <1>3, <1>4, <1>6, <2>0, WorkerSettles DEF WorkersSettle
  <2>3. wpc'[v] \in {"restock", "unmark", "uncoupon", "drop"} => DeadLettered(o)'
    BY <1>2, <1>3, <1>4, <1>6, <2>0, WorkerSettles DEF WorkersSettle, DeadLettered
  <2>4. wpc'[v] = "route" => RetryCount(v)' < MaxRetry
    BY <1>1, <1>6, <2>0, WorkerSettles DEF RetryCount
  <2>5. wpc'[v] = "ack" => Succeeded(m)'
    <3>1. CASE Duplicate(o) \/ wpc[v] \in {"schedule", "drop"}
      BY <1>3, <1>4, <3>1 DEF WorkersSettle, Succeeded, Confirmed
    <3>2. CASE wpc[v] = "route" /\ Publish(<<OrderOf(v), RetryCount(v) + 1>>)
      <4>1. PICK n \in Message : /\ n = <<OrderOf(v), RetryCount(v) + 1>>
                                 /\ n[1] = m[1] /\ n[2] > m[2]
        BY <1>2, <3>2, NextAttempt DEF WorkersSettle, TypeOK
      <4>2. topic'[n] \in {"ready", "taken"}
        BY <3>2, <4>1, CopyFacts DEF Publish, TypeOK
      <4> QED
        BY <4>1, <4>2 DEF Succeeded
    <3> QED
      BY <1>3, <1>6, <2>0, <3>1, <3>2, WorkerSettles
  <2> QED
    BY <1>2, <1>3, <2>1, <2>2, <2>3, <2>4, <2>5
<1> QED
  BY <1>5, <1>6

\* Outside the workers a message is only added.
LEMMA OtherMessages ==
    ASSUME TypeOK, [Next]_vars, ~ConsumerNext
    PROVE  \A m \in Message : topic'[m] = topic[m] \/ topic'[m] \in {"ready", "taken"}
<1> USE DEF TypeOK
<1>1. ASSUME NEW m, Publish(m)
      PROVE  \A n \in Message : topic'[n] = topic[n] \/ topic'[n] \in {"ready", "taken"}
  BY <1>1, CopyFacts DEF Publish
<1>2. ASSUME NEW o \in Order, Send(o)
      PROVE  \A n \in Message : topic'[n] = topic[n] \/ topic'[n] \in {"ready", "taken"}
  BY <1>1, <1>2 DEF Send, SendFails
<1>3. ASSUME NEW o \in Order, Replay(o)
      PROVE  \A n \in Message : topic'[n] = topic[n] \/ topic'[n] \in {"ready", "taken"}
  BY <1>1, <1>3 DEF Replay, SendFails
<1>4. CASE \A o \in Order : ~Send(o) /\ ~Replay(o)
  <2>1. UNCHANGED topic
    BY <1>4
       DEF Next, PlaceNext, CallStep, Admit, Refuse, CrashCall, Qualify, CheckMark,
           CheckRecord, ApplyCoupon, DeductStock, SetPending, RemarkBuy, UndoPending,
           UndoStock, UndoMark, UndoCoupon, CancelNext, CancelStep, CancelOrder,
           HandleTimeout, CancelTx, RestoreStock, ClearMark, DropTask, Pay, CrashCancel,
           DeadLettersNext, PersistDeadLetter, Expire, ExpireRequest, ExpireMark,
           ExpirePending, vars, sharedVars, kafkaVars
  <2> QED
    BY <2>1
<1> QED
  BY <1>2, <1>3, <1>4

\* Every step of the pipeline.
LEMMA LossStep ==
    ASSUME TypeOK, LossInv, MessageFaults, [Next]_vars
    PROVE  LossInv'
<1>1. MessageMove
  <2>1. CASE ~ConsumerNext
    BY <2>1, OtherMessages DEF MessageMove, KeepsActive, Active
  <2> QED
    BY <2>1, WorkerMessages
<1>2. WorkersSettle'
  BY <1>1, WorkersSettleStep DEF LossInv, WorkersSettle
<1>3. \A m \in Message : topic'[m] \in {"passed", "done"} => Succeeded(m)'
  <2> TAKE m \in Message
  <2>1. topic'[m] \in {"passed", "done"} => Succeeded(m) \/ Succeeded(m)'
    BY <1>1 DEF MessageMove, LossInv
  <2> QED
    BY <1>1, <2>1, SucceededStays
<1>4. ASSUME NEW o \in Order, pc'[o] \in {"remark", "accepted"}
      PROVE  topic'[<<o, 0>>] # "absent"
  <2>1. <<o, 0>> \in Message
    BY MessageFacts, PipelineAssumption
  <2>2. CASE pc[o] \in {"remark", "accepted"}
    BY <1>1, <2>1, <2>2 DEF MessageMove, LossInv
  <2>3. CASE pc[o] \notin {"remark", "accepted"}
    <3>1. PICK p \in Order : Admit(p) \/ Refuse(p) \/ CallStep(p) \/ CrashCall(p)
      BY <1>4, <2>3 DEF Next, vars, PlaceNext
    <3>2. Send(o) /\ pc'[o] = "remark"
      BY <1>4, <2>3, <3>1
         DEF CallStep, Admit, Refuse, CrashCall, Qualify, CheckMark, CheckRecord, ApplyCoupon,
             DeductStock, AfterRefusal, SetPending, Send, RemarkBuy, UndoPending, UndoStock,
             UndoMark, UndoCoupon, Goes, TypeOK, PlaceTypeOK
    <3>3. Publish(<<o, 0>>)
      BY <3>2 DEF Send, Goes, TypeOK, PlaceTypeOK
    <3> QED
      BY <2>1, <3>3, CopyFacts DEF Publish, TypeOK
  <2> QED
    BY <2>2, <2>3
<1> QED
  BY <1>2, <1>3, <1>4 DEF LossInv, WorkersSettle

\* At first nothing is out.
LEMMA LossInit == Init => LossInv
  BY DEF Init, StateInit, PlaceInit, ConsumerInit, LossInv

\* No order number that a client was given is lost in silence: offsets are
\* committed only when the order, its next attempt or its dead letter is written.
THEOREM NothingLostSilently == MessageFaults /\ Spec => []NoSilentLoss
<1> SUFFICES ASSUME MessageFaults PROVE Spec => []NoSilentLoss
  OBVIOUS
<1>1. LossInv /\ TypeOK /\ [Next]_vars => LossInv'
  BY LossStep
<1>2. TypeOK /\ LossInv => NoSilentLoss
  <2> SUFFICES ASSUME TypeOK, LossInv, NEW o \in Order, pc[o] = "accepted"
               PROVE  Confirmed(o) \/ Unsettled(o) \/ DeadLettered(o)
    BY DEF NoSilentLoss
  <2>0. <<o, 0>> \in Message
    BY MessageFacts, PipelineAssumption
  <2>1. PICK m \in Message : m = <<o, 0>>
    BY <2>0
  <2>2. m[1] = o /\ topic[m] \in {"ready", "taken", "passed", "done"}
    BY <2>1 DEF LossInv, TypeOK, StateTypeOK
  <2>3. topic[m] = "done" => Succeeded(m)
    BY DEF LossInv
  <2> QED
    BY <2>2, <2>3 DEF Succeeded, Unsettled
<1> QED
  BY <1>1, <1>2, LossInit, TypeCorrect, PTL DEF Spec
===============================================================================
