--------------------------- MODULE StockUpdateProofs ---------------------------
(***************************************************************************)
(* The task, product updates and warm-ups beside the pipeline: types, how  *)
(* far an edit of a product can oversell, and what a round of the task     *)
(* gives back: units, coupons and marks of one reservation, once.          *)
(***************************************************************************)
EXTENDS StockUpdate, ReservationProofs

-------------------------------------------------------------------------------
(* Types. *)

\* Where a runner may stand.
Placed(s, l, a) ==
    CASE s = "idle" -> l = {} /\ a = None
      [] s = "sync" -> l \subseteq Sku /\ a = None
      [] s = "set"  -> l \subseteq Sku /\ a \in Sku
      [] s = "scan" -> l \subseteq Request /\ a = None
      [] OTHER      -> l \subseteq Request /\ a \in Order

\* The part of the types that is about runners.
RunnersOK ==
    /\ stage \in [Runner -> Stages]
    /\ listed \in [Runner -> [Sku -> Nat]]
    /\ left \in [Runner -> SUBSET (Sku \cup Request)]
    /\ at \in [Runner -> Sku \cup Order \cup {None}]
    /\ \A n \in Runner : Placed(stage[n], left[n], at[n])
    /\ aged \subseteq Order

LEMMA TaskTypes ==
    /\ TaskTypeOK <=> TypeOK /\ RunnersOK
    /\ TaskTypeOK' <=> TypeOK' /\ RunnersOK'
  BY DEF TaskTypeOK, RunnersOK, Placed

LEMMA RunnerMoves ==
    ASSUME RunnersOK, NEW n \in Runner, NEW s \in Stages, NEW l, NEW a,
           Placed(s, l, a),
           stage' = [stage EXCEPT ![n] = s], left' = [left EXCEPT ![n] = l],
           at' = [at EXCEPT ![n] = a], UNCHANGED <<listed, aged>>
    PROVE  RunnersOK'
<1>1. l \in SUBSET (Sku \cup Request) /\ a \in Sku \cup Order \cup {None}
  BY DEF Placed, Stages
<1>2. ASSUME NEW i \in Runner PROVE Placed(stage'[i], left'[i], at'[i])
  <2>1. CASE i = n
    BY <2>1 DEF RunnersOK
  <2>2. CASE i # n
    BY <2>2 DEF RunnersOK
  <2> QED
    BY <2>1, <2>2
<1> QED
  BY <1>1, <1>2 DEF RunnersOK

\* A step of a runner that keeps what is left of its round.
LEMMA RunnerTurns ==
    ASSUME RunnersOK, NEW n \in Runner, NEW s \in Stages, NEW a,
           Placed(s, left[n], a), stage' = [stage EXCEPT ![n] = s],
           at' = [at EXCEPT ![n] = a] \/ (at' = at /\ a = at[n]),
           UNCHANGED <<listed, left, aged>>
    PROVE  RunnersOK'
<1>1. left' = [left EXCEPT ![n] = left[n]]
  BY DEF RunnersOK
<1>2. at' = [at EXCEPT ![n] = a]
  BY DEF RunnersOK
<1> QED
  BY <1>1, <1>2, RunnerMoves

\* A runner takes the skus from the core database and the orders from pending
\* records.
LEMMA RunnerPlace ==
    ASSUME TypeOK, RunnersOK, NEW n \in Runner, RunnerStep(n) \/ CrashRunner(n)
    PROVE  RunnersOK'
<1> USE OrderAssumption, PipelineAssumption, CompensationAssumption
    DEF Turn, Stays, NextOne, OldEnough
<1>0. /\ Placed(stage[n], left[n], at[n])
      /\ left = [left EXCEPT ![n] = left[n]]
      /\ at = [at EXCEPT ![n] = at[n]]
      /\ stage = [stage EXCEPT ![n] = stage[n]]
      /\ listed[n] \in [Sku -> Nat] /\ stage[n] \in Stages
  BY DEF RunnersOK
<1>1. CASE ListProducts(n)
  <2> DEFINE l2 == [listed EXCEPT ![n] = available]
  <2>1. l2 \in [Runner -> [Sku -> Nat]]
    BY DEF RunnersOK, TypeOK, StateTypeOK
  <2>2. ASSUME NEW i \in Runner PROVE Placed(stage'[i], left'[i], at'[i])
    BY <1>0, <1>1 DEF ListProducts, RunnersOK, Placed
  <2> QED
    BY <1>1, <2>1, <2>2 DEF ListProducts, RunnersOK, Stages
<1>2. CASE CompareStock(n)
  <2>1. PICK k \in left[n] :
           /\ left' = [left EXCEPT ![n] = @ \ {k}]
           /\ \/ Turn(n, "sync", "set") /\ at' = [at EXCEPT ![n] = k]
              \/ UNCHANGED <<stage, at>>
    BY <1>2 DEF CompareStock
  <2>2. stage[n] = "sync" /\ left[n] \subseteq Sku /\ at[n] = None
        /\ UNCHANGED <<listed, aged>>
    BY <1>0, <1>2 DEF CompareStock, Placed
  <2>3. left' = [left EXCEPT ![n] = left[n] \ {k}]
    BY <2>1
  <2>4. Placed("set", left[n] \ {k}, k) /\ Placed("sync", left[n] \ {k}, None)
    BY <2>1, <2>2 DEF Placed
  <2>5. CASE Turn(n, "sync", "set") /\ at' = [at EXCEPT ![n] = k]
    BY <2>2, <2>3, <2>4, <2>5, RunnerMoves DEF Stages
  <2>6. CASE UNCHANGED <<stage, at>>
    <3>1. /\ stage' = [stage EXCEPT ![n] = "sync"] /\ "sync" \in Stages
          /\ at' = [at EXCEPT ![n] = None]
      BY <1>0, <2>2, <2>6 DEF Stages
    <3> QED
      BY <2>2, <2>3, <2>4, <3>1, RunnerMoves
  <2> QED
    BY <2>1, <2>5, <2>6
<1>3. CASE SetStock(n)
  <2>1. Placed("sync", left[n], None) /\ "sync" \in Stages
    BY <1>0, <1>3 DEF SetStock, Placed, Stages
  <2> QED
    BY <1>3, <2>1, RunnerTurns DEF SetStock
<1>4. CASE StartScan(n)
  <2>1. Placed("scan", Request, None) /\ at[n] = None
    BY <1>0, <1>4 DEF StartScan, Placed
  <2> QED
    BY <1>0, <1>4, <2>1, RunnerMoves DEF StartScan, Stages
<1>5. CASE ReadRecord(n)
  <2>1. PICK r \in left[n] :
           /\ left' = [left EXCEPT ![n] = @ \ {r}]
           /\ \/ /\ pending[r] \in aged
                 /\ Turn(n, "scan", "look") /\ at' = [at EXCEPT ![n] = pending[r]]
              \/ UNCHANGED <<stage, at>>
    BY <1>5 DEF ReadRecord
  <2>2. stage[n] = "scan" /\ left[n] \subseteq Request /\ at[n] = None
        /\ UNCHANGED <<listed, aged>>
    BY <1>0, <1>5 DEF ReadRecord, Placed
  <2>3. left' = [left EXCEPT ![n] = left[n] \ {r}]
    BY <2>1
  <2>5. CASE /\ pending[r] \in aged
             /\ Turn(n, "scan", "look") /\ at' = [at EXCEPT ![n] = pending[r]]
    <3>1. Placed("look", left[n] \ {r}, pending[r])
      BY <2>2, <2>5 DEF Placed, RunnersOK
    <3> QED
      BY <2>2, <2>3, <2>5, <3>1, RunnerMoves DEF Stages
  <2>6. CASE UNCHANGED <<stage, at>>
    <3>1. Placed("scan", left[n] \ {r}, None)
      BY <2>2 DEF Placed
    <3>2. /\ stage' = [stage EXCEPT ![n] = "scan"] /\ "scan" \in Stages
          /\ at' = [at EXCEPT ![n] = None]
      BY <1>0, <2>2, <2>6 DEF Stages
    <3> QED
      BY <2>2, <2>3, <3>1, <3>2, RunnerMoves
  <2> QED
    BY <2>1, <2>5, <2>6
<1>6. CASE EndRound(n)
  <2>1. Placed("idle", left[n], at[n]) /\ "idle" \in Stages
    BY <1>0, <1>6 DEF EndRound, Placed, Stages
  <2> QED
    BY <1>6, <2>1, RunnerTurns DEF EndRound
<1> DEFINE AtRecord == left[n] \subseteq Request /\ at[n] \in Order
<1>7. AtRecord => /\ \A s \in {"look", "rollback", "unmark", "uncoupon", "drop"} :
                        Placed(s, left[n], at[n])
                  /\ Placed("scan", left[n], None)
  BY DEF Placed
<1>8. stage[n] \in {"look", "rollback", "unmark", "uncoupon", "drop"} => AtRecord
  BY <1>0 DEF Placed
<1>9. ASSUME AtRecord, NEW from, NEW to \in {"look", "rollback", "unmark", "uncoupon", "drop"},
             \/ Turn(n, from, to) /\ Stays
             \/ NextOne(n, from, "scan") /\ UNCHANGED left
      PROVE  RunnersOK'
  <2>1. CASE Turn(n, from, to) /\ Stays
    <3>1. to \in Stages /\ Placed(to, left[n], at[n])
      BY <1>7, <1>9 DEF Stages
    <3> QED
      BY <2>1, <3>1, RunnerTurns
  <2>2. CASE NextOne(n, from, "scan") /\ UNCHANGED left
    <3>1. "scan" \in Stages /\ Placed("scan", left[n], None)
      BY <1>7, <1>9 DEF Stages
    <3> QED
      BY <2>2, <3>1, RunnerTurns
  <2> QED
    BY <1>9, <2>1, <2>2
<1>10. CASE LookUp(n)
  BY <1>8, <1>9, <1>10 DEF LookUp
<1>11. CASE RollbackStock(n)
  BY <1>8, <1>9, <1>11 DEF RollbackStock, Undo
<1>12. CASE RemoveUserBuy(n)
  BY <1>8, <1>9, <1>12 DEF RemoveUserBuy, Undo
<1>13. CASE RestoreUserCoupon(n)
  BY <1>8, <1>9, <1>13 DEF RestoreUserCoupon, Undo
<1>14. CASE DropRecord(n)
  BY <1>8, <1>9, <1>14 DEF DropRecord
<1>15. CASE CrashRunner(n)
  <2>1. Placed("idle", {}, None)
    BY DEF Placed
  <2> QED
    BY <1>15, <2>1, RunnerMoves DEF CrashRunner, Stages
<1> QED
  BY <1>1, <1>2, <1>3, <1>4, <1>5, <1>6, <1>10, <1>11, <1>12, <1>13, <1>14, <1>15
     DEF RunnerStep

\* What a runner writes has the types of what it writes over: into Redis only a
\* stock it has read, and nothing into the core database but a coupon.
LEMMA RunnerWrites ==
    ASSUME TypeOK, RunnersOK, NEW n \in Runner, RunnerStep(n) \/ CrashRunner(n)
    PROVE  TypeOK' /\ UNCHANGED <<order, available>>
<1>1. \/ UNCHANGED vars
      \/ /\ StateTypeOK' /\ UNCHANGED <<pc, consumerVars, cpc, order, available>>
  <2> USE DEF TypeOK, BestEffort, StoreFails, redisVars, mysqlVars, kafkaVars
  <2>1. CASE \/ ListProducts(n) \/ CompareStock(n) \/ StartScan(n) \/ ReadRecord(n)
             \/ EndRound(n) \/ LookUp(n) \/ CrashRunner(n)
    BY <2>1 DEF ListProducts, CompareStock, StartScan, ReadRecord, EndRound, LookUp,
                CrashRunner
  <2>2. CASE SetStock(n)
    <3>1. at[n] \in Sku /\ listed[n] \in [Sku -> Nat]
      BY <2>2 DEF SetStock, NextOne, Turn, RunnersOK, Placed
    <3> QED
      BY <2>2, <3>1 DEF SetStock, StateTypeOK
  <2> DEFINE Recorded == {"look", "rollback", "unmark", "uncoupon", "drop"}
  <2>3. stage[n] \in Recorded => at[n] \in Order
    BY DEF RunnersOK, Placed
  <2>4. CASE RollbackStock(n)
    <3>1. at[n] \in Order
      BY <2>3, <2>4 DEF RollbackStock
    <3> QED
      BY <2>4, <3>1, CommandTypes DEF RollbackStock, Undo, StateTypeOK
  <2>5. CASE RemoveUserBuy(n)
    <3>1. at[n] \in Order
      BY <2>3, <2>5 DEF RemoveUserBuy
    <3> QED
      BY <2>5, <3>1, CommandTypes DEF RemoveUserBuy, Undo, StateTypeOK
  <2>6. CASE RestoreUserCoupon(n)
    <3>1. at[n] \in Order
      BY <2>3, <2>6 DEF RestoreUserCoupon
    <3> QED
      BY <2>6, <3>1, CommandTypes DEF RestoreUserCoupon, Undo, StateTypeOK
  <2>7. CASE DropRecord(n)
    <3>1. at[n] \in Order
      BY <2>3, <2>7 DEF DropRecord, NextOne, Turn
    <3> QED
      BY <2>7, <3>1, CommandTypes DEF DropRecord, StateTypeOK
  <2> QED
    BY <2>1, <2>2, <2>4, <2>5, <2>6, <2>7 DEF RunnerStep
<1>2. CASE UNCHANGED vars
  BY <1>2, TypeStep DEF vars, sharedVars, mysqlVars
<1>3. CASE StateTypeOK' /\ UNCHANGED <<pc, consumerVars, cpc, order, available>>
  BY <1>3 DEF TypeOK, PlaceTypeOK, ConsumerTypeOK, CancelTypeOK, consumerVars
<1> QED
  BY <1>1, <1>2, <1>3

\* A step of the pipeline or of the task leaves the columns of updates alone, and
\* keeps the types.
LEMMA TaskType ==
    ASSUME TaskTypeOK, [TaskNext]_allVars
    PROVE  TaskTypeOK'
<1>0. TypeOK /\ RunnersOK
  BY TaskTypes
<1>1. CASE [Next]_vars /\ UNCHANGED taskVars
  <2>1. TypeOK'
    BY <1>0, <1>1, TypeStep
  <2>2. RunnersOK'
    BY <1>0, <1>1 DEF RunnersOK, taskVars
  <2> QED
    BY <2>1, <2>2, TaskTypes
<1>2. ASSUME NEW n \in Runner, RunnerStep(n) \/ CrashRunner(n)
      PROVE  TaskTypeOK'
  BY <1>0, <1>2, RunnerPlace, RunnerWrites, TaskTypes
<1>3. ASSUME NEW o \in Order, Age(o)
      PROVE  TaskTypeOK'
  <2>1. TypeOK'
    BY <1>0, <1>3, TypeStep DEF Age
  <2>2. RunnersOK'
    BY <1>0, <1>3 DEF RunnersOK, Age
  <2> QED
    BY <2>1, <2>2, TaskTypes
<1> QED
  BY <1>1, <1>2, <1>3 DEF TaskNext, allVars

\* A number of units that a form may be submitted with.
LEMMA FormNumbers ==
    ASSUME UpdateTypeOK, NEW d \in Change, edit = "form", Accepted(d)
    PROVE  /\ form \in Form /\ form.sku \in Sku
           /\ form.total \in Nat /\ form.available \in Nat
           /\ form.total + d \in Nat /\ form.available + d \in Nat
<1>1. d \in Int
  BY UpdateAssumption
<1>2. form \in Form
  BY DEF UpdateTypeOK
<1>3. form.sku \in Sku /\ form.total \in Nat /\ form.available \in Nat
  BY <1>2 DEF Form
<1> QED
  BY <1>1, <1>2, <1>3 DEF Accepted

\* What an update or a warm-up writes has the types of what it writes over.
LEMMA UpdateTypeStep == UpdateTypeOK /\ [UpdateNext]_everyVar => UpdateTypeOK'
<1> SUFFICES ASSUME UpdateTypeOK, [UpdateNext]_everyVar PROVE UpdateTypeOK'
  OBVIOUS
<1> USE DEF updateVars
<1> DEFINE Columns ==
        /\ total \in [Sku -> Nat]
        /\ form \in Form \cup {None}
        /\ edit \in {"none", "form", "set", "warm"}
        /\ edit \in {"form", "set"} <=> form # None
        /\ toWarm \subseteq Sku
        /\ warm \in [Sku -> Nat \cup {None}]
        /\ edits \in 0 .. MaxEdits
        /\ starts \in 0 .. MaxStarts
<1>0. TaskTypeOK /\ TypeOK /\ RunnersOK /\ StateTypeOK /\ Columns
  BY TaskTypes DEF UpdateTypeOK, TypeOK
<1>a. None \notin Form
  BY UpdateAssumption DEF Form
<1>b. ASSUME Columns', TaskTypeOK' PROVE UpdateTypeOK'
  BY <1>b DEF UpdateTypeOK
<1>c. ASSUME UNCHANGED allVars PROVE TaskTypeOK'
  BY <1>0, <1>c, TaskType
<1>d. ASSUME StateTypeOK', UNCHANGED <<pc, consumerVars, cpc, taskVars>>
      PROVE  TaskTypeOK'
  <2>1. PlaceTypeOK' /\ ConsumerTypeOK' /\ CancelTypeOK'
    BY <1>0, <1>d
       DEF TypeOK, PlaceTypeOK, ConsumerTypeOK, CancelTypeOK, consumerVars
  <2>2. RunnersOK'
    BY <1>0, <1>d DEF RunnersOK, taskVars
  <2> QED
    BY <1>d, <2>1, <2>2, TaskTypes DEF TypeOK
<1>1. CASE TaskNext /\ UNCHANGED updateVars
  <2>1. TaskTypeOK'
    BY <1>0, <1>1, TaskType
  <2>2. Columns'
    BY <1>0, <1>1
  <2> QED
    BY <1>b, <2>1, <2>2
<1>2. ASSUME NEW k \in Sku, OpenForm(k) PROVE UpdateTypeOK'
  <2>1. form' \in Form
    BY <1>0, <1>2 DEF OpenForm, Form, StateTypeOK
  <2>2. Columns'
    BY <1>0, <1>2, <1>a, <2>1, UpdateAssumption DEF OpenForm
  <2> QED
    BY <1>2, <1>b, <1>c, <2>2 DEF OpenForm
<1>3. ASSUME NEW d \in Change, Submit(d) PROVE UpdateTypeOK'
  <2>1. CASE Accepted(d) /\ WriteSku(d)
    <3>1. /\ form.sku \in Sku /\ form.total + d \in Nat /\ form.available + d \in Nat
          /\ [form EXCEPT !.available = @ + d] \in Form
      BY <1>3, <2>1, FormNumbers DEF Submit, Form
    <3>2. StateTypeOK'
      BY <1>0, <1>3, <2>1, <3>1
         DEF Submit, WriteSku, StateTypeOK, redisVars, kafkaVars
    <3>3. TaskTypeOK'
      BY <1>3, <1>d, <3>2 DEF Submit
    <3>4. total' \in [Sku -> Nat]
      BY <1>0, <2>1, <3>1 DEF WriteSku
    <3>5. \/ edit' = "set" /\ form' \in Form
          \/ edit' = "none" /\ form' = None
      BY <1>3, <2>1, <3>1 DEF Submit
    <3>6. Columns'
      BY <1>0, <1>3, <1>a, <3>4, <3>5 DEF Submit
    <3> QED
      BY <1>b, <3>3, <3>6
  <2>2. CASE edit' = "none" /\ form' = None /\ UNCHANGED <<total, available>>
    <3>1. TaskTypeOK'
      BY <1>0, <1>3, <1>d, <2>2 DEF Submit, StateTypeOK, redisVars, kafkaVars
    <3>2. Columns'
      BY <1>0, <1>3, <2>2 DEF Submit
    <3> QED
      BY <1>b, <3>1, <3>2
  <2> QED
    BY <1>3, <2>1, <2>2 DEF Submit
<1>4. CASE SyncStock
  <2>1. form \in Form /\ form.sku \in Sku /\ form.available \in Nat
    BY <1>0, <1>4 DEF SyncStock, Form
  <2>2. StateTypeOK'
    BY <1>0, <1>4, <2>1 DEF SyncStock, StoreFails, StateTypeOK, mysqlVars, kafkaVars
  <2>3. TaskTypeOK'
    BY <1>4, <1>d, <2>2 DEF SyncStock
  <2>4. Columns'
    BY <1>0, <1>4 DEF SyncStock
  <2> QED
    BY <1>b, <2>3, <2>4
<1>5. CASE StartProcess
  <2>1. Columns'
    BY <1>0, <1>5, UpdateAssumption DEF StartProcess
  <2> QED
    BY <1>5, <1>b, <1>c, <2>1 DEF StartProcess
<1>6. CASE EndWarmUp
  <2>1. Columns'
    BY <1>0, <1>6 DEF EndWarmUp
  <2> QED
    BY <1>6, <1>b, <1>c, <2>1 DEF EndWarmUp
<1>7. ASSUME NEW k \in Sku, ReadDetail(k) PROVE UpdateTypeOK'
  <2>1. Columns'
    BY <1>0, <1>7 DEF ReadDetail, BestEffort, StateTypeOK
  <2> QED
    BY <1>7, <1>b, <1>c, <2>1 DEF ReadDetail
<1>8. ASSUME NEW k \in Sku, BatchSet(k) PROVE UpdateTypeOK'
  <2>1. warm[k] \in Nat
    BY <1>0, <1>8 DEF BatchSet
  <2>2. StateTypeOK'
    BY <1>0, <1>8, <2>1 DEF BatchSet, BestEffort, StateTypeOK, mysqlVars, kafkaVars
  <2>3. TaskTypeOK'
    BY <1>8, <1>d, <2>2 DEF BatchSet
  <2>4. Columns'
    BY <1>0, <1>8 DEF BatchSet
  <2> QED
    BY <1>b, <2>3, <2>4
<1>9. CASE UNCHANGED everyVar
  <2>1. Columns'
    BY <1>0, <1>9 DEF everyVar
  <2> QED
    BY <1>9, <1>b, <1>c, <2>1 DEF everyVar
<1> QED
  BY <1>1, <1>2, <1>3, <1>4, <1>5, <1>6, <1>7, <1>8, <1>9 DEF UpdateNext, UpdateStep

LEMMA UpdateTypeInit == UpdateInit => UpdateTypeOK
<1> SUFFICES ASSUME UpdateInit PROVE UpdateTypeOK
  OBVIOUS
<1>1. TypeOK
  BY TypeInit DEF UpdateInit, TaskInit
<1>2. RunnersOK
  BY OrderAssumption DEF UpdateInit, TaskInit, RunnersOK, Placed, Stages
<1> QED
  BY <1>1, <1>2, TaskTypes, OrderAssumption, UpdateAssumption
     DEF UpdateInit, UpdateTypeOK

\* Whoever writes a stock over another, in Redis or in the core database, none of
\* them ever becomes negative, and a runner has the record or the sku its command
\* is about.
THEOREM UpdateTypes == UpdateSpec => []UpdateTypeOK
  BY UpdateTypeInit, UpdateTypeStep, PTL DEF UpdateSpec

-------------------------------------------------------------------------------
(* Units sold. *)

\* While the row of the sku is not edited nothing adds to them: a transaction that
\* creates or cancels an order moves units between the two.
LEMMA UnitsMove ==
    ASSUME TypeOK, [Next]_vars, NEW k \in Sku
    PROVE  SoldOrLeft(k)' = SoldOrLeft(k)
<1> DEFINE L == {o \in Order : order[o] \in {"Pending", "Paid"} /\ SkuOf[o] = k}
           M == {o \in Order : order'[o] \in {"Pending", "Paid"} /\ SkuOf[o] = k}
<1>0. /\ order \in [Order -> {"none", "Pending", "Paid", "Cancel"}]
      /\ available \in [Sku -> Nat]
  BY DEF TypeOK, StateTypeOK, Ledger!Status
<1>1. /\ SoldOrLeft(k) = TotalQuantity(L) + available[k]
      /\ SoldOrLeft(k)' = TotalQuantity(M) + available'[k]
  <2>1. Ledger!LiveOf(k) = L /\ Ledger!LiveOf(k)' = M
    BY DEF Ledger!LiveOf, Ledger!Live
  <2>2. TotalQuantity(Ledger!LiveOf(k))' = TotalQuantity(Ledger!LiveOf(k)')
    BY DEF TotalQuantity, UnitsOf
  <2> QED
    BY <2>1, <2>2 DEF SoldOrLeft
<1>2. L \in SUBSET Order /\ TotalQuantity(L) \in Nat
  BY Quantities
<1>3. Ledger!Next \/ UNCHANGED <<order, available>>
  BY StepRefines DEF Ledger!ledgerVars
<1>4. CASE UNCHANGED <<order, available>>
  BY <1>1, <1>4
<1>5. ASSUME NEW o \in Order, Ledger!Create(o) PROVE SoldOrLeft(k)' = SoldOrLeft(k)
  <2>1. /\ order[o] = "none" /\ order' = [order EXCEPT ![o] = "Pending"]
        /\ available' = [available EXCEPT ![SkuOf[o]] = @ - Quantity[o]]
    BY <1>0, <1>5 DEF Ledger!Create, Ledger!Exists, Ledger!Clash
  <2>2. CASE SkuOf[o] = k
    <3>1. M = L \cup {o} /\ o \notin L
      BY <1>0, <2>1, <2>2
    <3>2. TotalQuantity(M) = TotalQuantity(L) + Quantity[o]
      BY <1>2, <3>1, Quantities
    <3>3. available'[k] = available[k] - Quantity[o]
      BY <1>0, <2>1, <2>2
    <3> QED
      BY <1>0, <1>1, <1>2, <3>2, <3>3, OrderFacts
  <2>3. CASE SkuOf[o] # k
    <3>1. M = L /\ available'[k] = available[k]
      BY <1>0, <2>1, <2>3
    <3> QED
      BY <1>1, <3>1
  <2> QED
    BY <2>2, <2>3
<1>6. ASSUME NEW o \in Order, Ledger!Pay(o) PROVE SoldOrLeft(k)' = SoldOrLeft(k)
  <2>1. M = L /\ UNCHANGED available
    BY <1>0, <1>6 DEF Ledger!Pay
  <2> QED
    BY <1>1, <2>1
<1>7. ASSUME NEW o \in Order, Ledger!Cancel(o) PROVE SoldOrLeft(k)' = SoldOrLeft(k)
  <2>1. /\ order[o] = "Pending" /\ order' = [order EXCEPT ![o] = "Cancel"]
        /\ available' = [available EXCEPT ![SkuOf[o]] = @ + Quantity[o]]
    BY <1>7 DEF Ledger!Cancel
  <2>2. CASE SkuOf[o] = k
    <3>1. M = L \ {o} /\ o \in L
      BY <1>0, <2>1, <2>2
    <3>2. TotalQuantity(M) = TotalQuantity(L) - Quantity[o]
      BY <1>2, <3>1, Quantities
    <3>3. available'[k] = available[k] + Quantity[o]
      BY <1>0, <2>1, <2>2
    <3> QED
      BY <1>0, <1>1, <1>2, <3>2, <3>3, OrderFacts
  <2>3. CASE SkuOf[o] # k
    <3>1. M = L /\ available'[k] = available[k]
      BY <1>0, <2>1, <2>3
    <3> QED
      BY <1>1, <3>1
  <2> QED
    BY <2>2, <2>3
<1> QED
  BY <1>3, <1>4, <1>5, <1>6, <1>7 DEF Ledger!Next

\* How far the columns of a sku are off its total.
Off(k) == SoldOrLeft(k) - total[k]

\* There is one operator: until his form is submitted it shows the total as it is, and
\* no more available units than are now available or in orders that stand.
FormInv ==
    edit = "form" => \A k \in Sku : form.sku = k => /\ form.total = total[k]
                                                   /\ form.available <= SoldOrLeft(k)

OffMoves ==
    \A k \in Sku :
        \/ Off(k)' = Off(k)
        \/ /\ edit = "form" /\ edit' # "form" /\ form.sku = k
           /\ Off(k)' = Off(k) + (form.available - available[k])
           /\ Off(k)' - Off(k) <= TotalQuantity(Ledger!LiveOf(k))

\* A step that leaves the rows alone.
LEMMA RowsAlone ==
    ASSUME UNCHANGED <<order, available>>, NEW k \in Sku
    PROVE  /\ SoldOrLeft(k)' = SoldOrLeft(k)
           /\ TotalQuantity(Ledger!LiveOf(k))' = TotalQuantity(Ledger!LiveOf(k))
  BY DEF SoldOrLeft, Ledger!LiveOf, Ledger!Live, TotalQuantity, UnitsOf

\* Every step but that of a submission that writes: what is sold or left stays, as the
\* total does.
LEMMA SoldOrLeftStays ==
    ASSUME UpdateTypeOK, [UpdateNext]_everyVar, NEW k \in Sku,
           \A d \in Change : Submit(d) => UNCHANGED <<total, available>>
    PROVE  SoldOrLeft(k)' = SoldOrLeft(k) /\ UNCHANGED total
<1>0. TypeOK /\ RunnersOK
  BY TaskTypes DEF UpdateTypeOK
<1>1. CASE Next /\ UNCHANGED updateVars
  BY <1>0, <1>1, UnitsMove DEF updateVars
<1>2. ASSUME NEW n \in Runner, RunnerStep(n) \/ CrashRunner(n), UNCHANGED updateVars
      PROVE  UNCHANGED <<order, available, total>>
  BY <1>0, <1>2, RunnerWrites DEF updateVars
<1>3. ASSUME NEW o \in Order, Age(o), UNCHANGED updateVars
      PROVE  UNCHANGED <<order, available, total>>
  BY <1>3 DEF Age, updateVars, vars, sharedVars, mysqlVars
<1>4. ASSUME NEW d \in Change, Submit(d) PROVE UNCHANGED <<order, available, total>>
  BY <1>4 DEF Submit
<1>5. CASE \/ \E i \in Sku : OpenForm(i) \/ ReadDetail(i)
           \/ StartProcess \/ EndWarmUp \/ UNCHANGED everyVar
  BY <1>5, RowsAlone
     DEF OpenForm, ReadDetail, StartProcess, EndWarmUp, everyVar, updateVars, allVars, vars,
         sharedVars, mysqlVars
<1>6. CASE SyncStock \/ \E i \in Sku : BatchSet(i)
  BY <1>6, RowsAlone DEF SyncStock, BatchSet, mysqlVars
<1> QED
  BY <1>1, <1>2, <1>3, <1>4, <1>5, <1>6, RowsAlone DEF UpdateNext, UpdateStep, TaskNext

\* A submission that writes: by the total that it shows, the number of units added does
\* not matter, only how far the stock has moved since the form was opened.
LEMMA SubmitMoves ==
    ASSUME UpdateTypeOK, FormInv, NEW d \in Change, Submit(d), Accepted(d), WriteSku(d),
           NEW k \in Sku
    PROVE  \/ Off(k)' = Off(k)
           \/ /\ edit = "form" /\ edit' # "form" /\ form.sku = k
              /\ Off(k)' = Off(k) + (form.available - available[k])
              /\ Off(k)' - Off(k) <= TotalQuantity(Ledger!LiveOf(k))
<1> DEFINE s == form.sku
           sold == TotalQuantity(Ledger!LiveOf(k))
<1>0. total \in [Sku -> Nat] /\ available \in [Sku -> Nat] /\ edit = "form" /\ d \in Int
  BY UpdateAssumption, TaskTypes DEF UpdateTypeOK, TypeOK, StateTypeOK, Submit
<1>1. s \in Sku /\ form.total \in Nat /\ form.available \in Nat
  BY <1>0, FormNumbers
<1>2. sold' = sold /\ sold \in Nat
  <2>1. UNCHANGED order
    BY DEF Submit
  <2>2. Ledger!LiveOf(k) \in SUBSET Order
    BY DEF Ledger!LiveOf, Ledger!Live
  <2> QED
    BY <2>1, <2>2, Quantities DEF Ledger!LiveOf, Ledger!Live, TotalQuantity, UnitsOf
<1>3. /\ Off(k) = (sold + available[k]) - total[k]
      /\ Off(k)' = (sold + available'[k]) - total'[k]
  <2>1. SoldOrLeft(k) = sold + available[k] /\ SoldOrLeft(k)' = sold' + available'[k]
    BY DEF SoldOrLeft
  <2>2. Off(k) = SoldOrLeft(k) - total[k] /\ Off(k)' = SoldOrLeft(k)' - total'[k]
    BY DEF Off
  <2>3. SoldOrLeft(k)' = sold + available'[k]
    BY <1>2, <2>1, Zenon
  <2> QED
    BY <2>1, <2>2, <2>3, Zenon
<1>4. CASE k = s
  <2>1. total'[k] = form.total + d /\ available'[k] = form.available + d
    BY <1>0, <1>4 DEF WriteSku
  <2>2. form.total = total[k] /\ form.available <= sold + available[k]
    BY <1>0, <1>4 DEF FormInv, SoldOrLeft
  <2>3. edit' # "form"
    BY DEF Submit
  <2> HIDE DEF s, sold
  <2>4. /\ Off(k)' = Off(k) + (form.available - available[k])
        /\ Off(k)' - Off(k) <= sold
    BY <1>0, <1>1, <1>2, <1>3, <2>1, <2>2
  <2> QED
    BY <1>0, <1>4, <2>3, <2>4 DEF s, sold
<1>5. CASE k # s
  <2>1. total'[k] = total[k] /\ available'[k] = available[k]
    BY <1>0, <1>5 DEF WriteSku
  <2> QED
    BY <1>3, <2>1
<1> QED
  BY <1>4, <1>5

LEMMA OffStep ==
    ASSUME UpdateTypeOK, FormInv, [UpdateNext]_everyVar
    PROVE  OffMoves /\ FormInv'
<1>1. CASE \E d \in Change : Submit(d) /\ ~UNCHANGED <<total, available>>
  <2>1. PICK d \in Change : Submit(d) /\ Accepted(d) /\ WriteSku(d)
    BY <1>1 DEF Submit
  <2>2. edit' # "form"
    BY <2>1 DEF Submit
  <2> QED
    BY <2>1, <2>2, SubmitMoves DEF OffMoves, FormInv
<1>2. CASE \A d \in Change : Submit(d) => UNCHANGED <<total, available>>
  <2>1. \A k \in Sku : SoldOrLeft(k)' = SoldOrLeft(k)
    BY <1>2, SoldOrLeftStays
  <2>2. ASSUME NEW k \in Sku PROVE Off(k)' = Off(k)
    BY <1>2, <2>1, SoldOrLeftStays DEF Off
  <2>3. FormInv'
    <3> SUFFICES ASSUME edit' = "form", NEW k \in Sku, form'.sku = k
                 PROVE  form'.total = total'[k] /\ form'.available <= SoldOrLeft(k)'
      BY Zenon DEF FormInv
    <3>1. SoldOrLeft(k)' = SoldOrLeft(k) /\ UNCHANGED total
      BY <1>2, SoldOrLeftStays
    <3>2. CASE OpenForm(k)
      <4>1. form'.total = total[k] /\ form'.available = available[k]
        BY <3>2 DEF OpenForm
      <4>2. available[k] <= SoldOrLeft(k)
        <5>1. Ledger!LiveOf(k) \in SUBSET Order /\ available[k] \in Nat
          BY TaskTypes DEF Ledger!LiveOf, Ledger!Live, UpdateTypeOK, TypeOK, StateTypeOK
        <5>2. TotalQuantity(Ledger!LiveOf(k)) \in Nat
          BY <5>1, Quantities
        <5> QED
          BY <5>1, <5>2 DEF SoldOrLeft
      <4> QED
        BY <3>1, <4>1, <4>2
    <3>3. CASE ~OpenForm(k)
      <4>1. ASSUME NEW i \in Sku PROVE ~OpenForm(i)
        BY <3>3 DEF OpenForm
      <4>2. edit = "form" /\ UNCHANGED form
        BY <4>1
           DEF UpdateNext, UpdateStep, Submit, SyncStock, StartProcess, ReadDetail, BatchSet,
               EndWarmUp, everyVar, updateVars
      <4> QED
        BY <3>1, <4>2 DEF FormInv
    <3> QED
      BY <3>2, <3>3
  <2> QED
    BY <2>2, <2>3 DEF OffMoves
<1> QED
  BY <1>1, <1>2

\* Whatever forms show, and whatever the task, warm-ups, edits and every fault do to the
\* stock in Redis meanwhile: the rows come to account for more than total_stock only
\* when a form is written over sales made since it was opened, and then by these sales.
THEOREM OversoldByStaleForms == UpdateSpec => OnlyStaleFormsOversell
<1>1. UpdateInit => FormInv
  BY DEF UpdateInit, FormInv
<1>2. UpdateTypeOK /\ FormInv /\ [UpdateNext]_everyVar => FormInv'
  BY OffStep
<1>3. UpdateTypeOK /\ FormInv /\ [UpdateNext]_everyVar => [OffMoves]_everyVar
  BY OffStep
<1>4. OffMoves <=>
        \A k \in Sku :
          LET off == SoldOrLeft(k) - total[k] IN
          \/ off' = off
          \/ /\ edit = "form" /\ edit' # "form" /\ form.sku = k
             /\ off' = off + (form.available - available[k])
             /\ off' - off <= TotalQuantity(Ledger!LiveOf(k))
  BY DEF OffMoves, Off
<1> QED
  BY <1>1, <1>2, <1>3, <1>4, UpdateTypes, PTL DEF UpdateSpec, OnlyStaleFormsOversell

-------------------------------------------------------------------------------
(* Reservations that the task gives back. *)

\* A record gets old when everybody who works on its reservation is done with it,
\* and nobody begins again.
RepairFaults == HonestErrors /\ DeliveredOnce /\ "Lag" \notin TaskFaults

\* Neither a call nor a message works for o any more.
Over(o) ==
    /\ pc[o] \in Terminal
    /\ ~Unsettled(o)
    /\ \A w \in Worker : wpc[w] # "idle" => OrderOf(w) # o

\* A runner is at an old record from its look-up on, and when it gives back there is
\* no order.
RepairsOld ==
    /\ \A o \in aged : Over(o)
    /\ \A n \in Runner :
        /\ stage[n] \in {"look", "rollback", "unmark", "uncoupon", "drop"} => at[n] \in aged
        /\ stage[n] \in {"rollback", "unmark", "uncoupon"} => ~Ledger!Exists(at[n])

RepairInv == HoldInv /\ RepairsOld

\* The pipeline does not come back to an order it is done with, and creates none.
LEMMA OverStays ==
    ASSUME TypeOK, DeliveredOnce, NEW o \in Order, Over(o), [Next]_vars
    PROVE  Over(o)' /\ (Ledger!Exists(o)' => Ledger!Exists(o))
<1> USE DEF TypeOK, StateTypeOK, consumerVars, redisVars, mysqlVars, kafkaVars, sharedVars
<1>0. /\ \A m \in Message : m[1] = o => topic[m] \notin {"ready", "taken", "passed"}
      /\ \A w \in Worker : wpc[w] # "idle" => OrderOf(w) # o
      /\ pc[o] \in Terminal
  BY DEF Over, Unsettled
\* What has to be shown of a step.
<1>1. ASSUME pc'[o] = pc[o], order'[o] = order[o],
             \A m \in Message : m[1] = o => topic'[m] \in {topic[m], "done"},
             \A w \in Worker : wpc'[w] # "idle" => OrderOf(w)' # o
      PROVE  Over(o)' /\ (Ledger!Exists(o)' => Ledger!Exists(o))
  BY <1>0, <1>1 DEF Over, Unsettled, Ledger!Exists
<1>2. CASE UNCHANGED <<topic, order, pc, wpc, wmsg>>
  BY <1>0, <1>1, <1>2 DEF OrderOf
<1>3. CASE PlaceNext /\ UNCHANGED <<consumerVars, cpc>>
  <2> PICK p \in Order : Admit(p) \/ Refuse(p) \/ CallStep(p) \/ CrashCall(p)
    BY <1>3 DEF PlaceNext
  <2>1. p # o /\ pc'[o] = pc[o] /\ UNCHANGED <<order, wpc, wmsg>>
    BY <1>0, <1>3
       DEF Admit, Refuse, CallStep, CrashCall, Qualify, CheckMark, CheckRecord, ApplyCoupon,
           DeductStock, SetPending, Send, RemarkBuy, UndoPending, UndoStock, UndoMark,
           UndoCoupon, Goes, Terminal, PlaceTypeOK
  <2>2. \A m \in Message : m[1] = o => topic'[m] = topic[m]
    <3>1. CASE Send(p)
      BY <2>1, <3>1, CopyFacts DEF Send, SendFails, Publish
    <3>2. CASE ~Send(p)
      BY <3>2
         DEF Admit, Refuse, CallStep, CrashCall, Qualify, CheckMark, CheckRecord,
             ApplyCoupon, DeductStock, SetPending, RemarkBuy, UndoPending, UndoStock,
             UndoMark, UndoCoupon
    <3> QED
      BY <3>1, <3>2
  <2> QED
    BY <1>0, <1>1, <2>1, <2>2 DEF OrderOf
<1>4. CASE ConsumerNext /\ UNCHANGED <<pc, cpc>>
  <2>1. ASSUME NEW m \in Message, ResumePassed(m)
        PROVE  Over(o)' /\ (Ledger!Exists(o)' => Ledger!Exists(o))
    BY <1>0, <1>1, <1>4, <2>1 DEF ResumePassed, OrderOf
  <2>2. ASSUME NEW w \in Worker, WorkerStep(w) \/ CrashWorker(w) \/ Rebalance(w)
        PROVE  Over(o)' /\ (Ledger!Exists(o)' => Ledger!Exists(o))
    <3>1. ASSUME NEW m \in Message, Fetch(w, m)
          PROVE  Over(o)' /\ (Ledger!Exists(o)' => Ledger!Exists(o))
      BY <1>0, <1>1, <1>4, <3>1 DEF Fetch, OrderOf, ConsumerTypeOK
    <3>2. CASE ~\E m \in Message : Fetch(w, m)
      <4>1. ~CrashWorker(w) /\ ~Rebalance(w)
        BY DEF DeliveredOnce, CrashWorker, Rebalance
      <4>2. wpc[w] # "idle" /\ OrderOf(w) # o
        BY <1>0, <2>2, <3>2, <4>1
           DEF WorkerStep, ConfirmTx, ClearPending, Schedule, Ack, RouteRetry, DeadLetter,
               Restock, RemoveMark, RestoreCoupon, DropReservation, Moves
      <4>3. wmsg[w] \in Message /\ wmsg[w][1] # o
        BY <4>2, WorkerFacts DEF OrderOf
      <4>4. /\ \A v \in Worker \ {w} : wpc'[v] = wpc[v] /\ wmsg'[v] = wmsg[v]
            /\ wmsg'[w] = wmsg[w] \/ wpc'[w] = "idle"
        BY <2>2, <3>2, <4>1
           DEF WorkerStep, ConfirmTx, DuplicateSucceeds, Fails, ClearPending, Schedule, Ack,
               RouteRetry, SendFails, DeadLetter, Restock, RemoveMark, RestoreCoupon,
               DropReservation, GivesUp, Leaves, Moves, ConsumerTypeOK
      <4>5. order'[o] = order[o]
        <5>1. CASE ConfirmTx(w)
          BY <4>2, <5>1 DEF ConfirmTx, Confirm
        <5>2. CASE ~ConfirmTx(w)
          BY <2>2, <3>2, <4>1, <5>2
             DEF WorkerStep, ClearPending, Schedule, Ack, RouteRetry, DeadLetter, Restock,
                 RemoveMark, RestoreCoupon, DropReservation
        <5> QED
          BY <5>1, <5>2
      <4>6. ASSUME NEW m \in Message, m[1] = o PROVE topic'[m] = topic[m]
        <5>1. m # wmsg[w]
          BY <4>3, <4>6
        <5>2. CASE RouteRetry(w)
          <6> DEFINE next == <<OrderOf(w), RetryCount(w) + 1>>
          <6>1. m # next
            BY <4>2, <4>6
          <6>2. WithCopy(next)[m] = topic[m]
            BY <6>1, CopyFacts
          <6>3. WithCopy(next) \in [Message -> {"absent", "ready", "taken", "passed", "done"}]
            BY CopyType
          <6> HIDE DEF next
          <6>4. \/ topic' = WithCopy(next) \/ Leaves(w, WithCopy(next), "passed")
                \/ Leaves(w, topic, "passed")
            BY <5>2 DEF RouteRetry, Publish, SendFails, GivesUp, next
          <6> QED
            BY <5>1, <6>2, <6>3, <6>4 DEF Leaves
        <5>3. CASE ~RouteRetry(w)
          BY <2>2, <3>2, <4>1, <5>1, <5>3
             DEF WorkerStep, ConfirmTx, ClearPending, Schedule, Ack, DeadLetter, Restock,
                 RemoveMark, RestoreCoupon, DropReservation, GivesUp, Leaves
        <5> QED
          BY <5>2, <5>3
      <4> QED
        BY <1>0, <1>1, <1>4, <4>2, <4>4, <4>5, <4>6 DEF OrderOf
    <3> QED
      BY <3>1, <3>2
  <2> QED
    BY <1>4, <2>1, <2>2 DEF ConsumerNext
<1>5. CASE CancelNext /\ UNCHANGED <<pc, consumerVars>>
  <2>1. UNCHANGED topic /\ (order'[o] # order[o] => order[o] = "Pending")
    BY <1>5 DEF CancelNext, CancelStep, CancelOrder, HandleTimeout, CancelTx, RestoreStock,
                ClearMark, DropTask, Pay, CrashCancel
  <2>2. Over(o)'
    BY <1>5, <2>1 DEF Over, Unsettled, OrderOf
  <2> QED
    BY <2>1, <2>2 DEF Ledger!Exists
<1>6. CASE DeadLettersNext /\ UNCHANGED <<pc, consumerVars, cpc>>
  BY <1>2, <1>6 DEF DeadLettersNext, PersistDeadLetter, Replay, DeliveredOnce
<1>7. CASE Expire /\ UNCHANGED <<pc, consumerVars, cpc>>
  BY <1>2, <1>7 DEF Expire, ExpireRequest, ExpireMark, ExpirePending
<1>8. CASE UNCHANGED vars
  BY <1>2, <1>8 DEF vars
<1> QED
  BY <1>3, <1>4, <1>5, <1>6, <1>7, <1>8 DEF Next
\* A reservation of an order that has no row and that everybody is done with may be
\* given back.
LEMMA GivenBackHolds ==
    ASSUME TypeOK, DeliveredOnce, HoldInv, NEW o \in Order, Over(o), ~Ledger!Exists(o),
           reserved' = reserved \ {o},
           UNCHANGED <<topic, dlqTopic, deadRow, order, pc, wpc, wmsg, cpc>>
    PROVE  HoldInv'
<1> USE DEF HoldInv
<1>1. /\ pc[o] \notin HoldingPc /\ order[o] # "Cancel" /\ o \notin Ledger!Live
      /\ \A m \in Message : topic[m] = "ready" => m[1] # o
      /\ \A w \in Worker : wpc[w] \in KeepingPc => OrderOf(w) # o
  BY DEF Over, Terminal, HoldingPc, Unsettled, KeepingPc, Ledger!Exists, Ledger!Live
<1>2. SentFirst' /\ NeverFails'
  BY DEF SentFirst, NeverFails, OrderOf, Ledger!Exists
<1>3. CallsHold' /\ CancelsHold' /\ OrderBacked'
  BY <1>1 DEF CallsHold, CancelsHold, OrderBacked, Ledger!Live
<1>4. OneDecides'
  BY <1>1 DEF OneDecides, OrderOf, Ledger!Exists
<1> QED
  BY <1>2, <1>3, <1>4

\* The steps of a runner: between its look-up and its roll back nobody creates the
\* order it has not found, because its record is old.
LEMMA RepairRunner ==
    ASSUME TypeOK, RunnersOK, RepairFaults, RepairInv, NEW n \in Runner,
           RunnerStep(n) \/ CrashRunner(n)
    PROVE  RepairInv'
<1> USE DEF Turn, Stays, NextOne, OldEnough
<1> DEFINE AtOld == {"look", "rollback", "unmark", "uncoupon", "drop"}
           Undoing == {"rollback", "unmark", "uncoupon"}
<1>0. /\ UNCHANGED <<topic, dlqTopic, deadRow, order, pc, wpc, wmsg, cpc, aged>>
      /\ \A o \in Order : Over(o)' = Over(o) /\ (Ledger!Exists(o)' <=> Ledger!Exists(o))
  <2>1. UNCHANGED <<topic, dlqTopic, deadRow, order, pc, wpc, wmsg, cpc, aged>>
    BY DEF RunnerStep, ListProducts, CompareStock, SetStock, StartScan, ReadRecord, EndRound,
           LookUp, RollbackStock, RemoveUserBuy, RestoreUserCoupon, DropRecord, Undo,
           CrashRunner, vars, sharedVars, redisVars, mysqlVars, kafkaVars, consumerVars
  <2> QED
    BY <2>1 DEF Over, Unsettled, OrderOf, Ledger!Exists
<1>1. HoldInv'
  <2>1. CASE UNCHANGED reserved
    BY <1>0, <2>1, RestHolds DEF RepairInv
  <2>2. CASE RollbackStock(n) /\ GiveBack(at[n])
    <3>1. at[n] \in Order /\ Over(at[n]) /\ ~Ledger!Exists(at[n])
      BY <2>2 DEF RollbackStock, RepairInv, RepairsOld, RunnersOK
    <3> QED
      BY <1>0, <2>2, <3>1, GivenBackHolds DEF GiveBack, RepairInv, RepairFaults
  <2> QED
    BY <2>1, <2>2
       DEF RunnerStep, ListProducts, CompareStock, SetStock, StartScan, ReadRecord, EndRound,
           LookUp, RollbackStock, RemoveUserBuy, RestoreUserCoupon, DropRecord, Undo,
           StoreFails, CrashRunner, vars, sharedVars
<1>2. /\ stage'[n] \in AtOld => at'[n] \in aged
      /\ stage'[n] \in Undoing => ~Ledger!Exists(at'[n])
  <2> USE DEF RunnersOK, Stages
  <2>0. /\ stage[n] \in AtOld => at[n] \in aged /\ at[n] \in Order
        /\ stage[n] \in Undoing => ~Ledger!Exists(at[n])
    BY DEF RepairInv, RepairsOld
  <2>1. CASE stage'[n] \notin AtOld
    BY <2>1
  <2>2. CASE UNCHANGED <<stage, at>>
    BY <2>0, <2>2
  <2>3. CASE ReadRecord(n)
    <3>1. PICK r \in left[n] :
             \/ /\ pending[r] \in aged /\ stage' = [stage EXCEPT ![n] = "look"]
                /\ at' = [at EXCEPT ![n] = pending[r]]
             \/ UNCHANGED <<stage, at>>
      BY <2>3 DEF ReadRecord
    <3> QED
      BY <2>2, <3>1
  <2>4. CASE LookUp(n)
    <3>1. stage[n] = "look"
      BY <2>4 DEF LookUp
    <3>2. \/ /\ stage'[n] = "drop" /\ at' = at
          \/ /\ stage'[n] = "rollback" /\ at' = at
             /\ ~\E o \in Order : RequestOf[o] = RequestOf[at[n]] /\ Ledger!Exists(o)
          \/ stage'[n] = "scan"
      BY <2>4 DEF LookUp
    <3> QED
      BY <2>0, <3>1, <3>2
  <2>5. CASE RollbackStock(n) \/ RemoveUserBuy(n) \/ RestoreUserCoupon(n)
    BY <2>0, <2>5 DEF RollbackStock, RemoveUserBuy, RestoreUserCoupon, Undo
  <2> QED
    BY <2>1, <2>2, <2>3, <2>4, <2>5
       DEF RunnerStep, ListProducts, CompareStock, SetStock, StartScan, EndRound, DropRecord,
           CrashRunner
<1>3. \A i \in Runner \ {n} : stage'[i] = stage[i] /\ at'[i] = at[i]
  BY DEF RunnersOK, RunnerStep, ListProducts, CompareStock, SetStock, StartScan, ReadRecord,
         EndRound, LookUp, RollbackStock, RemoveUserBuy, RestoreUserCoupon, DropRecord, Undo,
         CrashRunner
<1>4. RepairsOld'
  <2>1. \A o \in aged' : Over(o)'
    BY <1>0 DEF RepairInv, RepairsOld, RunnersOK
  <2>2. ASSUME NEW i \in Runner
        PROVE  /\ stage'[i] \in AtOld => at'[i] \in aged'
               /\ stage'[i] \in Undoing => ~Ledger!Exists(at[i])'
    <3>1. CASE i = n
      BY <1>0, <1>2, <3>1 DEF Ledger!Exists
    <3>2. CASE i # n
      BY <1>0, <1>3, <3>2 DEF RepairInv, RepairsOld, Ledger!Exists
    <3> QED
      BY <3>1, <3>2
  <2> QED
    BY <2>1, <2>2 DEF RepairsOld
<1> QED
  BY <1>1, <1>4 DEF RepairInv

\* A step of the pipeline, of the task, of an update or of a warm-up.
LEMMA RepairStep ==
    ASSUME UpdateTypeOK, RepairFaults, RepairInv, [UpdateNext]_everyVar
    PROVE  RepairInv'
<1> USE DEF RepairFaults
<1>0. TypeOK /\ RunnersOK
  BY TaskTypes DEF UpdateTypeOK
<1>1. ASSUME UNCHANGED <<topic, dlqTopic, deadRow, reserved, order, pc, wpc, wmsg, cpc,
                         taskVars>>
      PROVE  RepairInv'
  <2>1. HoldInv'
    BY <1>1, RestHolds DEF RepairInv
  <2>2. RepairsOld'
    BY <1>1 DEF RepairInv, RepairsOld, Over, Unsettled, OrderOf, Ledger!Exists, taskVars
  <2> QED
    BY <2>1, <2>2 DEF RepairInv
<1>2. CASE Next /\ UNCHANGED taskVars
  <2>1. HoldInv'
    BY <1>0, <1>2, HoldStep DEF RepairInv, StockFaults, FailedOnce
  <2>2. RepairsOld'
    <3>1. ASSUME NEW o \in aged PROVE Over(o)' /\ (Ledger!Exists(o)' => Ledger!Exists(o))
      <4>1. o \in Order /\ Over(o)
        BY <1>0, <3>1 DEF RunnersOK, RepairInv, RepairsOld
      <4> QED
        BY <1>0, <1>2, <4>1, OverStays
    <3> QED
      BY <1>2, <3>1 DEF RepairInv, RepairsOld, taskVars, Ledger!Exists
  <2> QED
    BY <2>1, <2>2 DEF RepairInv
<1>3. ASSUME NEW n \in Runner, RunnerStep(n) \/ CrashRunner(n) PROVE RepairInv'
  BY <1>0, <1>3, RepairRunner
<1>4. ASSUME NEW o \in Order, Age(o) PROVE RepairInv'
  <2>1. /\ UNCHANGED <<topic, dlqTopic, deadRow, reserved, order, pc, wpc, wmsg, cpc, stage, at>>
        /\ aged' = aged \cup {o} /\ Over(o)
    BY <1>4 DEF Age, Over, InProgress, vars, sharedVars, mysqlVars, kafkaVars, consumerVars
  <2>2. HoldInv'
    BY <2>1, RestHolds DEF RepairInv
  <2>3. RepairsOld'
    BY <2>1 DEF RepairInv, RepairsOld, Over, Unsettled, OrderOf, Ledger!Exists
  <2> QED
    BY <2>2, <2>3 DEF RepairInv
<1>5. CASE ~(TaskNext /\ UNCHANGED updateVars)
  <2>1. UNCHANGED <<topic, dlqTopic, deadRow, reserved, order, pc, wpc, wmsg, cpc, taskVars>>
    BY <1>5 DEF UpdateNext, UpdateStep, OpenForm, Submit, SyncStock, StartProcess, ReadDetail,
                BatchSet, EndWarmUp, everyVar, allVars, vars, sharedVars, redisVars, mysqlVars,
                kafkaVars, consumerVars
  <2> QED
    BY <1>1, <2>1
<1> QED
  BY <1>2, <1>3, <1>4, <1>5 DEF TaskNext

\* The task never takes the reservation of an order that stands: although it looks
\* for the order in one command and gives back in another, with two runners at once,
\* commands that fail and rounds that stop halfway, and whatever edits and warm-ups
\* do to the stock meanwhile.
THEOREM RepairsSpareOrders == RepairFaults /\ UpdateSpec => []OrderBacked
<1> SUFFICES ASSUME RepairFaults PROVE UpdateSpec => []OrderBacked
  OBVIOUS
<1>1. UpdateInit => RepairInv
  BY HoldInit DEF UpdateInit, TaskInit, RepairInv, RepairsOld
<1>2. UpdateTypeOK /\ RepairInv /\ [UpdateNext]_everyVar => RepairInv'
  BY RepairStep
<1>3. RepairInv => OrderBacked
  BY DEF RepairInv, HoldInv
<1> QED
  BY <1>1, <1>2, <1>3, UpdateTypes, PTL DEF UpdateSpec

-------------------------------------------------------------------------------
(* What a round of the task gives back. *)

\* One process runs the task, its rounds go through, and no command of the roll back,
\* or of a call and a worker that undo the same reservation, reports an error.
SoleRepairs ==
    /\ RepairFaults /\ "StoreError" \notin Faults /\ "RunnerCrash" \notin TaskFaults
    /\ \A m, n \in Runner : m = n

\* A runner is at the record of o, with one of the commands s next.
RunnerAt(o, s) == \E n \in Runner : stage[n] \in s /\ at[n] = o

RecordStages == {"look", "rollback", "unmark", "uncoupon", "drop"}
RecordedPc == {"send", "remark", "unpend", "accepted", "crashed"}

\* The worker that compensates o has given its stock back.
WorkerUndoes(o) ==
    \E w \in Worker : wpc[w] \in {"unmark", "uncoupon", "drop"} /\ OrderOf(w) = o

CallsDone == \A o \in Order : pc[o] \in {"unmark", "uncoupon"} => o \notin reserved

\* A record is written by the call of its order, which has reserved, and is of its
\* request.
RecordsOwn ==
    \A o \in Order, r \in Request :
        pending[r] = o => RequestOf[o] = r /\ pc[o] \in RecordedPc

\* A record is there as long as its reservation, and a little longer: until whoever
\* gave the reservation back, or made an order of it, has deleted it.
RecordedHeld ==
    \A o \in Order : pending[RequestOf[o]] = o =>
        \/ o \in reserved \/ Ledger!Exists(o)
        \/ WorkerUndoes(o)
        \/ RunnerAt(o, {"unmark", "uncoupon", "drop"})

\* What the runner knows of the order whose record it is at.
RunnerKnows(n) ==
    /\ stage[n] \in RecordStages => pc[at[n]] \in {"accepted", "crashed"}
    /\ stage[n] = "look" => at[n] \in reserved \/ Ledger!Exists(at[n])
    /\ stage[n] = "rollback" => at[n] \in reserved
    /\ stage[n] \in {"unmark", "uncoupon"} => at[n] \notin reserved
    /\ stage[n] = "drop" => at[n] \notin reserved \/ Confirmed(at[n])

\* A step of the pipeline writes the record of an order that was just reserved, and
\* deletes one on behalf of its call or of a worker that is done with it.
LEMMA RecordWrites ==
    ASSUME TypeOK, [Next]_vars, NEW r \in Request
    PROVE  \/ pending'[r] = pending[r]
           \/ pending'[r] = None /\ "Expiry" \in Faults
           \/ \E o \in Order :
                 /\ RequestOf[o] = r
                 /\ \/ /\ pc[o] = "pend" /\ pc'[o] = "send" /\ pending'[r] = o
                       /\ UNCHANGED <<reserved, order>>
                    \/ pc[o] = "unpend" /\ pending'[r] = None
                    \/ /\ pending'[r] = None
                       /\ \E w \in Worker : wpc[w] \in {"clear", "drop"} /\ OrderOf(w) = o
<1> DEFINE Kept == pending'[r] = pending[r]
           Expired == pending'[r] = None /\ "Expiry" \in Faults
           Written(o) ==
                 /\ RequestOf[o] = r
                 /\ \/ /\ pc[o] = "pend" /\ pc'[o] = "send" /\ pending'[r] = o
                       /\ UNCHANGED <<reserved, order>>
                    \/ pc[o] = "unpend" /\ pending'[r] = None
                    \/ /\ pending'[r] = None
                       /\ \E w \in Worker : wpc[w] \in {"clear", "drop"} /\ OrderOf(w) = o
<1> SUFFICES Kept \/ Expired \/ \E o \in Order : Written(o)
  OBVIOUS
<1> USE DEF TypeOK, StateTypeOK, redisVars, sharedVars, mysqlVars
<1>0. ASSUME UNCHANGED pending PROVE Kept
  BY <1>0
<1>1. ASSUME NEW o \in Order, DropPending(o) PROVE Kept \/ (pending'[r] = None /\ RequestOf[o] = r)
  BY <1>1, OrderFacts DEF DropPending
<1>2. CASE PlaceNext
  <2> PICK o \in Order : Admit(o) \/ Refuse(o) \/ CallStep(o) \/ CrashCall(o)
    BY <1>2 DEF PlaceNext
  <2>1. CASE SetPending(o)
    <3>1. CASE pending' = [pending EXCEPT ![RequestOf[o]] = o]
      <4>1. pc[o] = "pend" /\ pc'[o] = "send" /\ UNCHANGED <<reserved, order>>
        BY <2>1 DEF SetPending, Goes, PlaceTypeOK
      <4>2. CASE RequestOf[o] = r
        <5>1. Written(o)
          BY <3>1, <4>1, <4>2
        <5> QED
          BY <5>1
      <4>3. CASE RequestOf[o] # r
        BY <3>1, <4>3
      <4> QED
        BY <4>2, <4>3
    <3> QED
      BY <2>1, <3>1, <1>0 DEF SetPending, BestEffort
  <2>2. CASE UndoPending(o)
    <3>1. pc[o] = "unpend" /\ (DropPending(o) \/ UNCHANGED pending)
      BY <2>2 DEF UndoPending, Goes, BestEffort
    <3>2. CASE pending'[r] = None /\ RequestOf[o] = r
      <4>1. Written(o)
        BY <3>1, <3>2
      <4> QED
        BY <4>1
    <3> QED
      BY <1>0, <1>1, <3>1, <3>2
  <2>3. CASE ~SetPending(o) /\ ~UndoPending(o)
    BY <1>0, <2>3
       DEF CallStep, Admit, Refuse, CrashCall, Qualify, CheckMark, CheckRecord, ApplyCoupon,
           DeductStock, Send, RemarkBuy, UndoStock, UndoMark, UndoCoupon
  <2> QED
    BY <2>1, <2>2, <2>3
<1>3. CASE ConsumerNext
  <2>1. ASSUME NEW w \in Worker, ClearPending(w) \/ DropReservation(w)
        PROVE  Kept \/ \E o \in Order : Written(o)
    <3>1. wpc[w] \in {"clear", "drop"} /\ (DropPending(OrderOf(w)) \/ UNCHANGED pending)
      BY <2>1 DEF ClearPending, DropReservation, Moves, BestEffort
    <3>2. PICK o \in Order : o = OrderOf(w)
      BY <3>1, WorkerFacts
    <3>3. CASE pending'[r] = None /\ RequestOf[o] = r
      <4>1. Written(o)
        BY <3>1, <3>2, <3>3
      <4> QED
        BY <4>1
    <3> QED
      BY <1>0, <1>1, <3>1, <3>2, <3>3
  <2> QED
    BY <1>0, <1>3, <2>1
       DEF ConsumerNext, WorkerStep, Fetch, ConfirmTx, Schedule, Ack, RouteRetry,
           DeadLetter, Restock, RemoveMark, RestoreCoupon, CrashWorker, Rebalance, ResumePassed
<1>4. CASE CancelNext
  BY <1>0, <1>4 DEF CancelNext, CancelStep, CancelOrder, HandleTimeout, CancelTx, RestoreStock,
                    ClearMark, DropTask, Pay, CrashCancel
<1>5. CASE DeadLettersNext
  BY <1>0, <1>5 DEF DeadLettersNext, PersistDeadLetter, Replay
<1>6. CASE Expire
  BY <1>0, <1>6 DEF Expire, ExpireRequest, ExpireMark, ExpirePending
<1>7. CASE UNCHANGED vars
  BY <1>0, <1>7 DEF vars
<1> QED
  BY <1>2, <1>3, <1>4, <1>5, <1>6, <1>7 DEF Next

\* A call that has ended stays ended; one that has written its record keeps it until
\* it deletes it itself; and it undoes its mark after its stock.
LEMMA RecordedStays ==
    ASSUME TypeOK, HoldInv, "StoreError" \notin Faults, [Next]_vars, NEW o \in Order
    PROVE  /\ pc[o] \in Terminal => pc'[o] = pc[o]
           /\ pc[o] \in RecordedPc => pc'[o] \in RecordedPc \/ DropPending(o)
           /\ pc'[o] \in {"unmark", "uncoupon"} =>
                pc[o] \in {"unmark", "uncoupon"} \/ o \notin reserved'
<1> USE DEF Terminal, RecordedPc
<1>1. CASE pc'[o] = pc[o]
  BY <1>1
<1>2. CASE PlaceNext
  <2> PICK p \in Order : Admit(p) \/ Refuse(p) \/ CallStep(p) \/ CrashCall(p)
    BY <1>2 DEF PlaceNext
  <2> USE DEF Goes, TypeOK, PlaceTypeOK
  <2>1. CASE p # o
    <3>1. pc'[o] = pc[o]
      BY <2>1 DEF Admit, Refuse, CallStep, CrashCall, Qualify, CheckMark, CheckRecord,
                  ApplyCoupon, DeductStock, SetPending, Send, RemarkBuy, UndoPending,
                  UndoStock, UndoMark, UndoCoupon
    <3> QED
      BY <1>1, <3>1
  <2>2. CASE p = o /\ DeductStock(o)
    <3>1. pc[o] = "deduct" /\ o \notin reserved
      BY <2>2 DEF DeductStock, HoldInv, CallsHold, EarlyPc
    <3>2. pc'[o] \in {"unmark", "uncoupon"} => UNCHANGED reserved
      BY <2>2 DEF DeductStock
    <3> QED
      BY <3>1, <3>2
  <2>3. CASE p = o /\ UndoStock(o)
    BY <2>3 DEF UndoStock, BestEffort, GiveBack
  <2>4. CASE p = o /\ UndoPending(o)
    BY <2>4 DEF UndoPending, BestEffort
  <2>5. CASE p = o /\ ~DeductStock(o) /\ ~UndoStock(o) /\ ~UndoPending(o)
    BY <2>5 DEF Admit, Refuse, CallStep, CrashCall, Qualify, CheckMark, CheckRecord,
                ApplyCoupon, SetPending, Send, RemarkBuy, UndoMark, UndoCoupon, AfterRefusal
  <2> QED
    BY <2>1, <2>2, <2>3, <2>4, <2>5
<1>3. CASE UNCHANGED pc
  BY <1>1, <1>3
<1> QED
  BY <1>2, <1>3 DEF Next, vars

\* A reservation that the pipeline gives back is given back by its call, by its
\* cancellation, or by the worker that compensates its order.
LEMMA GivenBackBy ==
    ASSUME TypeOK, [Next]_vars, NEW o \in Order, o \in reserved, o \notin reserved'
    PROVE  pc[o] = "restock" \/ cpc[o] = "restock" \/ WorkerUndoes(o)'
           \/ "StoreError" \in Faults
<1> USE DEF GiveBack, BestEffort, StoreFails, redisVars, sharedVars
<1>1. CASE PlaceNext
  <2> PICK p \in Order : Admit(p) \/ Refuse(p) \/ CallStep(p) \/ CrashCall(p)
    BY <1>1 DEF PlaceNext
  <2>1. UndoStock(p) /\ p = o
    BY DEF Admit, Refuse, CallStep, CrashCall, Qualify, CheckMark, CheckRecord, ApplyCoupon,
           DeductStock, Reserve, SetPending, Send, RemarkBuy, UndoPending, UndoStock,
           UndoMark, UndoCoupon
  <2> QED
    BY <2>1 DEF UndoStock, Goes
<1>2. CASE ConsumerNext
  <2>1. PICK w \in Worker : Restock(w)
    BY <1>2 DEF ConsumerNext, WorkerStep, Fetch, ConfirmTx, ClearPending, Schedule, Ack,
                RouteRetry, DeadLetter, RemoveMark, RestoreCoupon, DropReservation,
                CrashWorker, Rebalance, ResumePassed
  <2>2. CASE Moves(w, "restock", "unmark") /\ GiveBack(OrderOf(w))
    <3>1. wpc'[w] = "unmark" /\ OrderOf(w)' = OrderOf(w) /\ OrderOf(w) = o
      BY <2>2 DEF Moves, OrderOf, TypeOK, ConsumerTypeOK
    <3> QED
      BY <3>1 DEF WorkerUndoes
  <2> QED
    BY <2>1, <2>2 DEF Restock
<1>3. CASE CancelNext
  BY <1>3 DEF CancelNext, CancelStep, CancelOrder, HandleTimeout, CancelTx, RestoreStock,
              ClearMark, DropTask, Pay, CrashCancel, CancelGoes
<1>4. CASE DeadLettersNext
  BY <1>4 DEF DeadLettersNext, PersistDeadLetter, Replay
<1>5. CASE Expire
  BY <1>5 DEF Expire, ExpireRequest, ExpireMark, ExpirePending
<1>6. CASE UNCHANGED vars
  BY <1>6 DEF vars
<1> QED
  BY <1>1, <1>2, <1>3, <1>4, <1>5, <1>6 DEF Next

\* A worker that has given the stock of o back goes on to its record.
LEMMA UndoesOn ==
    ASSUME TypeOK, DeliveredOnce, "StoreError" \notin Faults, [Next]_vars, NEW o \in Order,
           WorkerUndoes(o)
    PROVE  WorkerUndoes(o)' \/ DropPending(o)
<1> PICK w \in Worker : wpc[w] \in {"unmark", "uncoupon", "drop"} /\ OrderOf(w) = o
  BY DEF WorkerUndoes
<1>1. CASE wpc'[w] = wpc[w] /\ wmsg'[w] = wmsg[w]
  BY <1>1 DEF WorkerUndoes, OrderOf
<1>2. CASE ConsumerNext
  <2>1. ASSUME NEW v \in Worker, v # w, WorkerStep(v) \/ CrashWorker(v) \/ Rebalance(v)
        PROVE  wpc'[w] = wpc[w] /\ wmsg'[w] = wmsg[w]
    BY <2>1 DEF WorkerStep, Fetch, ConfirmTx, ClearPending, Schedule, Ack, RouteRetry,
                DeadLetter, Restock, RemoveMark, RestoreCoupon, DropReservation, CrashWorker,
                Rebalance, Moves, Leaves, GivesUp, Fails, DuplicateSucceeds, SendFails,
                StoreFails, TypeOK, ConsumerTypeOK
  <2>2. ASSUME NEW m \in Message, ResumePassed(m)
        PROVE  wpc'[w] = wpc[w] /\ wmsg'[w] = wmsg[w]
    BY <2>2 DEF ResumePassed, consumerVars
  <2>3. CASE WorkerStep(w)
    <3>1. RemoveMark(w) \/ RestoreCoupon(w) \/ DropReservation(w)
      BY <2>3 DEF WorkerStep, Fetch, ConfirmTx, ClearPending, Schedule, Ack, RouteRetry,
                  DeadLetter, Restock, Moves
    <3>2. CASE RemoveMark(w) \/ RestoreCoupon(w)
      <4>1. wpc'[w] \in {"uncoupon", "drop"} /\ wmsg' = wmsg
        BY <3>2 DEF RemoveMark, RestoreCoupon, Moves, StoreFails, TypeOK, ConsumerTypeOK
      <4> QED
        BY <4>1 DEF WorkerUndoes, OrderOf
    <3>3. CASE DropReservation(w)
      BY <3>3 DEF DropReservation, BestEffort
    <3> QED
      BY <3>1, <3>2, <3>3
  <2>4. ~CrashWorker(w) /\ ~Rebalance(w)
    BY DEF CrashWorker, Rebalance, DeliveredOnce
  <2> QED
    BY <1>1, <1>2, <2>1, <2>2, <2>3, <2>4 DEF ConsumerNext
<1>3. CASE UNCHANGED consumerVars
  BY <1>1, <1>3 DEF consumerVars
<1> QED
  BY <1>2, <1>3 DEF Next, vars

\* Of an order that is over the pipeline gives nothing back, unless it has a row, and it
\* reserves nothing for it.
LEMMA OverHeld ==
    ASSUME TypeOK, HoldInv, DeliveredOnce, "StoreError" \notin Faults, [Next]_vars,
           NEW o \in Order, Over(o)
    PROVE  /\ o \in reserved => o \in reserved' \/ Ledger!Exists(o)
           /\ o \in reserved' => o \in reserved
<1>1. pc[o] \notin {"deduct", "restock"} /\ Over(o)'
  BY OverStays DEF Over, Terminal
<1>2. cpc[o] = "restock" => Ledger!Exists(o)
  BY DEF HoldInv, CancelsHold, Ledger!Exists
<1>3. ~WorkerUndoes(o)'
  BY <1>1 DEF Over, WorkerUndoes
<1>4. o \in reserved' => o \in reserved
  BY <1>1, StockMoves DEF Reserve, GiveBack
<1> QED
  BY <1>1, <1>2, <1>3, <1>4, GivenBackBy

\* What is known of the records, the calls and the runner, beside RepairInv.
KnownInv ==
    /\ WorkersKnow /\ CallsDone /\ RecordsOwn /\ RecordedHeld
    /\ \A n \in Runner : RunnerKnows(n)

\* The steps of the pipeline.
LEMMA KnownPipeline ==
    ASSUME TypeOK, RunnersOK, SoleRepairs, RepairInv, KnownInv, Next, UNCHANGED taskVars
    PROVE  KnownInv'
<1> USE DEF KnownInv
<1>0. HoldInv /\ DeliveredOnce /\ "StoreError" \notin Faults /\ TypeOK'
  BY TypeStep DEF SoleRepairs, RepairFaults, RepairInv
<1>1. WorkersKnow'
  BY <1>0, WorkersKnowStep
<1>2. \A o \in Order : o \in reserved' => o \in reserved \/ pc[o] = "deduct"
  BY StockMoves DEF Reserve, GiveBack
<1>3. CallsDone'
  BY <1>0, <1>2, RecordedStays DEF CallsDone
<1>4. RecordsOwn'
  <2> SUFFICES ASSUME NEW o \in Order, NEW r \in Request, pending'[r] = o
               PROVE  RequestOf[o] = r /\ pc'[o] \in RecordedPc
    BY DEF RecordsOwn
  <2>0. o # None
    BY PipelineAssumption
  <2>1. CASE pending'[r] = pending[r]
    <3>1. RequestOf[o] = r /\ pc[o] \in RecordedPc
      BY <2>1 DEF RecordsOwn
    <3>2. ~DropPending(o)
      BY <2>0, <3>1 DEF DropPending, TypeOK, StateTypeOK
    <3> QED
      BY <1>0, <3>1, <3>2, RecordedStays
  <2>2. CASE \E p \in Order : RequestOf[p] = r /\ pc'[p] = "send" /\ pending'[r] = p
    BY <2>2 DEF RecordedPc
  <2> QED
    BY <2>0, <2>1, <2>2, RecordWrites
<1>5. RecordedHeld'
  <2> SUFFICES ASSUME NEW o \in Order, pending'[RequestOf[o]] = o
               PROVE  \/ o \in reserved' \/ Ledger!Exists(o)'
                      \/ WorkerUndoes(o)'
                      \/ RunnerAt(o, {"unmark", "uncoupon", "drop"})'
    BY DEF RecordedHeld
  <2>0. o # None /\ RequestOf[o] \in Request
    BY PipelineAssumption, OrderFacts
  <2>1. CASE pending'[RequestOf[o]] = pending[RequestOf[o]]
    <3>1. pc[o] \in RecordedPc /\ ~DropPending(o)
      BY <2>0, <2>1 DEF RecordsOwn, DropPending, TypeOK, StateTypeOK
    <3>2. CASE o \in reserved
      <4>1. cpc[o] = "restock" => Ledger!Exists(o)
        BY <1>0 DEF HoldInv, CancelsHold, Ledger!Exists
      <4>2. pc[o] # "restock"
        BY <3>1 DEF RecordedPc
      <4> QED
        BY <1>0, <3>2, <4>1, <4>2, GivenBackBy, RowsStay
    <3>3. CASE Ledger!Exists(o)
      BY <3>3, RowsStay
    <3>4. CASE WorkerUndoes(o)
      BY <1>0, <3>1, <3>4, UndoesOn
    <3>5. CASE RunnerAt(o, {"unmark", "uncoupon", "drop"})
      BY <3>5 DEF RunnerAt, taskVars
    <3> QED
      BY <2>1, <3>2, <3>3, <3>4, <3>5 DEF RecordedHeld
  <2>2. CASE \E p \in Order : pc[p] = "pend" /\ pending'[RequestOf[o]] = p /\ UNCHANGED reserved
    BY <1>0, <2>2 DEF HoldInv, CallsHold, HoldingPc
  <2> QED
    BY <2>0, <2>1, <2>2, RecordWrites
<1>6. ASSUME NEW n \in Runner PROVE RunnerKnows(n)'
  <2>0. stage' = stage /\ at' = at /\ RunnerKnows(n)
    BY DEF taskVars
  <2>1. CASE stage[n] \in RecordStages
    <3>1. PICK o \in Order : o = at[n] /\ Over(o)
      BY <2>1 DEF RecordStages, RepairInv, RepairsOld, RunnersOK
    <3>2. pc'[o] = pc[o]
      BY <1>0, <3>1, RecordedStays DEF Over
    <3>3. /\ o \in reserved => o \in reserved' \/ Ledger!Exists(o)
          /\ o \in reserved' => o \in reserved
          /\ Ledger!Exists(o) => Ledger!Exists(o)'
      <4>1. /\ o \in reserved => o \in reserved' \/ Ledger!Exists(o)
            /\ o \in reserved' => o \in reserved
        BY <1>0, <3>1, OverHeld
      <4>2. Ledger!Exists(o) => Ledger!Exists(o)'
        BY RowsStay
      <4> QED
        BY <4>1, <4>2
    <3>4. Confirmed(o) => Confirmed(o)'
      <4>1. ASSUME NEW p \in Order, Ledger!Exists(p), Clash(o, p) PROVE Duplicate(o)'
        BY <4>1, RowsStay DEF Duplicate, Clash
      <4> QED
        BY <4>1 DEF Confirmed, Duplicate
    <3>5. stage[n] = "rollback" => ~Ledger!Exists(o)
      BY <3>1 DEF RepairInv, RepairsOld
    <3>6. /\ pc'[o] \in {"accepted", "crashed"}
          /\ stage[n] = "look" => o \in reserved' \/ Ledger!Exists(o)'
          /\ stage[n] = "rollback" => o \in reserved'
          /\ stage[n] \in {"unmark", "uncoupon"} => o \notin reserved'
          /\ stage[n] = "drop" => o \notin reserved' \/ Confirmed(o)'
      BY <2>0, <2>1, <3>1, <3>2, <3>3, <3>4, <3>5 DEF RunnerKnows
    <3>7. at'[n] = o /\ stage'[n] = stage[n]
      BY <2>0, <3>1
    <3> QED
      BY <3>6, <3>7 DEF RunnerKnows, Ledger!Exists, Confirmed, Duplicate, Clash
  <2>2. CASE stage[n] \notin RecordStages
    BY <2>0, <2>2 DEF RunnerKnows, RecordStages
  <2> QED
    BY <2>1, <2>2
<1> QED
  BY <1>1, <1>3, <1>4, <1>5, <1>6

\* What the commands of the runner change in the pipeline.
LEMMA RunnerTouches ==
    ASSUME SoleRepairs, NEW n \in Runner, RunnerStep(n)
    PROVE  /\ UNCHANGED <<topic, order, pc, wpc, wmsg, cpc>>
           /\ \/ UNCHANGED reserved
              \/ RollbackStock(n) /\ stage[n] = "rollback" /\ GiveBack(at[n])
           /\ \/ UNCHANGED buyMark
              \/ RemoveUserBuy(n) /\ stage[n] = "unmark" /\ Unmark(at[n])
           /\ \/ UNCHANGED coupon
              \/ RestoreUserCoupon(n) /\ stage[n] = "uncoupon" /\ ReturnCoupon(at[n])
           /\ \/ UNCHANGED pending
              \/ DropRecord(n) /\ stage[n] = "drop" /\ DropPending(at[n])
<1> USE DEF SoleRepairs, RepairFaults, vars, sharedVars, redisVars, mysqlVars, kafkaVars,
            consumerVars, Undo, StoreFails, BestEffort
<1>1. CASE \/ ListProducts(n) \/ CompareStock(n) \/ SetStock(n) \/ StartScan(n)
           \/ ReadRecord(n) \/ EndRound(n) \/ LookUp(n)
  BY <1>1 DEF ListProducts, CompareStock, SetStock, StartScan, ReadRecord, EndRound, LookUp
<1>2. CASE RollbackStock(n)
  BY <1>2 DEF RollbackStock, GiveBack
<1>3. CASE RemoveUserBuy(n)
  BY <1>3 DEF RemoveUserBuy
<1>4. CASE RestoreUserCoupon(n)
  BY <1>4 DEF RestoreUserCoupon
<1>5. CASE DropRecord(n)
  BY <1>5 DEF DropRecord, NextOne, Turn
<1> QED
  BY <1>1, <1>2, <1>3, <1>4, <1>5 DEF RunnerStep

\* Where the runner is after a step at a record, and where it comes from.
LEMMA RunnerTurnsTo ==
    ASSUME RunnersOK, SoleRepairs, NEW n \in Runner, RunnerStep(n)
    PROVE  /\ stage'[n] = "look" => \E r \in Request : pending[r] = at'[n] /\ at'[n] \in aged
                                                       /\ stage[n] = "scan"
           /\ stage'[n] \in {"rollback", "unmark", "uncoupon", "drop"} => at'[n] = at[n]
           /\ stage'[n] = "rollback" => LookUp(n) /\ stage[n] = "look"
           /\ stage'[n] = "unmark" => RollbackStock(n) /\ stage[n] = "rollback"
                                      /\ GiveBack(at[n])
           /\ stage'[n] = "uncoupon" => RemoveUserBuy(n) /\ stage[n] = "unmark"
                                        /\ HasCoupon(at[n])
           /\ stage'[n] = "drop" =>
                 \/ LookUp(n) /\ stage[n] = "look"
                 \/ stage[n] = "unmark" /\ RemoveUserBuy(n) /\ ~HasCoupon(at[n])
                 \/ stage[n] = "uncoupon" /\ RestoreUserCoupon(n)
           /\ stage[n] \in {"unmark", "uncoupon", "drop"} =>
                 stage'[n] \in {"uncoupon", "drop"} \/ DropPending(at[n])
<1> USE DEF SoleRepairs, RunnersOK, Turn, Stays, NextOne, Undo, StoreFails, BestEffort
<1>1. CASE \/ ListProducts(n) \/ CompareStock(n) \/ SetStock(n) \/ StartScan(n)
           \/ EndRound(n)
  BY <1>1 DEF ListProducts, CompareStock, SetStock, StartScan, EndRound
<1>2. CASE RollbackStock(n)
  BY <1>2 DEF RollbackStock
<1>3. CASE RemoveUserBuy(n)
  BY <1>3 DEF RemoveUserBuy
<1>4. CASE RestoreUserCoupon(n)
  BY <1>4 DEF RestoreUserCoupon
<1>5. CASE DropRecord(n)
  BY <1>5 DEF DropRecord
<1>6. CASE LookUp(n)
  BY <1>6 DEF LookUp
<1>7. CASE ReadRecord(n)
  <2>1. stage[n] = "scan" /\ left[n] \subseteq Request
    <3>1. stage[n] = "scan"
      BY <1>7 DEF ReadRecord
    <3>2. Placed("scan", left[n], at[n])
      BY <3>1
    <3> QED
      BY <3>1, <3>2 DEF Placed
  <2>2. PICK r \in left[n] :
           \/ /\ pending[r] \in aged /\ stage' = [stage EXCEPT ![n] = "look"]
              /\ at' = [at EXCEPT ![n] = pending[r]]
           \/ UNCHANGED <<stage, at>>
    BY <1>7 DEF ReadRecord, OldEnough
  <2>3. CASE /\ pending[r] \in aged /\ stage' = [stage EXCEPT ![n] = "look"]
             /\ at' = [at EXCEPT ![n] = pending[r]]
    <3>1. stage'[n] = "look" /\ at'[n] = pending[r] /\ r \in Request
      BY <2>1, <2>3
    <3> QED
      BY <2>1, <2>3, <3>1
  <2> QED
    BY <2>1, <2>2, <2>3
<1> QED
  BY <1>1, <1>2, <1>3, <1>4, <1>5, <1>6, <1>7 DEF RunnerStep

\* The steps of the runner: an old record it comes to is of a reservation that is still
\* there, or of an order with a row, because nobody else is at work on it.
LEMMA KnownRunner ==
    ASSUME TypeOK, RunnersOK, SoleRepairs, RepairInv, KnownInv, NEW n \in Runner,
           RunnerStep(n)
    PROVE  KnownInv'
<1> USE DEF KnownInv
<1>0. /\ UNCHANGED <<topic, order, pc, wpc, wmsg, cpc>> /\ reserved' \subseteq reserved
      /\ \A m \in Runner : m = n
      /\ \A o \in Order, r \in Request : pending'[r] = o => pending[r] = o
  <2>1. None \notin Order
    BY PipelineAssumption
  <2> QED
    BY <2>1, RunnerTouches DEF SoleRepairs, GiveBack, DropPending, TypeOK, StateTypeOK
<1>1. /\ \A o \in Order : (Ledger!Exists(o)' <=> Ledger!Exists(o))
      /\ \A o \in Order : (Confirmed(o)' <=> Confirmed(o))
      /\ \A o \in Order : (WorkerUndoes(o)' <=> WorkerUndoes(o))
  BY <1>0 DEF Ledger!Exists, Confirmed, Duplicate, Clash, WorkerUndoes, OrderOf
<1>2. WorkersKnow'
  BY <1>0 DEF WorkersKnow, OrderOf, Ledger!Exists
<1>3. CallsDone' /\ RecordsOwn'
  BY <1>0 DEF CallsDone, RecordsOwn
<1>4. stage[n] \in RecordStages => at[n] \in Order /\ Over(at[n])
  BY DEF RecordStages, RepairInv, RepairsOld, RunnersOK
<1>5. RecordedHeld'
  <2> SUFFICES ASSUME NEW o \in Order, pending'[RequestOf[o]] = o
               PROVE  \/ o \in reserved' \/ Ledger!Exists(o)'
                      \/ WorkerUndoes(o)'
                      \/ RunnerAt(o, {"unmark", "uncoupon", "drop"})'
    BY DEF RecordedHeld
  <2>1. pending[RequestOf[o]] = o /\ ~DropPending(o)
    <3>1. o # None /\ RequestOf[o] \in Request
      BY PipelineAssumption, OrderFacts
    <3> QED
      BY <1>0, <3>1 DEF DropPending, TypeOK, StateTypeOK
  <2>2. CASE o \in reserved
    <3>1. CASE RollbackStock(n) /\ GiveBack(at[n]) /\ at[n] = o
      <4>1. stage'[n] = "unmark" /\ at'[n] = o
        BY <2>1, <3>1 DEF SoleRepairs, RollbackStock, Undo, Turn, Stays, StoreFails, RunnersOK
      <4> QED
        BY <4>1 DEF RunnerAt
    <3> QED
      BY <2>2, <3>1, RunnerTouches DEF GiveBack
  <2>3. CASE RunnerAt(o, {"unmark", "uncoupon", "drop"})
    <3>1. stage[n] \in {"unmark", "uncoupon", "drop"} /\ at[n] = o
      BY <1>0, <2>3 DEF RunnerAt
    <3>2. stage'[n] \in {"uncoupon", "drop"} /\ at'[n] = o
      BY <2>1, <3>1, RunnerTurnsTo
    <3> QED
      BY <3>2 DEF RunnerAt
  <2> QED
    BY <1>1, <2>1, <2>2, <2>3 DEF RecordedHeld
<1>6. ASSUME stage'[n] = "look" PROVE RunnerKnows(n)'
  <2>1. PICK r \in Request : pending[r] = at'[n] /\ at'[n] \in aged /\ stage[n] = "scan"
    BY <1>6, RunnerTurnsTo
  <2>2. PICK o \in Order : o = at'[n] /\ Over(o)
    BY <2>1 DEF RepairInv, RepairsOld, RunnersOK
  <2>3. RequestOf[o] = r /\ pc[o] \in {"accepted", "crashed"}
    BY <2>1, <2>2 DEF RecordsOwn, RecordedPc, Over, Terminal
  <2>4. ~WorkerUndoes(o) /\ ~RunnerAt(o, {"unmark", "uncoupon", "drop"})
    BY <1>0, <2>1, <2>2 DEF Over, WorkerUndoes, RunnerAt
  <2>5. o \in reserved \/ Ledger!Exists(o)
    BY <2>1, <2>2, <2>3, <2>4 DEF RecordedHeld
  <2>6. UNCHANGED reserved
    BY <2>1, RunnerTouches
  <2> QED
    BY <1>0, <1>6, <2>2, <2>3, <2>5, <2>6 DEF RunnerKnows, Ledger!Exists
<1>7. ASSUME stage'[n] \in {"rollback", "unmark", "uncoupon", "drop"} PROVE RunnerKnows(n)'
  <2>0. at'[n] = at[n] /\ stage[n] \in RecordStages
    BY <1>7, RunnerTurnsTo DEF RecordStages
  <2>1. PICK o \in Order : o = at[n] /\ Over(o)
    BY <1>4, <2>0
  <2>2. pc'[o] \in {"accepted", "crashed"}
    BY <1>0, <2>0, <2>1 DEF RunnerKnows
  <2>3. stage'[n] = "rollback" => o \in reserved'
    <3>1. ASSUME LookUp(n), stage[n] = "look", stage'[n] = "rollback"
          PROVE  o \in reserved'
      <4>1. ~Ledger!Exists(o)
        BY <2>1, <3>1 DEF LookUp, Turn, NextOne, RunnersOK
      <4>2. o \in reserved
        BY <2>1, <3>1, <4>1 DEF RunnerKnows
      <4>3. UNCHANGED reserved
        BY <3>1, RunnerTouches
      <4> QED
        BY <4>2, <4>3
    <3> QED
      BY <3>1, RunnerTurnsTo
  <2>4. stage'[n] \in {"unmark", "uncoupon"} => o \notin reserved'
    BY <1>0, <2>1, RunnerTurnsTo DEF RunnerKnows, GiveBack
  <2>5. stage'[n] = "drop" => o \notin reserved' \/ Confirmed(o)
    <3>1. ASSUME LookUp(n), stage[n] = "look", stage'[n] = "drop"
          PROVE  Confirmed(o)
      <4>1. \E p \in Order : RequestOf[p] = RequestOf[o] /\ Ledger!Exists(p)
        BY <2>1, <3>1 DEF LookUp, Turn, NextOne, RunnersOK
      <4> QED
        BY <4>1 DEF Confirmed, Duplicate, Clash
    <3> QED
      BY <1>0, <2>1, <3>1, RunnerTurnsTo DEF RunnerKnows
  <2>6. stage'[n] # "look"
    BY <1>7
  <2>7. Confirmed(o) => Confirmed(o)'
    BY <1>1
  <2> QED
    BY <1>0, <1>7, <2>0, <2>1, <2>2, <2>3, <2>4, <2>5, <2>6, <2>7
       DEF RunnerKnows, Ledger!Exists, Confirmed, Duplicate, Clash
<1>8. ASSUME stage'[n] \notin RecordStages PROVE RunnerKnows(n)'
  BY <1>0, <1>8 DEF RunnerKnows, RecordStages
<1> QED
  BY <1>0, <1>2, <1>3, <1>5, <1>6, <1>7, <1>8 DEF RecordStages

\* Every step.
LEMMA SoleStep ==
    ASSUME UpdateTypeOK, SoleRepairs, RepairInv, KnownInv, [UpdateNext]_everyVar
    PROVE  KnownInv'
<1>0. TypeOK /\ RunnersOK
  BY TaskTypes DEF UpdateTypeOK
<1>1. ASSUME UNCHANGED <<pending, reserved, order, pc, wpc, wmsg, stage, at>> PROVE KnownInv'
  BY <1>1 DEF KnownInv, WorkersKnow, CallsDone, RecordsOwn, RecordedHeld, RunnerKnows,
              WorkerUndoes, RunnerAt, OrderOf, Ledger!Exists, Confirmed, Duplicate, Clash
<1>2. CASE Next /\ UNCHANGED taskVars
  BY <1>0, <1>2, KnownPipeline
<1>3. ASSUME NEW n \in Runner, RunnerStep(n) PROVE KnownInv'
  BY <1>0, <1>3, KnownRunner
<1>4. ASSUME NEW n \in Runner PROVE ~CrashRunner(n)
  BY DEF CrashRunner, SoleRepairs
<1>5. ASSUME NEW o \in Order, Age(o) PROVE KnownInv'
  BY <1>1, <1>5 DEF Age, vars, sharedVars, redisVars, mysqlVars, consumerVars
<1>6. CASE ~(TaskNext /\ UNCHANGED updateVars)
  BY <1>1, <1>6
     DEF UpdateNext, UpdateStep, OpenForm, Submit, SyncStock, StartProcess, ReadDetail,
         BatchSet, EndWarmUp, everyVar, allVars, vars, sharedVars, redisVars, mysqlVars,
         consumerVars, taskVars
<1> QED
  BY <1>2, <1>3, <1>4, <1>5, <1>6 DEF TaskNext

LEMMA SoleInit == UpdateInit => RepairInv /\ KnownInv
<1> SUFFICES ASSUME UpdateInit PROVE RepairInv /\ KnownInv
  OBVIOUS
<1>1. RepairInv
  BY HoldInit DEF UpdateInit, TaskInit, RepairInv, RepairsOld
<1>2. KnownInv
  BY PipelineAssumption, OrderFacts
     DEF UpdateInit, TaskInit, Init, StateInit, PlaceInit, ConsumerInit, KnownInv, WorkersKnow,
         CallsDone, RecordsOwn, RecordedHeld, RunnerKnows, RecordStages
<1> QED
  BY <1>1, <1>2

\* The task gives back what is reserved: a runner that has looked for the order in vain
\* finds its units still held, although the call, the worker that compensates and the
\* record are three commands of three processes.
TakesBackHeld == \A n \in Runner : stage[n] = "rollback" => at[n] \in reserved
THEOREM RepairsGiveBackOnce == SoleRepairs /\ UpdateSpec => []TakesBackHeld
<1> SUFFICES ASSUME SoleRepairs PROVE UpdateSpec => []TakesBackHeld
  OBVIOUS
<1>1. UpdateTypeOK /\ RepairInv /\ KnownInv /\ [UpdateNext]_everyVar => RepairInv' /\ KnownInv'
  BY SoleStep, RepairStep DEF SoleRepairs
<1>2. KnownInv => TakesBackHeld
  BY DEF KnownInv, RunnerKnows, TakesBackHeld
<1> QED
  BY <1>1, <1>2, SoleInit, UpdateTypes, PTL DEF UpdateSpec

-------------------------------------------------------------------------------
(* Coupons of reservations that the task gives back. *)

\* A reservation that was not cancelled keeps its coupon, whoever has crashed over it;
\* the runner that gives it back returns the coupon next.
KeepsCoupon(o) ==
    /\ HasCoupon(o)
    /\ \/ o \in reserved /\ order[o] # "Cancel"
       \/ RunnerAt(o, {"unmark", "uncoupon"})

Claims(o) == ClaimsCoupon(o) \/ KeepsCoupon(o)

\* What is claimed by the pipeline or for the task is used, and claimed once.
AllClaimedOnce ==
    /\ \A o \in Order : Claims(o) => coupon[CouponOf[o]] = "used"
    /\ \A o, p \in Order : Claims(o) /\ Claims(p) /\ CouponOf[o] = CouponOf[p] => o = p

\* The moves of CouponMove, for these claims.
AllClaimsKept == \A p \in Order : Claims(p)' => Claims(p)
TakesFree(o) ==
    /\ HasCoupon(o) /\ coupon[CouponOf[o]] = "unused" /\ TakeCoupon(o)
    /\ \A p \in Order : p # o /\ Claims(p)' => Claims(p)
ReturnsOwn(o) ==
    ReturnCoupon(o) /\ (HasCoupon(o) => Claims(o)) /\ ~Claims(o)' /\ AllClaimsKept
ClaimsMove ==
    \/ UNCHANGED coupon /\ AllClaimsKept
    \/ \E o \in Order : TakesFree(o) \/ ReturnsOwn(o)

LEMMA ClaimsMoveKeeps == ASSUME TypeOK, AllClaimedOnce, ClaimsMove PROVE AllClaimedOnce'
<1> USE DEF AllClaimedOnce, TypeOK, StateTypeOK
<1>0. \A p \in Order : (Claims(p) => CouponOf[p] \in Coupon)
                       /\ (Claims(p)' => CouponOf[p] \in Coupon)
  BY OrderFacts DEF Claims, ClaimsCoupon, KeepsCoupon, HasCoupon
<1>1. CASE UNCHANGED coupon /\ AllClaimsKept
  BY <1>1 DEF AllClaimsKept
<1>2. ASSUME NEW o \in Order, TakesFree(o) PROVE AllClaimedOnce'
  <2>1. \A p \in Order : Claims(p) => CouponOf[p] # CouponOf[o]
    BY <1>2 DEF TakesFree
  <2>2. CouponOf[o] \in Coupon
    BY <1>2, OrderFacts DEF TakesFree, HasCoupon
  <2>3. \A c \in Coupon : coupon'[c] = IF c = CouponOf[o] THEN "used" ELSE coupon[c]
    BY <1>2, <2>2 DEF TakesFree, TakeCoupon
  <2> QED
    BY <1>0, <1>2, <2>1, <2>2, <2>3 DEF TakesFree
<1>3. ASSUME NEW o \in Order, ReturnsOwn(o) PROVE AllClaimedOnce'
  <2>1. \A p \in Order : Claims(p)' => Claims(p) /\ CouponOf[p] # CouponOf[o]
    BY <1>3 DEF ReturnsOwn, AllClaimsKept, Claims, ClaimsCoupon, KeepsCoupon, HasCoupon
  <2>2. \A c \in Coupon : c # CouponOf[o] => coupon'[c] = coupon[c]
    BY <1>3 DEF ReturnsOwn, ReturnCoupon
  <2> QED
    BY <1>0, <2>1, <2>2
<1> QED
  BY <1>1, <1>2, <1>3 DEF ClaimsMove

\* A coupon that becomes free in the pipeline was claimed by an order that does not hold
\* its reservation any more, or is cancelled, and that no runner is at.
LEMMA FreedBy ==
    ASSUME TypeOK, RunnersOK, RepairFaults, RepairInv, KnownInv, Next, UNCHANGED taskVars,
           NEW c \in Coupon, coupon[c] = "used", coupon'[c] = "unused"
    PROVE  \E p \in Order : CouponOf[p] = c /\ ClaimsCoupon(p) /\ ~KeepsCoupon(p)'
<1> USE DEF redisVars, sharedVars, mysqlVars, BestEffort
<1>0. HoldInv /\ DeliveredOnce
  BY DEF RepairInv, RepairFaults
<1>1. ASSUME NEW o \in Order, ReturnCoupon(o) PROVE CouponOf[o] = c /\ HasCoupon(o)
  BY <1>1, PipelineAssumption DEF ReturnCoupon, HasCoupon
\* No runner is at an order that somebody works for or that has a row.
<1>2. ASSUME NEW o \in Order, RunnerAt(o, {"unmark", "uncoupon"})
      PROVE  Over(o) /\ ~Ledger!Exists(o)
  BY <1>2 DEF RunnerAt, RepairInv, RepairsOld
<1>3. \A o \in Order : RunnerAt(o, {"unmark", "uncoupon"})' => RunnerAt(o, {"unmark", "uncoupon"})
  BY DEF RunnerAt, taskVars
<1>4. CASE PlaceNext
  <2> PICK o \in Order : Admit(o) \/ Refuse(o) \/ CallStep(o) \/ CrashCall(o)
    BY <1>4 DEF PlaceNext
  <2>1. UndoCoupon(o) /\ ReturnCoupon(o)
    <3>1. ~TakeCoupon(o)
      BY DEF TakeCoupon, TypeOK, StateTypeOK
    <3> QED
      BY <3>1 DEF CallStep, Admit, Refuse, CrashCall, Qualify, CheckMark, CheckRecord,
                  ApplyCoupon, DeductStock, SetPending, Send, RemarkBuy, UndoPending,
                  UndoStock, UndoMark, UndoCoupon
  <2>2. pc[o] = "uncoupon" /\ o \notin reserved'
    BY <2>1 DEF UndoCoupon, Goes, KnownInv, CallsDone
  <2>3. ~Over(o)
    BY <2>2 DEF Over, Terminal
  <2>4. ClaimsCoupon(o) /\ CouponOf[o] = c
    BY <1>1, <2>1, <2>2 DEF ClaimsCoupon, ClaimingPc
  <2> QED
    BY <1>2, <1>3, <2>2, <2>3, <2>4 DEF KeepsCoupon
<1>5. CASE ConsumerNext
  <2>1. PICK w \in Worker : RestoreCoupon(w) /\ ReturnCoupon(OrderOf(w))
    BY <1>5 DEF ConsumerNext, WorkerStep, Fetch, ConfirmTx, ClearPending, Schedule, Ack,
                RouteRetry, DeadLetter, Restock, RemoveMark, RestoreCoupon, DropReservation,
                CrashWorker, Rebalance, ResumePassed
  <2>2. wpc[w] = "uncoupon" /\ UNCHANGED reserved
    BY <2>1 DEF RestoreCoupon, Moves
  <2>3. PICK o \in Order : o = OrderOf(w)
    BY <2>2, WorkerFacts DEF TypeOK
  <2>4. o \notin reserved' /\ ~Over(o)
    BY <2>2, <2>3 DEF KnownInv, WorkersKnow, Over
  <2>5. ClaimsCoupon(o) /\ CouponOf[o] = c
    BY <1>0, <1>1, <2>1, <2>2, <2>3 DEF ClaimsCoupon, Pursued, DecidingPc
  <2> QED
    BY <1>2, <1>3, <2>4, <2>5 DEF KeepsCoupon
<1>6. CASE CancelNext
  <2>1. PICK o \in Order : CancelTx(o)
    BY <1>6 DEF CancelNext, CancelStep, CancelOrder, HandleTimeout, RestoreStock, ClearMark,
                DropTask, Pay, CrashCancel
  <2>2. /\ order[o] = "Pending" /\ order'[o] = "Cancel" /\ ReturnCoupon(o)
    BY <2>1 DEF CancelTx, TypeOK, StateTypeOK
  <2>3. ClaimsCoupon(o) /\ CouponOf[o] = c
    BY <1>1, <2>2 DEF ClaimsCoupon, Ledger!Live
  <2>4. Ledger!Exists(o)
    BY <2>2 DEF Ledger!Exists
  <2> QED
    BY <1>2, <1>3, <2>2, <2>3, <2>4 DEF KeepsCoupon
<1>7. CASE DeadLettersNext
  BY <1>7 DEF DeadLettersNext, PersistDeadLetter, Replay
<1>8. CASE Expire
  BY <1>8 DEF Expire, ExpireRequest, ExpireMark, ExpirePending
<1> QED
  BY <1>4, <1>5, <1>6, <1>7, <1>8 DEF Next

\* The steps of the pipeline.
LEMMA PipelineClaims ==
    ASSUME TypeOK, RunnersOK, RepairFaults, RepairInv, KnownInv, CouponInv, AllClaimedOnce,
           Next, UNCHANGED taskVars
    PROVE  ClaimsMove
<1>0. HoldInv /\ StockFaults /\ [Next]_vars
  BY DEF RepairInv, RepairFaults, StockFaults, FailedOnce
<1>1. ASSUME NEW p \in Order, KeepsCoupon(p)' PROVE Claims(p)
  <2>1. HasCoupon(p) /\ (RunnerAt(p, {"unmark", "uncoupon"})' =>
                            RunnerAt(p, {"unmark", "uncoupon"}))
    BY <1>1 DEF KeepsCoupon, HasCoupon, RunnerAt, taskVars
  <2>2. CASE p \in reserved' /\ order'[p] # "Cancel"
    <3>0. [Ledger!Next]_(Ledger!ledgerVars)
      BY <1>0, StepRefines
    <3>1. order[p] # "Cancel"
      BY <2>2, <3>0
         DEF Ledger!Next, Ledger!Create, Ledger!Pay, Ledger!Cancel, Ledger!ledgerVars,
             Ledger!Exists, Ledger!Clash, Clash, TypeOK, StateTypeOK
    <3>2. p \in reserved \/ pc[p] = "deduct"
      BY <1>0, <2>2, StockMoves DEF Reserve, GiveBack
    <3> QED
      BY <2>1, <3>1, <3>2 DEF Claims, KeepsCoupon, ClaimsCoupon, ClaimingPc
  <2> QED
    BY <1>1, <2>1, <2>2 DEF Claims, KeepsCoupon
<1>2. CASE UNCHANGED coupon /\ ClaimsKept
  BY <1>1, <1>2 DEF ClaimsKept, AllClaimsKept, ClaimsMove, Claims
<1>3. ASSUME NEW o \in Order, Takes(o) PROVE ClaimsMove
  BY <1>1, <1>3 DEF Takes, TakesFree, ClaimsMove, Claims
<1>4. ASSUME NEW o \in Order, Returns(o) PROVE ClaimsMove
  <2>1. AllClaimsKept
    BY <1>1, <1>4 DEF Returns, ClaimsKept, AllClaimsKept, Claims
  <2>2. ~KeepsCoupon(o)'
    <3>1. CASE HasCoupon(o)
      <4>1. ClaimsCoupon(o) /\ CouponOf[o] \in Coupon
        BY <1>4, <3>1, OrderFacts DEF Returns, HasCoupon
      <4>2. coupon[CouponOf[o]] = "used" /\ coupon'[CouponOf[o]] = "unused"
        BY <1>4, <4>1 DEF AllClaimedOnce, Claims, Returns, ReturnCoupon
      <4>3. PICK p \in Order : CouponOf[p] = CouponOf[o] /\ ClaimsCoupon(p) /\ ~KeepsCoupon(p)'
        BY <4>1, <4>2, FreedBy
      <4> QED
        BY <4>1, <4>3 DEF AllClaimedOnce, Claims
    <3>2. CASE ~HasCoupon(o)
      BY <3>2 DEF KeepsCoupon, HasCoupon
    <3> QED
      BY <3>1, <3>2
  <2>3. ~Claims(o)'
    BY <1>4, <2>2 DEF Returns, Claims
  <2>4. ReturnCoupon(o) /\ (HasCoupon(o) => Claims(o))
    BY <1>4 DEF Returns, Claims
  <2> QED
    BY <2>1, <2>3, <2>4 DEF ReturnsOwn, ClaimsMove
<1> QED
  BY <1>0, <1>2, <1>3, <1>4, CouponMoves DEF CouponMove

\* The steps of the runner: the coupon it returns is that of a reservation it has just
\* given back, which nobody else has given back before.
LEMMA RunnerClaims ==
    ASSUME TypeOK, RunnersOK, SoleRepairs, RepairInv, KnownInv, NEW n \in Runner,
           RunnerStep(n)
    PROVE  ClaimsMove
<1>0. /\ UNCHANGED <<topic, order, pc, wpc, wmsg, cpc>> /\ reserved' \subseteq reserved
      /\ \A m \in Runner : m = n
  BY RunnerTouches DEF SoleRepairs, GiveBack
<1>1. \A p \in Order : ClaimsCoupon(p)' => ClaimsCoupon(p)
  BY <1>0, ClaimsFrame
<1>2. stage[n] \in RecordStages => at[n] \in Order /\ Over(at[n])
  BY DEF RecordStages, RepairInv, RepairsOld, RunnersOK
<1>3. ASSUME NEW p \in Order, KeepsCoupon(p)' PROVE KeepsCoupon(p)
  <2>0. HasCoupon(p)
    BY <1>3 DEF KeepsCoupon, HasCoupon
  <2>1. CASE p \in reserved' /\ order'[p] # "Cancel"
    BY <1>0, <2>0, <2>1 DEF KeepsCoupon
  <2>2. CASE RunnerAt(p, {"unmark", "uncoupon"})'
    <3>1. stage'[n] \in {"unmark", "uncoupon"} /\ at'[n] = p
      BY <1>0, <2>2 DEF RunnerAt
    <3>2. at[n] = p /\ stage[n] \in {"rollback", "unmark"}
      BY <3>1, RunnerTurnsTo
    <3>3. CASE stage[n] = "rollback"
      <4>1. p \in reserved /\ ~Ledger!Exists(p)
        BY <3>2, <3>3 DEF KnownInv, RunnerKnows, RepairInv, RepairsOld
      <4> QED
        BY <2>0, <4>1 DEF KeepsCoupon, Ledger!Exists
    <3>4. CASE stage[n] = "unmark"
      BY <2>0, <3>2, <3>4 DEF KeepsCoupon, RunnerAt
    <3> QED
      BY <3>2, <3>3, <3>4
  <2> QED
    BY <1>3, <2>1, <2>2 DEF KeepsCoupon
<1>4. AllClaimsKept
  BY <1>1, <1>3 DEF AllClaimsKept, Claims
<1>5. CASE RestoreUserCoupon(n) /\ stage[n] = "uncoupon" /\ ReturnCoupon(at[n])
  <2>1. PICK o \in Order : o = at[n] /\ Over(o)
    BY <1>2, <1>5 DEF RecordStages
  <2>2. o \notin reserved /\ ~Ledger!Exists(o)
    BY <1>5, <2>1 DEF KnownInv, RunnerKnows, RepairInv, RepairsOld
  <2>3. stage'[n] = "drop"
    BY <1>5 DEF RestoreUserCoupon, Undo, StoreFails, Turn, SoleRepairs, RunnersOK
  <2>4. ~KeepsCoupon(o)'
    BY <1>0, <2>2, <2>3 DEF KeepsCoupon, RunnerAt
  <2>5. ~ClaimsCoupon(o)
    BY <2>1, <2>2
       DEF ClaimsCoupon, Over, Unsettled, Pursued, Terminal, ClaimingPc, HoldingPc, DecidingPc,
           SoleRepairs, RepairFaults, Ledger!Live, Ledger!Exists
  <2>6. ~Claims(o)'
    BY <1>1, <2>4, <2>5 DEF Claims
  <2>7. HasCoupon(o) => Claims(o)
    BY <1>5, <2>1 DEF Claims, KeepsCoupon, RunnerAt
  <2> QED
    BY <1>4, <1>5, <2>1, <2>6, <2>7 DEF ReturnsOwn, ClaimsMove
<1> QED
  BY <1>4, <1>5, RunnerTouches DEF ClaimsMove

\* Every step.
LEMMA ClaimsStep ==
    ASSUME UpdateTypeOK, SoleRepairs, RepairInv, KnownInv, CouponInv, AllClaimedOnce,
           [UpdateNext]_everyVar
    PROVE  CouponInv' /\ AllClaimedOnce'
<1>0. TypeOK /\ RunnersOK /\ RepairFaults
  BY TaskTypes DEF UpdateTypeOK, SoleRepairs
<1>1. ASSUME ClaimsMove, UNCHANGED pc PROVE CouponInv' /\ AllClaimedOnce'
  <2>1. AllClaimedOnce'
    BY <1>0, <1>1, ClaimsMoveKeeps
  <2>2. ClaimedOnce'
    BY <2>1 DEF ClaimedOnce, AllClaimedOnce, Claims
  <2> QED
    BY <1>1, <2>1, <2>2 DEF CouponInv, HasCoupon
<1>2. CASE UNCHANGED <<topic, order, pc, wpc, wmsg, coupon, reserved, stage, at>>
  <2>1. \A p \in Order : ClaimsCoupon(p)' => ClaimsCoupon(p)
    BY <1>2, ClaimsFrame
  <2>2. \A p \in Order : KeepsCoupon(p)' => KeepsCoupon(p)
    BY <1>2 DEF KeepsCoupon, HasCoupon, RunnerAt
  <2>3. ClaimsMove
    BY <1>2, <2>1, <2>2 DEF ClaimsMove, AllClaimsKept, Claims
  <2> QED
    BY <1>1, <1>2, <2>3
<1>3. CASE Next /\ UNCHANGED taskVars
  <2>1. AllClaimedOnce'
    BY <1>0, <1>3, PipelineClaims, ClaimsMoveKeeps
  <2>2. StockFaults /\ HoldInv
    BY <1>0 DEF RepairInv, RepairFaults, StockFaults, FailedOnce
  <2>3. CouponInv'
    BY <1>0, <1>3, <2>2, CouponStep
  <2> QED
    BY <2>1, <2>3
<1>4. ASSUME NEW n \in Runner, RunnerStep(n) PROVE CouponInv' /\ AllClaimedOnce'
  <2>1. ClaimsMove /\ UNCHANGED pc
    BY <1>0, <1>4, RunnerClaims, RunnerTouches
  <2> QED
    BY <1>1, <2>1
<1>5. ASSUME NEW n \in Runner PROVE ~CrashRunner(n)
  BY DEF CrashRunner, SoleRepairs
<1>6. ASSUME NEW o \in Order, Age(o) PROVE CouponInv' /\ AllClaimedOnce'
  BY <1>2, <1>6 DEF Age, vars, sharedVars, redisVars, mysqlVars, kafkaVars, consumerVars
<1>7. CASE ~(TaskNext /\ UNCHANGED updateVars)
  BY <1>2, <1>7
     DEF UpdateNext, UpdateStep, OpenForm, Submit, SyncStock, StartProcess, ReadDetail,
         BatchSet, EndWarmUp, everyVar, allVars, vars, sharedVars, redisVars, mysqlVars,
         kafkaVars, consumerVars, taskVars
<1> QED
  BY <1>3, <1>4, <1>5, <1>6, <1>7 DEF TaskNext

LEMMA ClaimsInit == UpdateInit => CouponInv /\ AllClaimedOnce
<1> SUFFICES ASSUME UpdateInit PROVE CouponInv /\ AllClaimedOnce
  OBVIOUS
<1>1. CouponInv
  BY CouponInit DEF UpdateInit, TaskInit
<1>2. \A o \in Order : ~KeepsCoupon(o)
  BY DEF UpdateInit, TaskInit, Init, StateInit, KeepsCoupon, RunnerAt
<1> QED
  BY <1>1, <1>2 DEF CouponInv, ClaimedOnce, AllClaimedOnce, Claims

\* The task returns the coupon of a reservation that it gave back itself.  It never frees
\* the coupon of an order that stands, although RestoreUserCoupon does not ask whose
\* coupon it is, and a user may place the next order with a returned coupon meanwhile.
THEOREM RepairsKeepCoupons == SoleRepairs /\ UpdateSpec => []CouponHeld
<1> SUFFICES ASSUME SoleRepairs PROVE UpdateSpec => []CouponHeld
  OBVIOUS
<1> DEFINE Inv == RepairInv /\ KnownInv /\ CouponInv /\ AllClaimedOnce
<1>1. UpdateTypeOK /\ Inv /\ [UpdateNext]_everyVar => Inv'
  BY SoleStep, RepairStep, ClaimsStep DEF SoleRepairs
<1>2. Inv => CouponHeld
  BY DEF CouponInv, ClaimedOnce, CouponHeld, ClaimsCoupon, HasCoupon, Ledger!Live
<1>3. UpdateInit => Inv
  BY SoleInit, ClaimsInit
<1> QED
  BY <1>1, <1>2, <1>3, UpdateTypes, PTL DEF UpdateSpec

-------------------------------------------------------------------------------
(* Marks of reservations that the task gives back. *)

\* No mark expires while its reservation stands.
SoleMarkFaults == SoleRepairs /\ "Expiry" \notin Faults

\* The runner that has given the units of o back finds its mark, which is nobody else's.
RunnersMarks ==
    \A o \in Order : RunnerAt(o, {"unmark"}) =>
        Mark(o) \in buyMark /\ \A p \in Order : HoldsMark(p) => Mark(p) # Mark(o)

LEMMA RunnersMarksStep ==
    ASSUME UpdateTypeOK, SoleMarkFaults, RepairInv, KnownInv, MarkInv, RunnersMarks,
           [UpdateNext]_everyVar
    PROVE  MarkInv' /\ RunnersMarks'
<1>0. TypeOK /\ RunnersOK /\ SoleRepairs /\ MarkFaults /\ HoldInv
  BY TaskTypes
     DEF UpdateTypeOK, SoleMarkFaults, SoleRepairs, RepairFaults, MarkFaults, StockFaults,
         FailedOnce, RepairInv
<1>1. \A p \in Order : Mark(p)' = Mark(p)
  BY DEF Mark
<1>2. ASSUME UNCHANGED <<pc, cpc, wpc, wmsg, buyMark, reserved, stage, at>>
      PROVE  MarkInv' /\ RunnersMarks'
  <2>1. \A p \in Order : (Unmarking(p)' <=> Unmarking(p)) /\ (HoldsMark(p)' <=> HoldsMark(p))
    BY <1>2 DEF HoldsMark, Unmarking, OrderOf
  <2>2. MarkInv'
    BY <1>1, <1>2, <2>1 DEF MarkInv
  <2>3. \A p \in Order : RunnerAt(p, {"unmark"})' => RunnerAt(p, {"unmark"})
    BY <1>2 DEF RunnerAt
  <2>4. RunnersMarks'
    BY <1>1, <1>2, <2>1, <2>3 DEF RunnersMarks
  <2> QED
    BY <2>2, <2>4
<1>3. CASE Next /\ UNCHANGED taskVars
  <2>1. MarkMove
    BY <1>0, <1>3, MarkMoves
  <2>2. MarkInv'
    BY <2>1, MarkMoveKeeps
  <2>3. \A o \in Order : RunnerAt(o, {"unmark"})' => RunnerAt(o, {"unmark"})
    BY <1>3 DEF RunnerAt, taskVars
  <2>4. ASSUME MarkKept PROVE RunnersMarks'
    <3>1. buyMark \subseteq buyMark' /\ \A p \in Order : HoldsMark(p)' => HoldsMark(p)
      BY <2>4 DEF MarkKept, HoldsMark
    <3> QED
      BY <1>1, <2>3, <3>1 DEF RunnersMarks
  <2>5. ASSUME NEW q \in Order, MarkSet(q) PROVE RunnersMarks'
    <3>1. \A p \in Order : HoldsMark(p)' => HoldsMark(p) \/ p = q
      BY <2>5 DEF MarkSet, Reserve, HoldsMark
    <3>2. buyMark \subseteq buyMark' /\ Mark(q) \notin buyMark
      BY <2>5 DEF MarkSet, Reserve
    <3> QED
      BY <1>1, <2>3, <3>1, <3>2 DEF RunnersMarks
  <2>6. ASSUME NEW q \in Order, MarkRemoved(q) PROVE RunnersMarks'
    <3>1. HoldsMark(q) /\ \A p \in Order : HoldsMark(p)' => HoldsMark(p)
      BY <2>6 DEF MarkRemoved, HoldsMark
    <3>2. buyMark' = buyMark \ {Mark(q)}
      BY <2>6 DEF MarkRemoved, Unmark
    <3> QED
      BY <1>1, <2>3, <3>1, <3>2 DEF RunnersMarks
  <2> QED
    BY <2>1, <2>2, <2>4, <2>5, <2>6 DEF MarkMove
<1>4. ASSUME NEW n \in Runner, RunnerStep(n) PROVE MarkInv' /\ RunnersMarks'
  <2>0. /\ UNCHANGED <<pc, cpc, wpc, wmsg>>
        /\ \A m \in Runner : m = n
    BY <1>0, <1>4, RunnerTouches DEF SoleRepairs
  <2>1. \A p \in Order : Unmarking(p)' <=> Unmarking(p)
    BY <2>0 DEF Unmarking, OrderOf
  <2>2. CASE RollbackStock(n) /\ stage[n] = "rollback" /\ GiveBack(at[n])
    <3>1. PICK o \in Order : o = at[n] /\ o \in reserved
      BY <1>0, <2>2 DEF KnownInv, RunnerKnows, RepairInv, RepairsOld, RunnersOK
    <3>2. UNCHANGED buyMark /\ reserved' = reserved \ {o}
      BY <1>0, <1>4, <2>2, <3>1, RunnerTouches DEF GiveBack, RemoveUserBuy
    <3>3. \A p \in Order : RunnerAt(p, {"unmark"})' => p = o
      BY <1>0, <1>4, <2>0, <3>1, RunnerTurnsTo DEF RunnerAt
    <3>4. \A p \in Order : HoldsMark(p)' => HoldsMark(p) /\ p # o
      BY <2>1, <3>1, <3>2 DEF HoldsMark, MarkInv
    <3>5. MarkInv'
      BY <1>1, <2>1, <3>2, <3>4 DEF MarkInv
    <3>6. RunnersMarks'
      BY <1>1, <3>1, <3>2, <3>3, <3>4 DEF RunnersMarks, MarkInv, HoldsMark
    <3> QED
      BY <3>5, <3>6
  <2>3. CASE RemoveUserBuy(n) /\ stage[n] = "unmark" /\ Unmark(at[n])
    <3>1. PICK o \in Order : o = at[n] /\ RunnerAt(o, {"unmark"})
      BY <1>0, <2>3 DEF RepairInv, RepairsOld, RunnersOK, RunnerAt
    <3>2. UNCHANGED reserved /\ buyMark' = buyMark \ {Mark(o)}
      BY <1>0, <1>4, <2>3, <3>1, RunnerTouches DEF Unmark
    <3>3. stage'[n] # "unmark"
      BY <1>0, <1>4, <2>3, RunnerTurnsTo
    <3>4. \A p \in Order : HoldsMark(p)' => HoldsMark(p) /\ Mark(p) # Mark(o)
      BY <2>1, <3>1, <3>2 DEF HoldsMark, RunnersMarks
    <3>5. MarkInv'
      BY <1>1, <2>1, <3>2, <3>4 DEF MarkInv
    <3>6. RunnersMarks'
      BY <2>0, <3>3 DEF RunnersMarks, RunnerAt
    <3> QED
      BY <3>5, <3>6
  <2>4. CASE UNCHANGED <<reserved, buyMark>>
    <3>1. \A p \in Order : HoldsMark(p)' <=> HoldsMark(p)
      BY <2>1, <2>4 DEF HoldsMark
    <3>2. \A p \in Order : RunnerAt(p, {"unmark"})' => RunnerAt(p, {"unmark"})
      <4> SUFFICES ASSUME NEW p \in Order, stage'[n] = "unmark", at'[n] = p
                   PROVE  RunnerAt(p, {"unmark"})
        BY <2>0 DEF RunnerAt
      <4>1. stage[n] = "rollback" /\ GiveBack(at[n])
        BY <1>0, <1>4, RunnerTurnsTo
      <4>2. at[n] \in reserved
        BY <4>1 DEF KnownInv, RunnerKnows
      <4> QED
        BY <2>4, <4>1, <4>2 DEF GiveBack
    <3> QED
      BY <1>1, <2>1, <2>4, <3>1, <3>2 DEF MarkInv, RunnersMarks
  <2> QED
    BY <1>0, <1>4, <2>2, <2>3, <2>4, RunnerTouches
<1>5. ASSUME NEW n \in Runner PROVE ~CrashRunner(n)
  BY <1>0 DEF CrashRunner, SoleRepairs
<1>6. ASSUME NEW o \in Order, Age(o) PROVE MarkInv' /\ RunnersMarks'
  BY <1>2, <1>6 DEF Age, vars, sharedVars, redisVars, consumerVars
<1>7. CASE ~(TaskNext /\ UNCHANGED updateVars)
  BY <1>2, <1>7
     DEF UpdateNext, UpdateStep, OpenForm, Submit, SyncStock, StartProcess, ReadDetail,
         BatchSet, EndWarmUp, everyVar, allVars, vars, sharedVars, redisVars, consumerVars,
         taskVars
<1> QED
  BY <1>3, <1>4, <1>5, <1>6, <1>7 DEF TaskNext

\* The mark that the task removes is the one of the reservation that it has given back:
\* while no mark expires, a user whom the task lets in again has no other reservation of
\* the sku, whatever the calls and the workers undo beside it.
THEOREM RepairsKeepMarks == SoleMarkFaults /\ UpdateSpec => []OneReservationPerUser
<1> SUFFICES ASSUME SoleMarkFaults PROVE UpdateSpec => []OneReservationPerUser
  OBVIOUS
<1> DEFINE Inv == RepairInv /\ KnownInv /\ MarkInv /\ RunnersMarks
<1>1. UpdateTypeOK /\ Inv /\ [UpdateNext]_everyVar => Inv'
  BY SoleStep, RepairStep, RunnersMarksStep DEF SoleRepairs, SoleMarkFaults
<1>2. UpdateTypeOK /\ Inv => OneReservationPerUser
  <2> SUFFICES ASSUME UpdateTypeOK, MarkInv PROVE OneReservationPerUser
    OBVIOUS
  <2>1. reserved \subseteq Order
    BY TaskTypes DEF UpdateTypeOK, TypeOK, StateTypeOK
  <2> QED
    BY <2>1 DEF MarkInv, HoldsMark, OneReservationPerUser
<1>3. UpdateInit => Inv
  <2> SUFFICES ASSUME UpdateInit PROVE Inv
    OBVIOUS
  <2>1. MarkInv
    BY MarkInit DEF UpdateInit, TaskInit
  <2>2. RunnersMarks
    BY DEF UpdateInit, TaskInit, RunnersMarks, RunnerAt
  <2> QED
    BY <2>1, <2>2, SoleInit
<1> QED
  BY <1>1, <1>2, <1>3, UpdateTypes, PTL DEF UpdateSpec

-------------------------------------------------------------------------------
(* What makes a record go. *)

\* The call of o deletes the record of its order before it undoes the reservation; any
\* other step that takes the record away finds a row that took the place of o, or leaves
\* no reservation of o.
RecordGoes(o) ==
    pending[RequestOf[o]] = o /\ pending'[RequestOf[o]] # o =>
        pc[o] = "unpend" \/ Confirmed(o)' \/ o \notin reserved'

\* The steps of the pipeline: no other order of the request was ever admitted.
LEMMA PipelineRecordGoes ==
    ASSUME TypeOK, SoleMarkFaults, RepairInv, KnownInv, OncePerRequest, Next, NEW o \in Order
    PROVE  RecordGoes(o)
<1> SUFFICES ASSUME pending[RequestOf[o]] = o, pending'[RequestOf[o]] # o,
                    pc[o] # "unpend", o \in reserved'
             PROVE  Confirmed(o)'
  BY DEF RecordGoes
<1>0. RequestOf[o] \in Request /\ pc[o] \in RecordedPc
  BY OrderFacts DEF KnownInv, RecordsOwn
<1>1. \A p \in Order : pc[p] \notin {"start", "rejected"} /\ RequestOf[p] = RequestOf[o] => p = o
  BY <1>0 DEF OncePerRequest, Admitted, RecordedPc
<1>2. PICK p \in Order :
        /\ RequestOf[p] = RequestOf[o]
        /\ \/ pc[p] = "pend" /\ pending'[RequestOf[o]] = p
           \/ pc[p] = "unpend"
           \/ \E w \in Worker : wpc[w] \in {"clear", "drop"} /\ OrderOf(w) = p
  BY <1>0, RecordWrites DEF SoleMarkFaults
<1>3. pc[p] \notin {"pend", "unpend"}
  BY <1>0, <1>1, <1>2 DEF RecordedPc
<1>4. PICK w \in Worker : wpc[w] \in {"clear", "drop"} /\ OrderOf(w) = p
  BY <1>2, <1>3
<1>5. p = o
  BY <1>1, <1>2, <1>4 DEF RepairInv, HoldInv, SentFirst, SentPc
<1>6. o \in reserved
  BY <1>0, StockMoves DEF Reserve, GiveBack, RecordedPc
<1>7. Ledger!Exists(o)
  BY <1>4, <1>5, <1>6 DEF KnownInv, WorkersKnow
<1>8. Ledger!Exists(o)'
  BY <1>7, RowsStay
<1> QED
  BY <1>8 DEF Confirmed, Duplicate, Clash

\* The steps of the runner, which deletes the record it has rolled back, or of an order
\* it has found.
LEMMA RunnerRecordGoes ==
    ASSUME TypeOK, RunnersOK, SoleMarkFaults, RepairInv, KnownInv, OncePerRequest,
           NEW n \in Runner, RunnerStep(n), NEW o \in Order
    PROVE  RecordGoes(o)
<1> SUFFICES ASSUME pending[RequestOf[o]] = o, pending'[RequestOf[o]] # o
             PROVE  Confirmed(o)' \/ o \notin reserved'
  BY DEF RecordGoes
<1>0. RequestOf[o] \in Request /\ pc[o] \in RecordedPc
  BY OrderFacts DEF KnownInv, RecordsOwn
<1>1. DropRecord(n) /\ stage[n] = "drop" /\ DropPending(at[n])
  BY <1>0, RunnerTouches DEF SoleMarkFaults
<1>2. RequestOf[at[n]] = RequestOf[o]
  BY <1>0, <1>1 DEF DropPending, TypeOK, StateTypeOK
<1>3. at[n] = o
  <2>1. at[n] \in Order
    BY <1>1 DEF RepairInv, RepairsOld, RunnersOK
  <2>2. pc[at[n]] \in {"accepted", "crashed"}
    BY <1>1 DEF KnownInv, RunnerKnows, RecordStages
  <2> QED
    BY <1>0, <1>2, <2>1, <2>2 DEF OncePerRequest, Admitted, RecordedPc
<1>4. UNCHANGED order /\ reserved' \subseteq reserved
  BY RunnerTouches DEF SoleMarkFaults, GiveBack
<1>5. o \notin reserved \/ Confirmed(o)
  BY <1>1, <1>3 DEF KnownInv, RunnerKnows
<1> QED
  BY <1>4, <1>5 DEF Confirmed, Duplicate, Clash, Ledger!Exists

\* Requests stay admitted once, whoever repairs.
LEMMA OnceStep ==
    ASSUME UpdateTypeOK, SoleMarkFaults, OncePerRequest, [UpdateNext]_everyVar
    PROVE  OncePerRequest'
<1>0. TypeOK /\ SoleRepairs
  BY TaskTypes DEF UpdateTypeOK, SoleMarkFaults
<1>1. ASSUME UNCHANGED <<pc, idempotent>>, reserved' \subseteq reserved PROVE OncePerRequest'
  BY <1>1, AdmissionKeeps DEF AdmitsNew, Admitted
<1>2. CASE Next
  BY <1>0, <1>2, AdmissionStep, AdmissionKeeps DEF SoleMarkFaults
<1>3. ASSUME NEW n \in Runner, RunnerStep(n) PROVE OncePerRequest'
  <2>1. UNCHANGED pc /\ reserved' \subseteq reserved
    BY <1>0, <1>3, RunnerTouches DEF GiveBack
  <2>2. UNCHANGED idempotent
    BY <1>3 DEF RunnerStep, ListProducts, CompareStock, SetStock, StartScan, ReadRecord,
                EndRound, LookUp, RollbackStock, RemoveUserBuy, RestoreUserCoupon, DropRecord,
                vars, sharedVars, redisVars
  <2> QED
    BY <1>1, <2>1, <2>2
<1>4. ASSUME NEW n \in Runner PROVE ~CrashRunner(n)
  BY <1>0 DEF CrashRunner, SoleRepairs
<1>5. ASSUME NEW o \in Order, Age(o) PROVE OncePerRequest'
  BY <1>1, <1>5 DEF Age, vars, sharedVars, redisVars
<1>6. CASE ~(TaskNext /\ UNCHANGED updateVars)
  BY <1>1, <1>6
     DEF UpdateNext, UpdateStep, OpenForm, Submit, SyncStock, StartProcess, ReadDetail,
         BatchSet, EndWarmUp, everyVar, allVars, vars, sharedVars, redisVars, taskVars
<1> QED
  BY <1>2, <1>3, <1>4, <1>5, <1>6 DEF TaskNext

\* A record outlives whatever would make its reservation unknown: while no key expires
\* it goes only when its call gives up, when a row took the place of its order, or when
\* nothing of the order is reserved any more.  So a reservation whose call has died, or
\* whose message was lost, is found by the task for as long as it stands.
THEOREM RecordsAreKept ==
    SoleMarkFaults /\ UpdateSpec => [][\A o \in Order : RecordGoes(o)]_everyVar
<1> SUFFICES ASSUME SoleMarkFaults
             PROVE  UpdateSpec => [][\A o \in Order : RecordGoes(o)]_everyVar
  OBVIOUS
<1> DEFINE Inv == RepairInv /\ KnownInv /\ OncePerRequest
<1>1. UpdateTypeOK /\ Inv /\ [UpdateNext]_everyVar => Inv'
  BY SoleStep, RepairStep, OnceStep DEF SoleRepairs, SoleMarkFaults
<1>2. UpdateTypeOK /\ Inv /\ [UpdateNext]_everyVar => [\A o \in Order : RecordGoes(o)]_everyVar
  <2> SUFFICES ASSUME UpdateTypeOK, Inv, UpdateNext PROVE \A o \in Order : RecordGoes(o)
    OBVIOUS
  <2>0. TypeOK /\ RunnersOK /\ SoleRepairs
    BY TaskTypes DEF UpdateTypeOK, SoleMarkFaults
  <2>1. CASE Next
    BY <2>0, <2>1, PipelineRecordGoes
  <2>2. ASSUME NEW n \in Runner, RunnerStep(n) PROVE \A o \in Order : RecordGoes(o)
    BY <2>0, <2>2, RunnerRecordGoes
  <2>3. CASE UNCHANGED pending
    BY <2>3 DEF RecordGoes
  <2>4. ASSUME NEW n \in Runner, CrashRunner(n) PROVE UNCHANGED pending
    BY <2>0, <2>4 DEF CrashRunner, SoleRepairs
  <2>5. ASSUME NEW o \in Order, Age(o) PROVE UNCHANGED pending
    BY <2>5 DEF Age, vars, sharedVars, redisVars
  <2>6. CASE ~(TaskNext /\ UNCHANGED updateVars)
    BY <2>3, <2>6
       DEF UpdateNext, UpdateStep, OpenForm, Submit, SyncStock, StartProcess, ReadDetail,
           BatchSet, EndWarmUp, allVars, vars, sharedVars, redisVars
  <2> QED
    BY <2>1, <2>2, <2>3, <2>4, <2>5, <2>6 DEF TaskNext
<1>3. UpdateInit => Inv
  <2> SUFFICES ASSUME UpdateInit PROVE Inv
    OBVIOUS
  <2>1. OncePerRequest
    BY DEF UpdateInit, TaskInit, Init, StateInit, PlaceInit, OncePerRequest, Admitted
  <2> QED
    BY <2>1, SoleInit
<1> QED
  BY <1>1, <1>2, <1>3, UpdateTypes, PTL DEF UpdateSpec
===============================================================================
