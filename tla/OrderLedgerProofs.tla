--------------------------- MODULE OrderLedgerProofs ---------------------------
(***************************************************************************)
(* What every implementation of OrderLedger inherits: its types, the       *)
(* conservation of stock and the uniqueness of orders.                     *)
(***************************************************************************)
EXTENDS OrderLedger, FiniteSetTheorems, TLAPS

-------------------------------------------------------------------------------
(* How the total quantity of a set of orders changes with the set. *)

\* The units of one order: as many as its quantity.
LEMMA UnitsOfOne ==
    ASSUME NEW o \in Order
    PROVE  /\ IsFiniteSet({o} \X (1 .. Quantity[o]))
           /\ Cardinality({o} \X (1 .. Quantity[o])) = Quantity[o]
<1>1. Quantity[o] \in Nat \ {0}
  BY OrderAssumption
<1>2. IsFiniteSet({o}) /\ Cardinality({o}) = 1
  BY FS_Singleton
<1>3. IsFiniteSet(1 .. Quantity[o]) /\ Cardinality(1 .. Quantity[o]) = Quantity[o]
  <2> DEFINE n == Quantity[o]
  <2>1. n \in Int /\ 1 \in Int /\ ~(1 > n) /\ n - 1 + 1 = n
    BY <1>1
  <2> HIDE DEF n
  <2>2. /\ IsFiniteSet(1 .. n)
        /\ Cardinality(1 .. n) = IF 1 > n THEN 0 ELSE n - 1 + 1
    BY Zenon, <2>1, FS_Interval
  <2> QED
    BY Zenon, <2>1, <2>2 DEF n
<1>4. /\ IsFiniteSet({o} \X (1 .. Quantity[o]))
      /\ Cardinality({o} \X (1 .. Quantity[o])) =
            Cardinality({o}) * Cardinality(1 .. Quantity[o])
  BY <1>2, <1>3, FS_Product
<1> QED
  BY <1>1, <1>2, <1>3, <1>4

\* Finitely many orders have finitely many units.
LEMMA UnitsFinite ==
    ASSUME NEW S \in SUBSET Order
    PROVE  IsFiniteSet(UnitsOf(S)) /\ TotalQuantity(S) \in Nat
<1> DEFINE units == [o \in S |-> {o} \X (1 .. Quantity[o])]
<1>1. IsFiniteSet(S)
  BY OrderAssumption, FS_Subset
<1>2. units \in Surjection(S, {units[o] : o \in S})
  BY DEF Surjection
<1>2a. IsFiniteSet({units[o] : o \in S})
  BY <1>1, <1>2, FS_Surjection
<1>3. UnitsOf(S) = UNION {units[o] : o \in S}
  BY DEF UnitsOf
<1>4. \A T \in {units[o] : o \in S} : IsFiniteSet(T)
  BY UnitsOfOne
<1>5. IsFiniteSet(UnitsOf(S))
  BY <1>2a, <1>3, <1>4, FS_UNION
<1> QED
  BY <1>5, FS_CardinalityType DEF TotalQuantity

\* An order more adds its quantity.
LEMMA QuantityAdded ==
    ASSUME NEW S \in SUBSET Order, NEW o \in Order, o \notin S
    PROVE  TotalQuantity(S \cup {o}) = TotalQuantity(S) + Quantity[o]
<1> DEFINE own == {o} \X (1 .. Quantity[o])
<1>1. UnitsOf(S \cup {o}) = UnitsOf(S) \cup own
  BY DEF UnitsOf
<1>2. UnitsOf(S) \cap own = {}
  BY DEF UnitsOf
<1>3. /\ IsFiniteSet(UnitsOf(S)) /\ Cardinality(UnitsOf(S)) \in Nat
      /\ IsFiniteSet(own) /\ Cardinality(own) = Quantity[o]
  BY UnitsFinite, UnitsOfOne DEF TotalQuantity
<1>4. Cardinality(UnitsOf(S) \cup own) =
        Cardinality(UnitsOf(S)) + Cardinality(own) - Cardinality(UnitsOf(S) \cap own)
  BY <1>3, FS_Union
<1>5. Cardinality(UnitsOf(S) \cap own) = 0
  BY <1>2, FS_EmptySet
<1>6. Quantity[o] \in Nat
  BY OrderAssumption
<1> HIDE DEF own
<1>7. Cardinality(UnitsOf(S) \cup own) = Cardinality(UnitsOf(S)) + Quantity[o]
  BY <1>3, <1>4, <1>5, <1>6
<1> QED
  BY <1>1, <1>7 DEF TotalQuantity

\* An order less takes its quantity away.
LEMMA QuantityRemoved ==
    ASSUME NEW S \in SUBSET Order, NEW o \in S
    PROVE  TotalQuantity(S \ {o}) = TotalQuantity(S) - Quantity[o]
<1>1. (S \ {o}) \cup {o} = S
  OBVIOUS
<1>2. TotalQuantity((S \ {o}) \cup {o}) = TotalQuantity(S \ {o}) + Quantity[o]
  BY QuantityAdded
<1>2a. TotalQuantity(S) = TotalQuantity(S \ {o}) + Quantity[o]
  BY <1>1, <1>2, Zenon
<1>3. Quantity[o] \in Nat /\ TotalQuantity(S \ {o}) \in Nat
  BY OrderAssumption, UnitsFinite
<1> QED
  BY <1>2a, <1>3

\* No orders, no quantity.
LEMMA QuantityOfNone == TotalQuantity({}) = 0
  BY FS_EmptySet DEF TotalQuantity, UnitsOf

\* Disjoint sets of orders add up.
LEMMA QuantityJoined ==
    ASSUME NEW S \in SUBSET Order, NEW T \in SUBSET Order, S \cap T = {}
    PROVE  TotalQuantity(S \cup T) = TotalQuantity(S) + TotalQuantity(T)
<1>1. UnitsOf(S \cup T) = UnitsOf(S) \cup UnitsOf(T)
  BY DEF UnitsOf
<1>2. UnitsOf(S) \cap UnitsOf(T) = {}
  BY DEF UnitsOf
<1>3. /\ IsFiniteSet(UnitsOf(S)) /\ Cardinality(UnitsOf(S)) \in Nat
      /\ IsFiniteSet(UnitsOf(T)) /\ Cardinality(UnitsOf(T)) \in Nat
  BY UnitsFinite DEF TotalQuantity
<1>4. Cardinality(UnitsOf(S) \cup UnitsOf(T)) =
        Cardinality(UnitsOf(S)) + Cardinality(UnitsOf(T))
          - Cardinality(UnitsOf(S) \cap UnitsOf(T))
  BY <1>3, FS_Union
<1>5. Cardinality(UnitsOf(S) \cap UnitsOf(T)) = 0
  BY <1>2, FS_EmptySet
<1>6. Cardinality(UnitsOf(S) \cup UnitsOf(T)) =
        Cardinality(UnitsOf(S)) + Cardinality(UnitsOf(T))
  BY <1>3, <1>4, <1>5
<1> QED
  BY <1>1, <1>6 DEF TotalQuantity

-------------------------------------------------------------------------------
(* What the orders that hold stock add up to. *)

\* The quantity of the live orders of a sku when one order becomes live.
LEMMA LiveAdded ==
    ASSUME TypeOK, TypeOK', NEW o \in Order, NEW k \in Sku,
           order[o] = "none", order' = [order EXCEPT ![o] = "Pending"]
    PROVE  TotalQuantity(LiveOf(k))' =
             TotalQuantity(LiveOf(k)) + (IF k = SkuOf[o] THEN Quantity[o] ELSE 0)
<1> LiveOf(k) \in SUBSET Order
  BY DEF LiveOf, Live
<1> TotalQuantity(LiveOf(k)) \in Nat
  BY UnitsFinite
<1>1. CASE k = SkuOf[o]
  <2>1. LiveOf(k)' = LiveOf(k) \cup {o} /\ o \notin LiveOf(k)
    BY <1>1 DEF LiveOf, Live, TypeOK, Status
  <2>2. TotalQuantity(LiveOf(k) \cup {o}) = TotalQuantity(LiveOf(k)) + Quantity[o]
    BY <2>1, QuantityAdded
  <2>3. TotalQuantity(LiveOf(k))' = TotalQuantity(LiveOf(k)')
    BY DEF TotalQuantity, UnitsOf
  <2> QED
    BY <1>1, <2>1, <2>2, <2>3
<1>2. CASE k # SkuOf[o]
  <2>1. LiveOf(k)' = LiveOf(k)
    BY <1>2 DEF LiveOf, Live, TypeOK, Status
  <2>2. TotalQuantity(LiveOf(k))' = TotalQuantity(LiveOf(k)')
    BY DEF TotalQuantity, UnitsOf
  <2> QED
    BY <1>2, <2>1, <2>2
<1> QED
  BY <1>1, <1>2

\* The same when an order is cancelled.
LEMMA LiveRemoved ==
    ASSUME TypeOK, TypeOK', NEW o \in Order, NEW k \in Sku,
           order[o] = "Pending", order' = [order EXCEPT ![o] = "Cancel"]
    PROVE  TotalQuantity(LiveOf(k))' =
             TotalQuantity(LiveOf(k)) - (IF k = SkuOf[o] THEN Quantity[o] ELSE 0)
<1> LiveOf(k) \in SUBSET Order
  BY DEF LiveOf, Live
<1> TotalQuantity(LiveOf(k)) \in Nat
  BY UnitsFinite
<1>1. CASE k = SkuOf[o]
  <2>1. LiveOf(k)' = LiveOf(k) \ {o} /\ o \in LiveOf(k)
    BY <1>1 DEF LiveOf, Live, TypeOK, Status
  <2>2. TotalQuantity(LiveOf(k) \ {o}) = TotalQuantity(LiveOf(k)) - Quantity[o]
    BY <2>1, QuantityRemoved
  <2>3. TotalQuantity(LiveOf(k))' = TotalQuantity(LiveOf(k)')
    BY DEF TotalQuantity, UnitsOf
  <2> QED
    BY <1>1, <2>1, <2>2, <2>3
<1>2. CASE k # SkuOf[o]
  <2>1. LiveOf(k)' = LiveOf(k)
    BY <1>2 DEF LiveOf, Live, TypeOK, Status
  <2>2. TotalQuantity(LiveOf(k))' = TotalQuantity(LiveOf(k)')
    BY DEF TotalQuantity, UnitsOf
  <2> QED
    BY <1>2, <2>1, <2>2
<1> QED
  BY <1>1, <1>2

\* DecreaseStock and RestoreStock keep available_stock a natural number.
LEMMA TypeStep == TypeOK /\ [Next]_ledgerVars => TypeOK'
<1> SUFFICES ASSUME TypeOK, [Next]_ledgerVars PROVE TypeOK'
  OBVIOUS
<1> USE OrderAssumption DEF TypeOK, Status
<1>1. ASSUME NEW o \in Order, Create(o) PROVE TypeOK'
  BY <1>1 DEF Create
<1>2. ASSUME NEW o \in Order, Pay(o) PROVE TypeOK'
  BY <1>2 DEF Pay
<1>3. ASSUME NEW o \in Order, Cancel(o) PROVE TypeOK'
  BY <1>3 DEF Cancel
<1>4. CASE UNCHANGED ledgerVars
  BY <1>4 DEF ledgerVars
<1> QED
  BY <1>1, <1>2, <1>3, <1>4 DEF Next

\* Stock moves between available_stock and the live orders and nowhere else.
LEMMA ConservedStep == TypeOK /\ Conserved /\ [Next]_ledgerVars => Conserved'
<1> SUFFICES ASSUME TypeOK, Conserved, [Next]_ledgerVars, NEW k \in Sku
             PROVE  (available[k] + TotalQuantity(LiveOf(k)) = Stock[k])'
  BY DEF Conserved
<1>0. TypeOK'
  BY TypeStep
<1>1. available[k] + TotalQuantity(LiveOf(k)) = Stock[k]
  BY DEF Conserved
<1>2. available[k] \in Nat /\ Stock[k] \in Nat /\ TotalQuantity(LiveOf(k)) \in Nat
  BY OrderAssumption, UnitsFinite DEF TypeOK, LiveOf, Live
<1> \A o \in Order : Quantity[o] \in Nat /\ SkuOf[o] \in Sku
  BY OrderAssumption
<1>3. ASSUME NEW o \in Order, Create(o)
      PROVE  (available[k] + TotalQuantity(LiveOf(k)) = Stock[k])'
  <2>1. order[o] = "none"
    BY <1>3 DEF Create, Exists, Clash
  <2>2. TotalQuantity(LiveOf(k))' =
          TotalQuantity(LiveOf(k)) + (IF k = SkuOf[o] THEN Quantity[o] ELSE 0)
    BY <1>0, <1>3, <2>1, LiveAdded DEF Create
  <2>3. available'[k] = available[k] - (IF k = SkuOf[o] THEN Quantity[o] ELSE 0)
    BY <1>2, <1>3 DEF Create, TypeOK
  <2> QED
    BY <1>1, <1>2, <2>2, <2>3
<1>4. ASSUME NEW o \in Order, Pay(o)
      PROVE  (available[k] + TotalQuantity(LiveOf(k)) = Stock[k])'
  <2>1. LiveOf(k)' = LiveOf(k)
    BY <1>4 DEF Pay, LiveOf, Live, TypeOK, Status
  <2>2. TotalQuantity(LiveOf(k))' = TotalQuantity(LiveOf(k)')
    BY DEF TotalQuantity, UnitsOf
  <2> QED
    BY <1>1, <1>4, <2>1, <2>2 DEF Pay
<1>5. ASSUME NEW o \in Order, Cancel(o)
      PROVE  (available[k] + TotalQuantity(LiveOf(k)) = Stock[k])'
  <2>1. TotalQuantity(LiveOf(k))' =
          TotalQuantity(LiveOf(k)) - (IF k = SkuOf[o] THEN Quantity[o] ELSE 0)
    BY <1>0, <1>5, LiveRemoved DEF Cancel
  <2>2. available'[k] = available[k] + (IF k = SkuOf[o] THEN Quantity[o] ELSE 0)
    BY <1>2, <1>5 DEF Cancel, TypeOK
  <2> QED
    BY <1>1, <1>2, <2>1, <2>2
<1>6. CASE UNCHANGED ledgerVars
  BY <1>1, <1>6 DEF ledgerVars, LiveOf, Live, TotalQuantity, UnitsOf
<1> QED
  BY <1>3, <1>4, <1>5, <1>6 DEF Next

\* A row is only added if it clashes with none, and rows are never removed.
LEMMA NoClashStep == TypeOK /\ NoClash /\ [Next]_ledgerVars => NoClash'
<1> SUFFICES ASSUME TypeOK, NoClash, [Next]_ledgerVars PROVE NoClash'
  OBVIOUS
<1> USE DEF NoClash, Exists, TypeOK, Status
<1>1. ASSUME NEW o \in Order, Create(o) PROVE NoClash'
  <2>1. \A p, q \in Order : Clash(p, q) => Clash(q, p)
    BY DEF Clash
  <2>2. \A p \in Order : order'[p] = IF p = o THEN "Pending" ELSE order[p]
    BY <1>1 DEF Create
  <2> QED
    BY <1>1, <2>1, <2>2 DEF Create
<1>2. ASSUME NEW o \in Order, Pay(o) PROVE NoClash'
  BY <1>2 DEF Pay
<1>3. ASSUME NEW o \in Order, Cancel(o) PROVE NoClash'
  BY <1>3 DEF Cancel
<1>4. CASE UNCHANGED ledgerVars
  BY <1>4 DEF ledgerVars
<1> QED
  BY <1>1, <1>2, <1>3, <1>4 DEF Next

\* The ledger starts in order: all stock available, no orders.
LEMMA LedgerInit == Init => TypeOK /\ Conserved /\ NoClash
<1> SUFFICES ASSUME Init PROVE TypeOK /\ Conserved /\ NoClash
  OBVIOUS
<1> USE OrderAssumption DEF Init
<1>1. TypeOK
  BY DEF TypeOK, Status
<1>2. Conserved
  <2> SUFFICES ASSUME NEW k \in Sku
               PROVE  available[k] + TotalQuantity(LiveOf(k)) = Stock[k]
    BY DEF Conserved
  <2>1. LiveOf(k) = {}
    BY DEF LiveOf, Live
  <2>2. TotalQuantity(LiveOf(k)) = 0
    BY <2>1, QuantityOfNone
  <2> QED
    BY <2>2
<1>3. NoClash
  BY DEF NoClash, Exists
<1> QED
  BY <1>1, <1>2, <1>3

\* The ledger never oversells and never has two orders that a unique key of
\* seckill_order forbids, for any number of orders, users, skus and units.
THEOREM LedgerCorrect == Spec => [](TypeOK /\ Conserved /\ NoClash)
<1>1. TypeOK /\ Conserved /\ NoClash /\ [Next]_ledgerVars
        => (TypeOK /\ Conserved /\ NoClash)'
  BY TypeStep, ConservedStep, NoClashStep
<1> QED
  BY <1>1, LedgerInit, PTL DEF Spec
===============================================================================
