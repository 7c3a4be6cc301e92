-------------------------------- MODULE MCParts --------------------------------
(***************************************************************************)
(* The components that share no state, in one specification: a behaviour   *)
(* is one of the component that part names, the others stand still in one  *)
(* of their initial states.  Each component has here all the behaviours    *)
(* that it has alone, and what is checked of it is checked in those.       *)
(***************************************************************************)
EXTENDS Payment, DelayQueue, LeaderElection, CouponWallet, CacheAside, TokenBucket,
        Checkout, PartitionConsumer, TLC

CONSTANTS
    Parts, \* the components that move in a run
    o1, o2, n1, n2, h1, h2,
    p1, p2, p3, w1, w2,
    c1, c2, c3, u1, u2, first, invite, v1, v2,
    r1, r2, r3,
    small, large, rate,
    m1, m2

VARIABLE part

-------------------------------------------------------------------------------
(* Values of the constants. *)

OneOrder == n1 :> o1 @@ n2 :> o1

OneEach == w1 :> p1 @@ w2 :> p2

\* Three grants in two scenes; a key is made of the review and the scene.
Users == c1 :> u1 @@ c2 :> u1 @@ c3 :> u2
Scenes == c1 :> first @@ c2 :> first @@ c3 :> invite
Reviews == c1 :> v1 @@ c2 :> v2 @@ c3 :> v2
NoKeys == [c \in {c1, c2, c3} |-> None]

\* Cash above and below the price of an order, and a rate whose discount is not a
\* whole number of cents.
Templates ==
    small :> [type |-> 1, value |-> 3, min |-> 30] @@
    large :> [type |-> 1, value |-> 20, min |-> 0] @@
    rate :> [type |-> 2, value |-> 95, min |-> 25]

-------------------------------------------------------------------------------
(* Other instances of components. *)

\* Two orders whose pollers take one at a time.
Crowded == INSTANCE DelayQueue WITH
    QueueOrder <- {o1, o2}, MaxPollerCrash <- 0, QueueFaults <- {}

\* Two users fight over the last coupon, and one of them asks twice.
Last == INSTANCE CouponWallet WITH
    SceneOf <- [c \in {c1, c2, c3} |-> first], ReviewOf <- c1 :> v1 @@ c2 :> v1 @@ c3 :> v2

\* The detail of a product, which three calls read; an update of it and one call; a
\* page of the list.
Detail == INSTANCE CacheAside WITH
    Kind <- "product", Reader <- {r1, r2, r3}, MaxWrites <- 0,
    CacheFaults <- {}
Edited == INSTANCE CacheAside WITH Kind <- "product", Reader <- {r1}, MaxWrites <- 2
Pages == INSTANCE CacheAside WITH Kind <- "list", MaxWrites <- 1

\* The assumptions of these instances, where they are not those of the components.
ASSUME InstanceAssumption ==
    /\ None \notin {o1, o2} \cup Worker
    /\ [c \in {c1, c2, c3} |-> first] \in [Call -> Scene]
    /\ c1 :> v1 @@ c2 :> v1 @@ c3 :> v2 \in [Call -> Review]
    /\ None \notin {r1, r2, r3}
    /\ None \notin [by : {r1, r2, r3}, left : 1 .. LockTtl]

-------------------------------------------------------------------------------

\* What stands still has one initial state.
OneInit ==
    /\ part \notin {"wallet", "last"} => coupon = [r \in TemplateId |-> None]
    /\ part # "checkout" =>
        /\ price = CHOOSE p \in Price : TRUE
        /\ request = [o \in CheckoutOrder |->
                        [coupon |-> None, quantity |-> CHOOSE q \in Quantity : TRUE]]
    /\ part \notin {"cache", "detail", "edited", "pages"} =>
        ~filter /\ db = [p \in Part |-> 0]

PartsInit ==
    /\ part \in Parts
    /\ PayInit /\ LeaderInit /\ WalletInit
    /\ BucketInit /\ CheckoutInit /\ PartitionInit
    /\ IF part = "crowded" THEN Crowded!QueueInit ELSE QueueInit
    /\ CASE part = "detail" -> Detail!CacheInit
         [] part = "edited" -> Edited!CacheInit
         [] part = "pages" -> Pages!CacheInit
         [] OTHER -> CacheInit
    /\ OneInit

\* The others stand still.
PartsNext ==
    \/ /\ part = "payment" /\ PayNext
       /\ UNCHANGED <<part, queueVars, leaderVars, walletVars, cacheVars,
                      bucketVars, checkoutVars, partitionVars>>
    \/ /\ \/ part = "queue" /\ QueueNext
          \/ part = "crowded" /\ Crowded!QueueNext
       /\ UNCHANGED <<part, payVars, leaderVars, walletVars, cacheVars,
                      bucketVars, checkoutVars, partitionVars>>
    \/ /\ part = "leader" /\ LeaderNext
       /\ UNCHANGED <<part, payVars, queueVars, walletVars, cacheVars,
                      bucketVars, checkoutVars, partitionVars>>
    \/ /\ \/ part = "wallet" /\ WalletNext
          \/ part = "last" /\ Last!WalletNext
       /\ UNCHANGED <<part, payVars, queueVars, leaderVars, cacheVars,
                      bucketVars, checkoutVars, partitionVars>>
    \/ /\ \/ part = "cache" /\ CacheNext
          \/ part = "detail" /\ Detail!CacheNext
          \/ part = "edited" /\ Edited!CacheNext
          \/ part = "pages" /\ Pages!CacheNext
       /\ UNCHANGED <<part, payVars, queueVars, leaderVars, walletVars,
                      bucketVars, checkoutVars, partitionVars>>
    \/ /\ part = "bucket" /\ BucketNext
       /\ UNCHANGED <<part, payVars, queueVars, leaderVars, walletVars,
                      cacheVars, checkoutVars, partitionVars>>
    \/ /\ part = "checkout" /\ CheckoutNext
       /\ UNCHANGED <<part, payVars, queueVars, leaderVars, walletVars,
                      cacheVars, bucketVars, partitionVars>>
    \/ /\ part = "partition" /\ PartitionNext
       /\ UNCHANGED <<part, payVars, queueVars, leaderVars, walletVars,
                      cacheVars, bucketVars, checkoutVars>>

PartsSpec == PartsInit /\ [][PartsNext]_<<part, payVars, queueVars, leaderVars, walletVars,
                                        cacheVars, bucketVars, checkoutVars, partitionVars>>

\* The fairness of the component that moves.
PartsFairSpec ==
    /\ PartsSpec
    /\ \/ part = "payment" /\ PayFairness
       \/ part = "queue" /\ QueueFairness
       \/ part = "cache" /\ CacheFairness
       \/ part = "partition" /\ PartitionFairness
       \/ part \notin {"payment", "queue", "cache", "partition"}

-------------------------------------------------------------------------------
(* Properties. *)

\* Every component's variables have their types.
PartsTypeOK ==
    /\ PayTypeOK /\ LeaderTypeOK
    /\ BucketTypeOK /\ CheckoutTypeOK /\ PartitionTypeOK
    /\ IF part = "last" THEN Last!WalletTypeOK ELSE WalletTypeOK
    /\ IF part = "crowded" THEN Crowded!QueueTypeOK ELSE QueueTypeOK
    /\ CASE part = "detail" -> Detail!CacheTypeOK
         [] part = "edited" -> Edited!CacheTypeOK
         [] part = "pages" -> Pages!CacheTypeOK
         [] OTHER -> CacheTypeOK

\* OneRebuild where the time to live of the lock covers a rebuild:
\* getOrBuildProductDetail reads the rows once for all calls that wait.
DetailRebuiltOnce == part = "detail" => Detail!OneRebuild

\* UpdateIsSeen of UpdateSeckillProduct, beside a call that reads the product.
EditIsSeen == part = "edited" => Edited!UpdateIsSeen

\* EveryReaderAnswers of GetSeckillProduct, whose lock may be left by a process that
\* stopped.
ReadersAnswer == part = "cache" => EveryReaderAnswers
===============================================================================
