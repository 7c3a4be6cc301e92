------------------------------ MODULE PartsProofs -----------------------------
(***************************************************************************)
(* The components that share no state, side by side: what is proved of     *)
(* each alone, and of the other instances of three of them, holds in the   *)
(* behaviours of MCParts.                                                  *)
(***************************************************************************)
EXTENDS MCParts, MoneyProofs, CoordinationProofs, CacheAsideProofs

-------------------------------------------------------------------------------
(* The theorems about the other instances, whose definitions are the same. *)

CrowdedP == INSTANCE CoordinationProofs WITH
    QueueOrder <- {o1, o2}, MaxPollerCrash <- 0, QueueFaults <- {}
LastP == INSTANCE MoneyProofs WITH
    SceneOf <- [c \in {c1, c2, c3} |-> first], ReviewOf <- c1 :> v1 @@ c2 :> v1 @@ c3 :> v2
DetailP == INSTANCE CacheAsideProofs WITH
    Kind <- "product", Reader <- {r1, r2, r3}, MaxWrites <- 0, CacheFaults <- {}
EditedP == INSTANCE CacheAsideProofs WITH Kind <- "product", Reader <- {r1}, MaxWrites <- 2
PagesP == INSTANCE CacheAsideProofs WITH Kind <- "list", MaxWrites <- 1

LEMMA CrowdedSame ==
    /\ Crowded!QueueNext = CrowdedP!QueueNext
    /\ Crowded!QueueInit = CrowdedP!QueueInit
    /\ Crowded!QueueTypeOK = CrowdedP!QueueTypeOK
<1>1. Crowded!QueueNext = CrowdedP!QueueNext
  BY DEF Crowded!QueueNext, Crowded!Add, Crowded!Close, Crowded!Elapse,
         Crowded!ProcessingExpires, Crowded!LockExpires, Crowded!runOnce,
         Crowded!PollerCrash, Crowded!handleTimeout, Crowded!PollerGoes,
         Crowded!Batches, Crowded!Requeue, Crowded!Claim, Crowded!ClaimFails,
         Crowded!Dispatch, Crowded!WorkerGoes, Crowded!Acquire,
         Crowded!AcquireFails, Crowded!CancelTimeoutOrder,
         Crowded!CancelFails, Crowded!Restock, Crowded!Unlock, Crowded!Remove,
         Crowded!Steps, Crowded!Cardinality, Crowded!queueVars,
         Crowded!redisVars, Crowded!pollerVars, Crowded!workerVars,
         CrowdedP!QueueNext, CrowdedP!Add, CrowdedP!Close, CrowdedP!Elapse,
         CrowdedP!ProcessingExpires, CrowdedP!LockExpires, CrowdedP!runOnce,
         CrowdedP!PollerCrash, CrowdedP!handleTimeout, CrowdedP!PollerGoes,
         CrowdedP!Batches, CrowdedP!Requeue, CrowdedP!Claim,
         CrowdedP!ClaimFails, CrowdedP!Dispatch, CrowdedP!WorkerGoes,
         CrowdedP!Acquire, CrowdedP!AcquireFails, CrowdedP!CancelTimeoutOrder,
         CrowdedP!CancelFails, CrowdedP!Restock, CrowdedP!Unlock,
         CrowdedP!Remove, CrowdedP!Steps, CrowdedP!Cardinality,
         CrowdedP!queueVars, CrowdedP!redisVars, CrowdedP!pollerVars,
         CrowdedP!workerVars
<1> QED
  BY <1>1
     DEF Crowded!QueueInit, Crowded!QueueTypeOK, Crowded!Status,
         Crowded!Steps, CrowdedP!QueueInit, CrowdedP!QueueTypeOK,
         CrowdedP!Status, CrowdedP!Steps

LEMMA LastSame ==
    /\ Last!WalletNext = LastP!WalletNext
    /\ WalletInit = LastP!WalletInit
    /\ Last!WalletTypeOK = LastP!WalletTypeOK
<1>1. Last!WalletNext = LastP!WalletNext
  BY DEF Last!WalletNext, Last!AllOver, Last!Over, Last!GrantUserCoupon,
         Last!FindExisting, Last!FindTemplate, Last!CreateTemplate,
         Last!Deadlock, Last!InsertCoupon, Last!DecreaseCount,
         Last!StatementFails, Last!Written, Last!Remain, Last!Unborn,
         Last!RollsBack, Last!TxEnds, Last!CallGoes, Last!Key, Last!Grant,
         Last!Keys, Last!Rows, Last!walletVars, Last!txVars, LastP!WalletNext,
         LastP!AllOver, LastP!Over, LastP!GrantUserCoupon, LastP!FindExisting,
         LastP!FindTemplate, LastP!CreateTemplate, LastP!Deadlock,
         LastP!InsertCoupon, LastP!DecreaseCount, LastP!StatementFails,
         LastP!Written, LastP!Remain, LastP!Unborn, LastP!RollsBack,
         LastP!TxEnds, LastP!CallGoes, LastP!Key, LastP!Grant, LastP!Keys,
         LastP!Rows, LastP!walletVars, LastP!txVars
<1>2. WalletInit = LastP!WalletInit
  BY DEF WalletInit, LastP!WalletInit, LastP!Cardinality, Cardinality
<1> QED
  BY <1>1, <1>2
     DEF Last!WalletTypeOK, Last!TemplateRow, Last!UserCoupon, Last!Key,
         LastP!WalletTypeOK, LastP!TemplateRow, LastP!UserCoupon, LastP!Key

LEMMA DetailSame ==
    /\ Detail!CacheNext = DetailP!CacheNext
    /\ Detail!CacheInit = DetailP!CacheInit
    /\ Detail!CacheTypeOK = DetailP!CacheTypeOK
    /\ Detail!OneRebuild = DetailP!OneRebuild
<1>1. Detail!CacheNext = DetailP!CacheNext
  BY DEF Detail!CacheNext, Detail!CacheTick, Detail!ReaderStep,
         Detail!ReaderCrash, Detail!Request, Detail!StartUp, Detail!AdminStep,
         Detail!UpdateRowFails, Detail!ClockTurns, Detail!Filter, Detail!Look,
         Detail!AcquireLock, Detail!Relook, Detail!Direct, Detail!DoubleCheck,
         Detail!ReadPart, Detail!Fill, Detail!ReleaseLock, Detail!UpdateRow,
         Detail!DeleteFirst, Detail!DeleteProductLists, Detail!SetStock,
         Detail!WarmProducts, Detail!WarmCurrent, Detail!WarmFill,
         Detail!WriteRow, Detail!AfterRow, Detail!Optional, Detail!Busy,
         Detail!Proceeds, Detail!AdminEnds, Detail!Usable, Detail!StartsAgain,
         Detail!Take, Detail!OneTickLess, Detail!Refreshing,
         Detail!Rebuilding, Detail!Extended, Detail!NextPart, Detail!Writes,
         Detail!Finds, Detail!AnswerOf, Detail!Answers, Detail!Replies,
         Detail!Exit, Detail!TxError, Detail!StoreError, Detail!ReaderGoes,
         Detail!At, Detail!Idle, Detail!ReadOrder, Detail!Part, Detail!First,
         Detail!LongLife, Detail!MaxChanged, Detail!Cardinality,
         Detail!cacheVars, DetailP!CacheNext, DetailP!CacheTick,
         DetailP!ReaderStep, DetailP!ReaderCrash, DetailP!Request,
         DetailP!StartUp, DetailP!AdminStep, DetailP!UpdateRowFails,
         DetailP!ClockTurns, DetailP!Filter, DetailP!Look,
         DetailP!AcquireLock, DetailP!Relook, DetailP!Direct,
         DetailP!DoubleCheck, DetailP!ReadPart, DetailP!Fill,
         DetailP!ReleaseLock, DetailP!UpdateRow, DetailP!DeleteFirst,
         DetailP!DeleteProductLists, DetailP!SetStock, DetailP!WarmProducts,
         DetailP!WarmCurrent, DetailP!WarmFill, DetailP!WriteRow,
         DetailP!AfterRow, DetailP!Optional, DetailP!Busy, DetailP!Proceeds,
         DetailP!AdminEnds, DetailP!Usable, DetailP!StartsAgain, DetailP!Take,
         DetailP!OneTickLess, DetailP!Refreshing, DetailP!Rebuilding,
         DetailP!Extended, DetailP!NextPart, DetailP!Writes, DetailP!Finds,
         DetailP!AnswerOf, DetailP!Answers, DetailP!Replies, DetailP!Exit,
         DetailP!TxError, DetailP!StoreError, DetailP!ReaderGoes, DetailP!At,
         DetailP!Idle, DetailP!ReadOrder, DetailP!Part, DetailP!First,
         DetailP!LongLife, DetailP!MaxChanged, DetailP!Cardinality,
         DetailP!cacheVars
<1> QED
  BY <1>1
     DEF Detail!CacheInit, Detail!CacheTypeOK, Detail!Value, Detail!Partial,
         Detail!ReaderAnswer, Detail!Part, Detail!First, Detail!Idle,
         Detail!LongLife, Detail!MaxChanged, Detail!OneRebuild,
         Detail!Rebuilding, DetailP!CacheInit, DetailP!CacheTypeOK,
         DetailP!Value, DetailP!Partial, DetailP!ReaderAnswer, DetailP!Part,
         DetailP!First, DetailP!Idle, DetailP!LongLife, DetailP!MaxChanged,
         DetailP!OneRebuild, DetailP!Rebuilding

LEMMA EditedSame ==
    /\ Edited!CacheNext = EditedP!CacheNext
    /\ Edited!CacheInit = EditedP!CacheInit
    /\ Edited!CacheTypeOK = EditedP!CacheTypeOK
    /\ Edited!UpdateIsSeen = EditedP!UpdateIsSeen
<1>1. Edited!CacheNext = EditedP!CacheNext
  BY DEF Edited!CacheNext, Edited!CacheTick, Edited!ReaderStep,
         Edited!ReaderCrash, Edited!Request, Edited!StartUp, Edited!AdminStep,
         Edited!UpdateRowFails, Edited!ClockTurns, Edited!Filter, Edited!Look,
         Edited!AcquireLock, Edited!Relook, Edited!Direct, Edited!DoubleCheck,
         Edited!ReadPart, Edited!Fill, Edited!ReleaseLock, Edited!UpdateRow,
         Edited!DeleteFirst, Edited!DeleteProductLists, Edited!SetStock,
         Edited!WarmProducts, Edited!WarmCurrent, Edited!WarmFill,
         Edited!WriteRow, Edited!AfterRow, Edited!Optional, Edited!Busy,
         Edited!Proceeds, Edited!AdminEnds, Edited!Usable, Edited!StartsAgain,
         Edited!Take, Edited!OneTickLess, Edited!Refreshing,
         Edited!Rebuilding, Edited!Extended, Edited!NextPart, Edited!Writes,
         Edited!Finds, Edited!AnswerOf, Edited!Answers, Edited!Replies,
         Edited!Exit, Edited!TxError, Edited!StoreError, Edited!ReaderGoes,
         Edited!At, Edited!Idle, Edited!ReadOrder, Edited!Part, Edited!First,
         Edited!LongLife, Edited!MaxChanged, Edited!Cardinality,
         Edited!cacheVars, EditedP!CacheNext, EditedP!CacheTick,
         EditedP!ReaderStep, EditedP!ReaderCrash, EditedP!Request,
         EditedP!StartUp, EditedP!AdminStep, EditedP!UpdateRowFails,
         EditedP!ClockTurns, EditedP!Filter, EditedP!Look,
         EditedP!AcquireLock, EditedP!Relook, EditedP!Direct,
         EditedP!DoubleCheck, EditedP!ReadPart, EditedP!Fill,
         EditedP!ReleaseLock, EditedP!UpdateRow, EditedP!DeleteFirst,
         EditedP!DeleteProductLists, EditedP!SetStock, EditedP!WarmProducts,
         EditedP!WarmCurrent, EditedP!WarmFill, EditedP!WriteRow,
         EditedP!AfterRow, EditedP!Optional, EditedP!Busy, EditedP!Proceeds,
         EditedP!AdminEnds, EditedP!Usable, EditedP!StartsAgain, EditedP!Take,
         EditedP!OneTickLess, EditedP!Refreshing, EditedP!Rebuilding,
         EditedP!Extended, EditedP!NextPart, EditedP!Writes, EditedP!Finds,
         EditedP!AnswerOf, EditedP!Answers, EditedP!Replies, EditedP!Exit,
         EditedP!TxError, EditedP!StoreError, EditedP!ReaderGoes, EditedP!At,
         EditedP!Idle, EditedP!ReadOrder, EditedP!Part, EditedP!First,
         EditedP!LongLife, EditedP!MaxChanged, EditedP!Cardinality,
         EditedP!cacheVars
<1> QED
  BY <1>1
     DEF Edited!CacheInit, Edited!CacheTypeOK, Edited!Value, Edited!Partial,
         Edited!ReaderAnswer, Edited!Part, Edited!First, Edited!Idle,
         Edited!LongLife, Edited!MaxChanged, Edited!UpdateIsSeen,
         EditedP!CacheInit, EditedP!CacheTypeOK, EditedP!Value,
         EditedP!Partial, EditedP!ReaderAnswer, EditedP!Part, EditedP!First,
         EditedP!Idle, EditedP!LongLife, EditedP!MaxChanged,
         EditedP!UpdateIsSeen

LEMMA PagesSame ==
    /\ Pages!CacheNext = PagesP!CacheNext
    /\ Pages!CacheInit = PagesP!CacheInit
    /\ Pages!CacheTypeOK = PagesP!CacheTypeOK
<1>1. Pages!CacheNext = PagesP!CacheNext
  BY DEF Pages!CacheNext, Pages!CacheTick, Pages!ReaderStep,
         Pages!ReaderCrash, Pages!Request, Pages!StartUp, Pages!AdminStep,
         Pages!UpdateRowFails, Pages!ClockTurns, Pages!Filter, Pages!Look,
         Pages!AcquireLock, Pages!Relook, Pages!Direct, Pages!DoubleCheck,
         Pages!ReadPart, Pages!Fill, Pages!ReleaseLock, Pages!UpdateRow,
         Pages!DeleteFirst, Pages!DeleteProductLists, Pages!SetStock,
         Pages!WarmProducts, Pages!WarmCurrent, Pages!WarmFill,
         Pages!WriteRow, Pages!AfterRow, Pages!Optional, Pages!Busy,
         Pages!Proceeds, Pages!AdminEnds, Pages!Usable, Pages!StartsAgain,
         Pages!Take, Pages!OneTickLess, Pages!Refreshing, Pages!Rebuilding,
         Pages!Extended, Pages!NextPart, Pages!Writes, Pages!Finds,
         Pages!AnswerOf, Pages!Answers, Pages!Replies, Pages!Exit,
         Pages!TxError, Pages!StoreError, Pages!ReaderGoes, Pages!At,
         Pages!Idle, Pages!ReadOrder, Pages!Part, Pages!First, Pages!LongLife,
         Pages!MaxChanged, Pages!Cardinality, Pages!cacheVars,
         PagesP!CacheNext, PagesP!CacheTick, PagesP!ReaderStep,
         PagesP!ReaderCrash, PagesP!Request, PagesP!StartUp, PagesP!AdminStep,
         PagesP!UpdateRowFails, PagesP!ClockTurns, PagesP!Filter, PagesP!Look,
         PagesP!AcquireLock, PagesP!Relook, PagesP!Direct, PagesP!DoubleCheck,
         PagesP!ReadPart, PagesP!Fill, PagesP!ReleaseLock, PagesP!UpdateRow,
         PagesP!DeleteFirst, PagesP!DeleteProductLists, PagesP!SetStock,
         PagesP!WarmProducts, PagesP!WarmCurrent, PagesP!WarmFill,
         PagesP!WriteRow, PagesP!AfterRow, PagesP!Optional, PagesP!Busy,
         PagesP!Proceeds, PagesP!AdminEnds, PagesP!Usable, PagesP!StartsAgain,
         PagesP!Take, PagesP!OneTickLess, PagesP!Refreshing,
         PagesP!Rebuilding, PagesP!Extended, PagesP!NextPart, PagesP!Writes,
         PagesP!Finds, PagesP!AnswerOf, PagesP!Answers, PagesP!Replies,
         PagesP!Exit, PagesP!TxError, PagesP!StoreError, PagesP!ReaderGoes,
         PagesP!At, PagesP!Idle, PagesP!ReadOrder, PagesP!Part, PagesP!First,
         PagesP!LongLife, PagesP!MaxChanged, PagesP!Cardinality,
         PagesP!cacheVars
<1> QED
  BY <1>1
     DEF Pages!CacheInit, Pages!CacheTypeOK, Pages!Value, Pages!Partial,
         Pages!ReaderAnswer, Pages!Part, Pages!First, Pages!Idle,
         Pages!LongLife, Pages!MaxChanged, PagesP!CacheInit,
         PagesP!CacheTypeOK, PagesP!Value, PagesP!Partial,
         PagesP!ReaderAnswer, PagesP!Part, PagesP!First, PagesP!Idle,
         PagesP!LongLife, PagesP!MaxChanged

LEMMA InstancesAssumed ==
    /\ CrowdedP!DelayQueueAssumption /\ CrowdedP!PartitionAssumption
    /\ CrowdedP!LeaderAssumption /\ CrowdedP!BucketAssumption /\ CrowdedP!RefillAssumption
    /\ LastP!WalletAssumption /\ LastP!CheckoutAssumption /\ LastP!PaymentAssumption
    /\ DetailP!CacheAssumption /\ EditedP!CacheAssumption /\ PagesP!CacheAssumption
<1> USE InstanceAssumption
<1>1. CrowdedP!DelayQueueAssumption
  BY DelayQueueAssumption DEF CrowdedP!DelayQueueAssumption
<1>2. /\ CrowdedP!PartitionAssumption /\ CrowdedP!LeaderAssumption
      /\ CrowdedP!BucketAssumption /\ CrowdedP!RefillAssumption
  BY PartitionAssumption, LeaderAssumption, BucketAssumption, RefillAssumption
     DEF CrowdedP!PartitionAssumption, CrowdedP!LeaderAssumption, CrowdedP!LeaderFault,
         LeaderFault, CrowdedP!BucketAssumption, CrowdedP!BucketFault, BucketFault,
         CrowdedP!RefillAssumption, CrowdedP!BucketTtl, CrowdedP!BucketSize, CrowdedP!Rate,
         CrowdedP!Unit, BucketTtl, BucketSize, Rate, Unit
<1>3. LastP!WalletAssumption /\ LastP!CheckoutAssumption /\ LastP!PaymentAssumption
  BY WalletAssumption, CheckoutAssumption, PaymentAssumption
     DEF LastP!WalletAssumption, LastP!WalletFault, WalletFault, LastP!CheckoutAssumption,
         LastP!PaymentAssumption, LastP!PayFault, PayFault, LastP!Notice, Notice
<1>4. DetailP!CacheAssumption /\ EditedP!CacheAssumption /\ PagesP!CacheAssumption
  BY CacheAssumption
     DEF CacheAssumption, CacheFault,
         DetailP!CacheAssumption, DetailP!CacheFault, EditedP!CacheAssumption,
         EditedP!CacheFault, PagesP!CacheAssumption, PagesP!CacheFault
<1> QED
  BY <1>1, <1>2, <1>3, <1>4

-------------------------------------------------------------------------------
(* The whole. *)

\* Each instance has the invariant that its component is proved to keep.
WalletOK ==
    /\ part # "last" => WalletInv
    /\ part = "last" => LastP!WalletInv

QueueOK ==
    /\ part # "crowded" => QueueTypeOK /\ Known
    /\ part = "crowded" => CrowdedP!QueueTypeOK /\ CrowdedP!Known

CacheOK ==
    /\ part \notin {"detail", "edited", "pages"} => CacheInv
    /\ part = "detail" => DetailP!CacheInv
    /\ part = "edited" => EditedP!CacheInv /\ EditedP!SeenInv
    /\ part = "pages" => PagesP!CacheInv

PartsInv ==
    /\ PayTypeOK /\ LeaderTypeOK /\ BucketInv /\ CheckoutInv /\ PartitionInv
    /\ WalletOK /\ QueueOK /\ CacheOK

partsVars == <<part, payVars, queueVars, leaderVars, walletVars, cacheVars, bucketVars,
               checkoutVars, partitionVars>>

\* A component that stands still makes a stuttering step.
LEMMA PartsMove ==
    ASSUME [PartsNext]_partsVars
    PROVE  /\ UNCHANGED part
           /\ [PayNext]_payVars /\ [LeaderNext]_leaderVars /\ [BucketNext]_bucketVars
           /\ [CheckoutNext]_checkoutVars /\ [PartitionNext]_partitionVars
  BY Zenon DEF PartsNext, partsVars

LEMMA WalletMoves ==
    ASSUME [PartsNext]_partsVars, WalletOK
    PROVE  WalletOK'
<1>1. /\ UNCHANGED part
      /\ part # "last" => [WalletNext]_walletVars
      /\ part = "last" => [Last!WalletNext]_walletVars
  BY Zenon DEF PartsNext, partsVars
<1>3. CASE part # "last"
  BY <1>1, <1>3, WalletStep DEF WalletOK
<1>4. CASE part = "last"
  <2>1. [LastP!WalletNext]_(LastP!walletVars)
    BY Zenon, <1>1, <1>4, LastSame
               DEF LastP!walletVars, LastP!txVars, walletVars, txVars
  <2>2. LastP!WalletInv
    BY <1>4 DEF WalletOK
  <2>3. LastP!WalletInv'
    BY <2>1, <2>2, InstancesAssumed, LastP!WalletStep
  <2> QED
    BY <1>1, <1>4, <2>3 DEF WalletOK
<1> QED
  BY <1>3, <1>4

LEMMA QueueMoves ==
    ASSUME [PartsNext]_partsVars, QueueOK
    PROVE  QueueOK'
<1>1. /\ UNCHANGED part
      /\ part # "crowded" => [QueueNext]_queueVars
      /\ part = "crowded" => [Crowded!QueueNext]_queueVars
  BY Zenon DEF PartsNext, partsVars
<1>3. CASE part # "crowded"
  BY <1>1, <1>3, QueueTypeStep, KnownStep DEF QueueOK
<1>4. CASE part = "crowded"
  <2>1. [CrowdedP!QueueNext]_(CrowdedP!queueVars)
    BY Zenon, <1>1, <1>4, CrowdedSame
               DEF CrowdedP!queueVars, CrowdedP!redisVars, CrowdedP!pollerVars,
                   CrowdedP!workerVars, queueVars, redisVars, pollerVars, workerVars
  <2>2. CrowdedP!QueueTypeOK /\ CrowdedP!Known
    BY <1>4 DEF QueueOK
  <2>3. (CrowdedP!QueueTypeOK /\ CrowdedP!Known)'
    BY <2>1, <2>2, InstancesAssumed, CrowdedP!QueueTypeStep, CrowdedP!KnownStep
  <2> QED
    BY <1>1, <1>4, <2>3 DEF QueueOK
<1> QED
  BY <1>3, <1>4

LEMMA CacheMoves ==
    ASSUME [PartsNext]_partsVars, CacheOK
    PROVE  CacheOK'
<1>1. /\ UNCHANGED part
      /\ part \notin {"detail", "edited", "pages"} => [CacheNext]_cacheVars
      /\ part = "detail" => [Detail!CacheNext]_cacheVars
      /\ part = "edited" => [Edited!CacheNext]_cacheVars
      /\ part = "pages" => [Pages!CacheNext]_cacheVars
  BY Zenon DEF PartsNext, partsVars
<1>3. CASE part \notin {"detail", "edited", "pages"}
  BY <1>1, <1>3, CacheStep DEF CacheOK
<1>4. CASE part = "detail"
  <2>1. [DetailP!CacheNext]_(DetailP!cacheVars)
    BY Zenon, <1>1, <1>4, DetailSame DEF DetailP!cacheVars, cacheVars
  <2>2. DetailP!CacheInv
    BY <1>4 DEF CacheOK
  <2>3. DetailP!CacheInv'
    BY <2>1, <2>2, InstancesAssumed, DetailP!CacheStep
  <2> QED
    BY <1>1, <1>4, <2>3 DEF CacheOK
<1>5. CASE part = "edited"
  <2>1. [EditedP!CacheNext]_(EditedP!cacheVars)
    BY Zenon, <1>1, <1>5, EditedSame DEF EditedP!cacheVars, cacheVars
  <2>2. EditedP!CacheInv /\ EditedP!SeenInv
    BY <1>5 DEF CacheOK
  <2>3. (EditedP!CacheInv /\ EditedP!SeenInv)'
    BY <2>1, <2>2, InstancesAssumed, EditedP!CacheStep, EditedP!SeenStep
  <2> QED
    BY <1>1, <1>5, <2>3 DEF CacheOK
<1>6. CASE part = "pages"
  <2>1. [PagesP!CacheNext]_(PagesP!cacheVars)
    BY Zenon, <1>1, <1>6, PagesSame DEF PagesP!cacheVars, cacheVars
  <2>2. PagesP!CacheInv
    BY <1>6 DEF CacheOK
  <2>3. PagesP!CacheInv'
    BY <2>1, <2>2, InstancesAssumed, PagesP!CacheStep
  <2> QED
    BY <1>1, <1>6, <2>3 DEF CacheOK
<1> QED
  BY <1>3, <1>4, <1>5, <1>6

LEMMA PartsInitOK == PartsInit => PartsInv
<1> SUFFICES ASSUME PartsInit PROVE PartsInv
  OBVIOUS
<1>1. PayTypeOK /\ LeaderTypeOK /\ BucketInv /\ CheckoutInv /\ PartitionInv
  BY PaymentTypeInit, LeaderTypeInit, BucketInitOK, CheckoutInitOK, PartitionInitOK
     DEF PartsInit
<1>2. WalletOK
  BY WalletInitOK, LastSame, InstancesAssumed, LastP!WalletInitOK DEF PartsInit, WalletOK
<1>3. QueueOK
  BY QueueInitOK, CrowdedSame, InstancesAssumed, CrowdedP!QueueInitOK
     DEF PartsInit, QueueOK
<1>4. CacheOK
  <2>1. EditedP!CacheInit => EditedP!SeenInv
    BY DEF EditedP!CacheInit, EditedP!SeenInv, EditedP!Updated, EditedP!Idle
  <2>2. /\ part \notin {"detail", "edited", "pages"} => CacheInit
        /\ part = "detail" => Detail!CacheInit
        /\ part = "edited" => Edited!CacheInit
        /\ part = "pages" => Pages!CacheInit
    BY DEF PartsInit
  <2> QED
    BY <2>1, <2>2, CacheInitOK, DetailSame, EditedSame, PagesSame, InstancesAssumed,
       DetailP!CacheInitOK, EditedP!CacheInitOK, PagesP!CacheInitOK DEF CacheOK
<1> QED
  BY <1>1, <1>2, <1>3, <1>4 DEF PartsInv

LEMMA PartsStep == PartsInv /\ [PartsNext]_partsVars => PartsInv'
  BY PartsMove, PaymentTypeStep, LeaderTypeStep, BucketStepOK, CheckoutStep, PartitionStep,
     WalletMoves, QueueMoves, CacheMoves DEF PartsInv

LEMMA PartsInvariant == PartsSpec => []PartsInv
  BY PartsInitOK, PartsStep, PTL DEF PartsSpec, partsVars

\* Whichever component moves, in whichever instance, all variables keep their types.
THEOREM PartsTypes == PartsSpec => []PartsTypeOK
<1>1. PartsInv => PartsTypeOK
  <2> SUFFICES ASSUME PartsInv PROVE PartsTypeOK
    OBVIOUS
  <2>1. BucketTypeOK /\ CheckoutTypeOK /\ PartitionTypeOK
    BY DEF PartsInv, BucketInv, CheckoutInv, PartitionInv
  <2>2. IF part = "last" THEN Last!WalletTypeOK ELSE WalletTypeOK
    BY LastSame DEF PartsInv, WalletOK, WalletInv, LastP!WalletInv
  <2>3. IF part = "crowded" THEN Crowded!QueueTypeOK ELSE QueueTypeOK
    BY CrowdedSame DEF PartsInv, QueueOK
  <2>4. CASE part \notin {"detail", "edited", "pages"}
    BY <2>1, <2>2, <2>3, <2>4, CacheInvTypes DEF PartsInv, CacheOK, PartsTypeOK
  <2>5. CASE part = "detail"
    BY <2>1, <2>2, <2>3, <2>5, DetailSame, InstancesAssumed, DetailP!CacheInvTypes
       DEF PartsInv, CacheOK, PartsTypeOK
  <2>6. CASE part = "edited"
    BY <2>1, <2>2, <2>3, <2>6, EditedSame, InstancesAssumed, EditedP!CacheInvTypes
       DEF PartsInv, CacheOK, PartsTypeOK
  <2>7. CASE part = "pages"
    BY <2>1, <2>2, <2>3, <2>7, PagesSame, InstancesAssumed, PagesP!CacheInvTypes
       DEF PartsInv, CacheOK, PartsTypeOK
  <2> QED
    BY <2>4, <2>5, <2>6, <2>7
<1> QED
  BY <1>1, PartsInvariant, PTL

\* getOrBuildProductDetail reads the rows once for all calls that wait, if the time to
\* live of the lock covers a rebuild.
THEOREM DetailsAreRebuiltOnce == Hold < LockTtl => (PartsSpec => []DetailRebuiltOnce)
<1> SUFFICES ASSUME Hold < LockTtl PROVE PartsSpec => []DetailRebuiltOnce
  OBVIOUS
<1> DEFINE Held == part = "detail" => DetailP!LockHeld
<1>1. PartsInit => Held
  <2>1. PartsInit /\ part = "detail" => DetailP!CacheInit
    BY DetailSame DEF PartsInit
  <2> QED
    BY <2>1 DEF DetailP!CacheInit, DetailP!LockHeld, DetailP!Rebuilding, DetailP!First
<1>2. PartsInv /\ Held /\ [PartsNext]_partsVars => Held'
  <2> SUFFICES ASSUME PartsInv, Held, [PartsNext]_partsVars, part = "detail"
               PROVE  DetailP!LockHeld'
    BY PartsMove
  <2>1. [DetailP!CacheNext]_(DetailP!cacheVars)
    BY Zenon, DetailSame DEF PartsNext, partsVars, DetailP!cacheVars, cacheVars
  <2> QED
    BY <2>1, InstancesAssumed, DetailP!LockStep DEF PartsInv, CacheOK
<1>3. Held => DetailRebuiltOnce
  BY DetailSame DEF DetailP!LockHeld, DetailP!OneRebuild, DetailRebuiltOnce
<1> QED
  BY <1>1, <1>2, <1>3, PartsInvariant, PTL DEF PartsSpec, partsVars

\* UpdateSeckillProduct, once it has answered with success, has left no detail from
\* before it in the cache, but for one that a rebuild had read before and wrote after.
THEOREM EditsAreSeen == PartsSpec => []EditIsSeen
<1>1. PartsInv => EditIsSeen
  BY EditedSame DEF PartsInv, CacheOK, EditedP!SeenInv, EditedP!Updated,
                    EditedP!SinceUpdate, EditedP!UpdateIsSeen, EditIsSeen
<1> QED
  BY <1>1, PartsInvariant, PTL
===============================================================================
