CONSTANTS
    o1 = o1  o2 = o2  n1 = n1  n2 = n2  h1 = h1  h2 = h2
    p1 = p1  p2 = p2  p3 = p3  w1 = w1  w2 = w2
    c1 = c1  c2 = c2  c3 = c3  u1 = u1  u2 = u2
    first = first  invite = invite  v1 = v1  v2 = v2
    r1 = r1  r2 = r2  r3 = r3
    small = small  large = large  rate = rate
    m1 = m1  m2 = m2
    None = None  Orphan = Orphan  NoReview = NoReview

    Parts = {"payment", "queue", "leader", "cache", "partition"}

    PayableOrder = {o1}
    Number = {n1, n2}
    OrderFor <- OneOrder
    Handler = {h1, h2}
    Zone = "utc"
    PayFaults = {"PayError", "CommitAckLost"}

    QueueOrder = {o1}
    Poller = {p1, p2}
    Worker = {w1, w2}
    PollerOf <- OneEach
    Batch = 1
    MaxPollerCrash = 1
    QueueFaults = {"TxError", "LockExpiry"}

    Process = {p1, p2, p3}
    LeaseTtl = 6
    Third = 2
    MaxRuns = 2
    MaxStops = 2
    LeaderFaults = {}

    Call = {c1, c2, c3}
    User = {u1, u2}
    Scene = {first, invite}
    Review = {v1, v2, NoReview}
    UserOf <- Users
    SceneOf <- Scenes
    ReviewOf <- Reviews
    GivenKey <- NoKeys
    TemplateId = {1, 2, 3}
    Total = 1
    WalletFaults = {"TxError", "CommitAckLost"}

    Reader = {r1, r2}
    Kind = "product"
    Version = {0, 1}
    Life = {2}
    LockTtl = 2
    Hold = 1
    MaxWrites = 0
    Listed = TRUE
    CacheFaults = {"Crash"}

    Limit = 3
    Burst = 6
    Window = 4
    Second = 4
    MinTtl = 8
    MaxTtl = 100
    MaxBack = 2
    MaxElapsed = 8
    BucketFaults = {"StoreError", "ClockBack"}

    CheckoutOrder = {o1, o2}
    Coupon = {small, large, rate}
    Template <- Templates
    Price = {13, 31}
    Quantity = {1, 2}

    Member = {m1, m2}
    Messages = 2
    MaxGeneration = 3
    PartitionFaults = {"HandleFails", "CommitFails", "Crash", "Rebalance"}

SPECIFICATION PartsFairSpec
CHECK_DEADLOCK FALSE

INVARIANT StoresAgree
PROPERTY ChargedIsSettled
PROPERTY ImplementsFairQueue
INVARIANT OneRunner
INVARIANT FailoverInTime
PROPERTY ReadersAnswer
PROPERTY ImplementsDelivery
PROPERTY EveryMessageTried
