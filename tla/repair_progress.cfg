CONSTANTS
    o1 = o1  r1 = r1  u1 = u1  a1 = a1  k1 = k1  c1 = c1  None = None
    Order = {o1}
    Request = {r1}
    User = {u1}
    Activity = {a1}
    Sku = {k1}
    Coupon = {c1}
    ActivityOf <- OneActivity
    RequestOf <- OneRequest
    UserOf <- OneUser
    SkuOf <- OneSku
    Quantity <- OneUnit
    CouponOf <- OneCoupon
    Stock <- LastUnit
    Worker = {w1}
    MaxRetry = 0
    MaxCount = 0
    StockBound = 3
    Faults = {"ProcessCrash"}
    TaskFaults = {}
    Runner = {n1}
    Change <- TakeOrKeep
    MaxEdits = 1
    MaxStarts = 1
SPECIFICATION UpdateFairSpec
CHECK_DEADLOCK FALSE
INVARIANT OrderBacked
PROPERTY RedisFollows
PROPERTY CrashedIsSettled
