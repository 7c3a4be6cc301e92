CONSTANTS
    o1 = o1  r1 = r1  u1 = u1  a1 = a1  k1 = k1  c1 = c1  None = None
    Order = {o1}
    Request = {r1}
    User = {u1}
    Activity = {a1}
    Sku = {k1}
    Coupon = {c1}
    ActivityOf <- OneActivity
    RequestOf <- OneRequest
    UserOf <- OneUser
    SkuOf <- OneSku
    Quantity <- BothUnits
    CouponOf <- OneCoupon
    Stock <- LastTwo
    Worker = {w1}
    MaxRetry = 0
    MaxCount = 0
    StockBound = 3
    Faults = {"StoreError"}
    TaskFaults = {"RunnerCrash", "Lag"}
    Runner = {n1}
    Change <- AnyStep
    MaxEdits = 1
    MaxStarts = 0
SPECIFICATION UpdateSpec
CONSTRAINT BoundedStock
CHECK_DEADLOCK FALSE
INVARIANT UpdateTypeOK
PROPERTY OnlyStaleFormsOversell
