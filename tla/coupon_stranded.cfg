CONSTANTS
    o1 = o1  o2 = o2  r1 = r1  r2 = r2  u1 = u1  u2 = u2
    a1 = a1  k1 = k1  k2 = k2  c1 = c1  None = None
    Order <- MCOrder
    Request <- MCRequest
    User <- MCUser
    Activity <- MCActivity
    Sku <- MCSku
    Coupon <- MCCoupon
    ActivityOf <- OneActivity
    RequestOf <- TwoRequests
    UserOf <- SameUser
    SkuOf <- SameSku
    Quantity <- OneEach
    Stock <- Plenty
    CouponOf <- SameCoupon
    Worker = {w1}
    MaxRetry = 1
    MaxCount = 1
    StockBound = 3
    Faults = {"DeductError"}
SPECIFICATION Spec
CHECK_DEADLOCK FALSE
INVARIANT NoCouponStranded
