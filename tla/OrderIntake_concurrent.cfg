SPECIFICATION Spec
CONSTANTS
  NoPrice = NoPrice
  NoProvider = NoProvider
  Unavailable = Unavailable
  DefaultPrice = 1
  BuyNotionalCap = 5
  MaxOrderQty = 3
  DailyOrderLimit = 2
  LiveEnabled = TRUE
  Threads = {t1, t2}
  Keys = {k1, k2}
  Bodies <- MixedBodies
  Positions <- SomePositions
  Orders = {o1, o2, o3, o4}
  NoOrder = NoOrder
  NoKey = NoKey
  NoBody = NoBody
INVARIANTS TypeOK OrdersPerKeyBounded EveryOrderCounted LimitOvershootBounded AloneAnswersOwnBody
SYMMETRY Symmetry
