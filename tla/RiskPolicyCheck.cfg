SPECIFICATION PolicySpec
CHECK_DEADLOCK FALSE
CONSTANTS
  NoPrice = NoPrice
  NoProvider = NoProvider
  Unavailable = Unavailable
  DefaultPrice = 2
  BuyNotionalCap = 6
  MaxOrderQty = 3
  DailyOrderLimit = 1
  LiveEnabled = TRUE
  Qtys = {0, 1, 2, 3, 4}
  Prices <- SomePrices
  Holdings = {0, 1, 2}
INVARIANTS PassesExactlyWhenSafe
