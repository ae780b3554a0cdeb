SPECIFICATION FairSpec
CONSTANTS
  Symbols = {s1}
  NoSymbol = NoSymbol
  Threads = {t1, t2}
  StaleAfter = 1
  Cooldown = 2
  Attempts = 2
  Lag = 1
  MaxTime = 3
INVARIANTS TypeOK
PROPERTIES CooldownHonored EveryRequestAnswered
