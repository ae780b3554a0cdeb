SPECIFICATION Spec
CONSTANTS
  Threads = {t1, t2}
  Ttl = 5
  Margin = 3
  MaxDelay = 1
  MaxTime = 12
INVARIANTS TypeOK TokenValid
