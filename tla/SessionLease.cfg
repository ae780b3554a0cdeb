SPECIFICATION Spec
CONSTANTS
  Owners = {gateway, other}
  NoOwner = NoOwner
  Threads = {t1, t2}
  Ttls = {1, 2}
  MaxTime = 4
INVARIANTS TypeOK StateAgrees
PROPERTIES LeaseHonored StatusEndsNothing
