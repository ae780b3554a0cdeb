SPECIFICATION Spec
CONSTANTS
  Orders = {o1, o2}
  NoOrder = NoOrder
  Workers = {w1, w2}
  Callers = {c1, c2}
  Requests = {"cancel", "modify"}
  Payloads = {p1}
  NoPayload = NoPayload
  MaxAttempts = 3
  BrokerStatuses = {}
  Adapters = {TRUE}
INVARIANTS SingleCustody AttemptsWithinLimit PlacementsExplained ClosedIsReleased StatusTruthful
PROPERTY ImplementsDelivery
SYMMETRY Symmetry
