SPECIFICATION FairSpec
CONSTANTS
  Orders = {o1}
  NoOrder = NoOrder
  Workers = {w1, w2}
  Callers = {c1}
  Requests = {"cancel", "modify", "FILLED", "REJECTED"}
  Payloads = {p1}
  NoPayload = NoPayload
  MaxAttempts = 2
  BrokerStatuses = {"SENT", "PARTIAL_FILLED", "FILLED"}
  Adapters = {TRUE, FALSE}
INVARIANTS TypeOK NotForgotten DispatchingIsHeld
PROPERTY Settles
