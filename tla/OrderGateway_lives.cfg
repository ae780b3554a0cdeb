SPECIFICATION GatewaySpec
CONSTANTS
  Orders = {o1, o2}
  NoOrder = NoOrder
  Workers = {w1}
  Callers = {c1}
  Requests = {"modify"}
  Payloads = {safe, large}
  NoPayload = NoPayload
  MaxAttempts = 2
  BrokerStatuses = {}
  Adapters = {TRUE}
  Clients = {t1, t2}
  Keys = {k1}
  NoKey = NoKey
  Safe = {safe}
  MaxLives = 2
INVARIANTS GatewayTypeOK RepeatFindsOrder BrokerHasLastBody BypassOnlyByModify
SYMMETRY Symmetry
CONSTRAINT OneOrderChanged
