CONSTANTS
  n = n
  p = p
  s = s
  v = v
  c = c
  Node = n
  Publishers = {p}
  Subscriptions = {s}
  Services = {v}
  Clients = {c}
  MaxEndpoints = 2
  MaxCalls = 1
SPECIFICATION FairSpec
PROPERTIES ReleaseEnds
INVARIANTS Inv TypeOK CallbacksFindObjects FreedOnce NothingElseLeaks
CHECK_DEADLOCK FALSE
