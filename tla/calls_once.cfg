CONSTANTS
  c1 = c1
  c2 = c2
  s1 = s1
  s2 = s2
  Clients = {c1}
  Services = {s1, s2}
  MaxLosses = 2
  MaxRequests = 2
  MaxBacklog = 4
  MaxFailures = 1
  MaxRepeats = 0
SPECIFICATION FairSpec
PROPERTIES ImplementsServiceCalls EveryRequestIsAnswered
INVARIANTS Inv
CHECK_DEADLOCK FALSE
