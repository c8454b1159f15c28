CONSTANTS
  c1 = c1
  c2 = c2
  s1 = s1
  s2 = s2
  Clients = {c1, c2}
  Services = {s1}
  MaxLosses = 1
  MaxRequests = 2
  MaxBacklog = 2
  MaxFailures = 1
  MaxRepeats = 1
SPECIFICATION Spec
SYMMETRY Symmetry
INVARIANTS ResponseAnswersRequest TypeOK
CHECK_DEADLOCK FALSE
