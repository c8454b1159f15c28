CONSTANTS
  None = None
  w1 = w1
  w2 = w2
  dps = dps
  app = app
  sub = sub
  srv = srv
  guard = guard
  Waiters = {w1, w2}
  Signalers = {dps, app}
  Listeners = {sub}
  Guards = {guard}
  WaitLists <- SharedLists
  Reach <- LoopAndApp
  Polled = {}
  MaxSignals = 2
SPECIFICATION Spec
PROPERTIES ImplementsSelectSafely
INVARIANTS Inv NoLostWakeup NoDanglingCondition NoStaleAttachment OkMeansReady
