CONSTANTS
  None = None
  w1 = w1
  w2 = w2
  dps = dps
  app = app
  sub = sub
  srv = srv
  guard = guard
  Waiters = {w1}
  Signalers = {dps, app}
  Listeners = {sub, srv}
  Guards = {guard}
  WaitLists <- ManyLists
  Reach <- LoopAndApp
  Polled = {srv}
  MaxSignals = 2
SPECIFICATION FairSpec
PROPERTIES ReadyEndsWait TimedCallReturns SignalCompletes ImplementsSelect
