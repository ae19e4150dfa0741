SPECIFICATION LoopsSpec
CONSTANTS
  c1 = c1
  c2 = c2
  c3 = c3
  Callbacks = {c1, c2, c3}
  DrmOutputs = {c1}
  DestroyQueued = FALSE
  o1 = o1
  o2 = o2
  WlOutputs = {o1, o2}
  Nobody = Nobody
  MaxIdle = 2
  BusyIdle = FALSE
  Attempts = 3
  DaemonRestarts = TRUE
INVARIANTS
  NoLostWakeup
  WlScheduledIsPending
  FallbackAgrees
  TimerInFallback
  OutputFollows
PROPERTIES
  IsFrameClock
  WlWaitingServed
  LossNoticed
  Reconnects
