SPECIFICATION Spec
CONSTANTS
  Fds = {f1, f2}
  Callbacks = {c1, c2}
  Jobs = {j1}
  Posters = {p1}
  Ops <- AllOps
  QLimit = 2
  MaxEvents = 2
  Asserts = FALSE
  EventFd = efd
  Wakeup = wk
  LoopThread = lt
  None = none
SYMMETRY Symmetry
INVARIANT TypeOK
INVARIANT NoLostWakeup
INVARIANT MaskIsInterest
INVARIANT LateOnlyWhileQueued
PROPERTY InvokedOnlyWhileWatched
