SPECIFICATION FairSpec
CONSTANTS
  Fds = {f1}
  Callbacks = {c1}
  Jobs = {j1, j2}
  Posters = {p1, p2}
  Ops <- CoreOps
  QLimit = 2
  MaxEvents = 2
  Asserts = TRUE
  EventFd = efd
  Wakeup = wk
  LoopThread = lt
  None = none
PROPERTY ImplementsExecutor
