SPECIFICATION Spec
VIEW Observed
CONSTANTS
  Conns = {k1, k2}
  ReadSize = 2
  MaxData = 2
  Empty = empty
  None = none
  Binds = {b}
  Connects = {cn}
  Reads = {r1, r2, r3}
  Writes = {w1, w2}
  Closes = {cl}
  ReadLimit = 2
SYMMETRY Symmetry
INVARIANT TypeOK
INVARIANT AnsweredOnce
INVARIANT AnsweredWhenClosed
INVARIANT PendingIsQueued
INVARIANT WatchesAgree
INVARIANT ConnectedReadIsArmed
INVARIANT WriteIsArmed
INVARIANT HotIsOpen
CHECK_DEADLOCK FALSE
