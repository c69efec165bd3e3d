SPECIFICATION Spec
CONSTANTS
  Conns = {k1}
  ReadSize = 2
  MaxData = 2
  Empty = empty
  None = none
  Binds = {b}
  Connects = {cn}
  Reads = {r1, r2}
  Writes = {}
  Closes = {cl}
  ReadLimit = 2
INVARIANT NeverCrashes
CHECK_DEADLOCK FALSE
