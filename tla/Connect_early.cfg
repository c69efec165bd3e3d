SPECIFICATION Spec
CONSTANTS
  Clients = {c1}
  Listener = L
  MaxAccepts = 2
  MaxShutdowns = 1
  AnyTime = TRUE
INVARIANT NoAcceptAfterShutdown
CHECK_DEADLOCK FALSE
