SPECIFICATION FairSpec
CONSTANTS
  Clients = {c1, c2}
  Listener = L
  MaxAccepts = 2
  MaxShutdowns = 1
  AnyTime = FALSE
INVARIANT TypeOK
INVARIANT NoAcceptAfterShutdown
INVARIANT NoConnectAfterShutdown
INVARIANT ReturnsAfterShutdown
INVARIANT NoStaleWatch
INVARIANT LatchStopsAtZero
PROPERTY DialIsAnswered
PROPERTY ClientIsServed
PROPERTY ShutdownEndsListening
CHECK_DEADLOCK FALSE
