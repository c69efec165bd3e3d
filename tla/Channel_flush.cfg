SPECIFICATION Spec
CONSTANTS
  Chunks <- MCChunks
  Size <- MCSize
  HeaderSize = 2
  Limit = 2
  PeerLimit = 3
  Room = 1
  ReadMax = 2
  MaxWrites = 2
  MaxSent = 2
PROPERTY FlushCompletedMeansWritten
