SPECIFICATION FairSpec
CONSTANTS
  Chunks <- MCChunks
  Size <- MCSize
  HeaderSize = 2
  Limit = 2
  PeerLimit = 3
  Room = 2
  ReadMax = 2
  MaxWrites = 2
  MaxSent = 2
INVARIANT TypeOK
INVARIANT BytesAreConserved
PROPERTY ImplementsStream
PROPERTY SentIsDelivered
