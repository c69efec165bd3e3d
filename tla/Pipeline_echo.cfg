SPECIFICATION FairSpec
CONSTANTS
  Types <- StageTypes
  Handles <- MCHandles
  Limit = 2
  ReadMax = 3
  MaxWrites = 2
  Incoming <- MCIncoming
  MaxStages = 5
INVARIANT TypeOK
INVARIANT StackIsOrdered
INVARIANT InboundIsInOrder
INVARIANT OutboundIsInOrder
PROPERTY AnswersAreSent
CHECK_DEADLOCK FALSE
