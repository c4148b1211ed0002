CONSTANTS
  Epoch = 1000  Seconds = 4  Page = 3
  Kinds <- MCKinds
  NoMessage = NoMessage
  MaxCount = 3  MaxPeriod = 2
SPECIFICATION LogSpec
INVARIANTS Conversation NeitherBotsNorPeriod AtOrBefore
