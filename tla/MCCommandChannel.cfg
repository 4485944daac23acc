CONSTANTS
  a = a
  b = b
  c = c
  Clients = {a, b, c}
  Capacity = 2
  BufferSizes = {0, 2}
  MaxCalls = 3
  NoReply = NoReply
SPECIFICATION FairSpec
INVARIANTS
  ChannelTypeOK
  ServedInOrder
  RepliesMatch
  StopsDrained
PROPERTIES
  CallsEnd
  ShutsDown
  ImplementsService
