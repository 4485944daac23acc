CONSTANTS
  p = p
  Clients = {p}
  WebSocket = WebSocket
  Kinds = {"plain", "undecodable", "oversized"}
  MaxCalls = 2
  MaxRestarts = 1
  MaxConnections = 4
  MaxEvents = 3
SPECIFICATION FairSpec
INVARIANTS
  ConnectionTypeOK
  ExecutedInOrder
  AnswersLagBehind
  SnapshotsAdvance
PROPERTY
  CallsEnd
CHECK_DEADLOCK FALSE
