SPECIFICATION FairSpec
CONSTANTS
  None = None  NoPayload = NoPayload  Topic = {}  Payload = {}
  QueueCap = 1  Slack = TRUE
  SendTicks = 2  KeepAlive = 3  ReconnectTicks = 1  MaxFlight = 2
  Segment <- MCSegment
  Rival = TRUE
INVARIANTS TypeOK TaskCovered PendingInFlight ConnectedHasLink
PROPERTIES NoReconnect LostReconnects QueueServed
