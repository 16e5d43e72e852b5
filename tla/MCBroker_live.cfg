SPECIFICATION FairSpec
CONSTANTS
  None = None  Local = Local  Dummy = Dummy  Stale = Stale
  ZeroLenId = ZeroLenId  NulId = NulId  NoPayload = NoPayload
  t1 = t1  sys = sys  f1 = f1  bad = bad  d1 = d1  idA = idA
  Topic <- MCTopic  Dollar <- MCDollar  Wild = {}
  Filter <- MCFilter  BadFilter <- MCBadFilter  Match <- MCMatch
  Payload <- MCPayload  ClientId <- MCClientId
  MaxClients = 2  MaxSubs = 2  MaxRetained = 1
  QueueCap = 2  Slack = TRUE
  SendTicks = 1  ConnectTicks = 1  KeepTicks = 1
  Input <- FaultyInput
  Chaining = {"none", "partial"}
  Mishaps = {"no_state", "refused", "no_room", "fin", "stuck", "down"}
  Budget = 3
PROPERTIES ClosedReclaimed IdleEvicted
