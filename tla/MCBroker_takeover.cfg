SPECIFICATION Spec
CONSTANTS
  None = None  Local = Local  Dummy = Dummy  Stale = Stale
  ZeroLenId = ZeroLenId  NulId = NulId  NoPayload = NoPayload
  t1 = t1  sys = sys  f1 = f1  bad = bad  d1 = d1  idA = idA
  Topic <- MCTopic  Dollar <- MCDollar  Wild = {}
  Filter <- MCFilter  BadFilter <- MCBadFilter  Match <- MCMatch
  Payload <- MCPayload  ClientId <- MCClientId
  MaxClients = 3  MaxSubs = 1  MaxRetained = 1
  QueueCap = 2  Slack = TRUE
  SendTicks = 1  ConnectTicks = 0  KeepTicks = 0
  Input <- TakeoverInput
  Chaining = {"none"}
  Mishaps = {}
  Budget = 7
INVARIANTS SingleSession
PROPERTIES WillDelivered
