SPECIFICATION Spec
CONSTANTS
  None = None
  NoPayload = NoPayload
  Topic = {}
  Payload <- MixedPackets
  Size = 11
  MaxLen = 2
  FrameSize = 4
INVARIANTS StartsWithFrame
PROPERTIES DeliversStored
