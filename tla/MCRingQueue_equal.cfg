SPECIFICATION Spec
CONSTANTS
  None = None
  NoPayload = NoPayload
  Topic = {}
  Payload <- EqualPackets
  Size = 10
  MaxLen = 2
  FrameSize = 4
INVARIANTS TypeOK
PROPERTIES ImplementsOutbox
