SPECIFICATION Spec
CONSTANTS
  None = None
  MaxRetained = 2
  MAX_RETAINED_LEN = 16
  TopicName <- MCTopicName
  Contents <- MCContents
  QoS = {0}
  MemoryFails = FALSE
INVARIANTS RetainStored
