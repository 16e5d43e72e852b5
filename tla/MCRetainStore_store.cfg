SPECIFICATION Spec
CONSTANTS
  None = None
  MaxRetained = 2
  MAX_RETAINED_LEN = 16
  TopicName <- MCTopicName
  Contents <- MCContents
  QoS = {1}
  MemoryFails = TRUE
INVARIANTS TypeOK FlashCurrent
PROPERTIES SavedSurvives RestoredPrefix
