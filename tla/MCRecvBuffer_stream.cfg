SPECIFICATION FairSpec
CONSTANTS
  Base = 2
  MQTT_BUF_SIZE = 10
  Modulus = 12
  IntDigits = 4
  IntMax = 19
  Headers <- MCHeaders
  MaxSent = 3
INVARIANTS TypeOK Faithful
PROPERTIES SlipsKnown AllTaken
CHECK_DEADLOCK FALSE
