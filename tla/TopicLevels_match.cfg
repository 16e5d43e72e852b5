SPECIFICATION Spec
CONSTANTS
  Letter = {"a", "b"}
  MaxFilter = 5
  MaxTopic = 3
INVARIANTS ValidByLevels TestTable MatchesLevels LeadingSlashLost EmptyLevelsIgnored
CHECK_DEADLOCK FALSE
