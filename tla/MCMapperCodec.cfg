SPECIFICATION MCSpec
CONSTANTS
  Configs <- MCConfigs
  Messages <- MCMessages
  Strings <- MCStrings
INVARIANTS
  RulesAsConfigured
  FailedForReason
  TargetsFilled
PROPERTIES
  NothingLostOrDoubled
CHECK_DEADLOCK FALSE
