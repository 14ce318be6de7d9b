SPECIFICATION Spec
CONSTANTS
  Configs <- NullConfigs
  Messages <- NullMessages
  Strings <- MCStrings
INVARIANT
  NullPayloadAsIs
CHECK_DEADLOCK FALSE
