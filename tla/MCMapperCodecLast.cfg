SPECIFICATION Spec
CONSTANTS
  Configs <- LastConfigs
  Messages <- LastMessages
  Strings <- MCStrings
INVARIANT
  ErrorOnlyAtLastRule
CHECK_DEADLOCK FALSE
