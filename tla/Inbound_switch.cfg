SPECIFICATION FairSpec
CONSTANTS
  MaxMessages = 2
  Old = 1
  PageLimit = 2
  Dispatchers = {1, 2}
  NoMessage = NoMessage
  MaxAttempts = 2
  MaxExtensions = 1
  Scenarios <- MCSwitchScenarios
PROPERTY
  SwitchLeavesNobody
CHECK_DEADLOCK FALSE
