CONSTANTS
  a = a
  b = b
  NoUser = NoUser
  Agent = Agent
  Users <- MCUsers
  Members <- MCMembers
  Scenarios <- MCScenarios
SPECIFICATION FairSpec
INVARIANTS TypeOK CycleMirrors AgentYields
PROPERTIES OwnerDecides ReplyInTenure BecomesOpen LateOnlyByRace VoidedStaysUnsent WakeSettles SendSettles
CHECK_DEADLOCK FALSE
