SPECIFICATION Spec
CONSTANTS
    Turns = {1, 2}
    Workers = {1, 2}
    Nobody = 0
    NoTurn = 0
    JobAttempts = 2
    ReplySteps = 1
    ToolSteps = 1
    Scenarios <- MCSwitchScenarios
PROPERTIES
    KillSwitchStopsReplies
CHECK_DEADLOCK FALSE
