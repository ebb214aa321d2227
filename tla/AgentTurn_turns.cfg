SPECIFICATION FairSpec
CONSTANTS
    Turns = {1, 2}
    Workers = {1, 2}
    Nobody = 0
    NoTurn = 0
    JobAttempts = 2
    ReplySteps = 1
    ToolSteps = 1
    Scenarios <- MCScenarios
INVARIANTS
    TypeOK
    SomeTurnSurvives
PROPERTIES
    ImplementsTurnContract
    DisabledContactGetsNoReply
    ResultOfItsClaimer
    TurnEnds
CHECK_DEADLOCK FALSE
