SPECIFICATION Spec
CONSTANTS
    Params <- MCParams
    QuitBindings <- MCQuit
    MaxSteps = 4
    MaxConns = 3
    MaxFaults = 2
    MailboxDepth = 2
    Recipes <- MCRecipes
    Registry <- MCRegistry
    Captures = {"off", "flagged"}
INVARIANTS
    RepeatsEarned
    AnswersMatch
    ReceiptHonest
    ExitOnlyWithYes
    FailFast
PROPERTY NeedsHonoured
