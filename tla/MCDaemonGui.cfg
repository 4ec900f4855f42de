SPECIFICATION Spec
CONSTANTS
    Text <- MCText
    Empty = ""
    Trimmed <- MCTrimmed
    MaxTodos = 2
    MaxRev = 4
    NavGo = FALSE
    MaxSent = 5
    MaxViews = 1
    MaxFaults = 0
    Restarts = FALSE
    AgentsEdit = FALSE
INVARIANTS
    TitlesInOrder
    ClicksMeanWhatWasShown
