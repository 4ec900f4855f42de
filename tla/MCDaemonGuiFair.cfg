SPECIFICATION FairSpec
CONSTANTS
    Text <- OneText
    Empty = ""
    Trimmed <- OneTrimmed
    MaxTodos = 1
    MaxRev = 2
    NavGo = TRUE
    MaxSent = 2
    MaxViews = 1
    MaxFaults = 1
    Restarts = TRUE
    AgentsEdit = TRUE
PROPERTY WindowCatchesUp
