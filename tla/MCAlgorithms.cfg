SPECIFICATION AlgorithmsSpec
CONSTANTS
    Stems <- MCStems
    Letters = {"a", "b"}
    Digits = {"1"}
    MaxGoal = 4
    MaxClause = 4
    MaxWords = 2
    MaxText = 5
    MaxIntent = 3
    MaxStream = 6
    MaxPlan = 3
    MaxParts = 4
    Numerals = {"5", "9"}
INVARIANTS
    NamedIsChosen
    QuotedTextIsData
    JevOnMenu
    LinesHeardWhole
    RecipeKept
    StepMeansItsParts
CHECK_DEADLOCK FALSE
