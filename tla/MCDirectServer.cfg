SPECIFICATION FairSpec
CONSTANTS
    Conn = {c1, c2}
    MaxLines = 3
    Contents <- Sendable
    MaxConn = 2
    TokenSet = TRUE
    NoSession = NoSession
    Nobody = Nobody
INVARIANTS
    AnsweredInOrder
PROPERTIES
    DirectServiceSpec
    EveryRequestSettled
CHECK_DEADLOCK FALSE
