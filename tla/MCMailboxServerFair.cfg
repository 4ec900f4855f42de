SPECIFICATION FairSpec
CONSTANTS
    Ticket = {t1, t2}
    Conn = {c1, c2}
    MaxDepth = 1
    MaxConn = 2
    JobFrames = 1
    NoTicket = NoTicket
PROPERTIES
    ServiceSpec
    EveryLineAnswered
    AcceptedTakesEffect
CHECK_DEADLOCK FALSE
