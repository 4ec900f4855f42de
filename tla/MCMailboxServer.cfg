SPECIFICATION Spec
CONSTANTS
    Ticket = {t1, t2, t3}
    Conn = {c1, c2, c3}
    MaxDepth = 1
    MaxConn = 2
    JobFrames = 1
    NoTicket = NoTicket
SYMMETRY ConnTicketSymmetry
INVARIANTS
    InflightExact
    OneRequestAtATime
    QuitAfterReply
    OrderKept
CHECK_DEADLOCK FALSE
