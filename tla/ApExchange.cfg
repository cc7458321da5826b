SPECIFICATION ResumedSpec
CONSTANTS
    a = a
    b = b
    Check = {banana}
    Item = {a, b}
    Move = {a}
    Needed = {a}
    Lists <- Rooms
    QueueLimit = 2
    MaxFlight = 1
    MaxFault = 1
INVARIANTS
    ApTypeOK
    Durable
    SameHistory
    InOrder
PROPERTIES
    Exchanged
    StopEnds
CHECK_DEADLOCK FALSE
