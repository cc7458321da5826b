SPECIFICATION Spec
CONSTANTS
    phone = phone
    tablet = tablet
    console = console
    Node = {phone, tablet, console}
    Configured <- AnyAuthority
    Stray <- NoStray
    Broadcast = TRUE
    Replay = TRUE
    MaxId = 6
    MaxSequence = 2
    MaxFault = 4
INVARIANTS
    TypeOK
    RemoteCurrent
    GoodbyeFinal
    SessionPaired
PROPERTIES
    NeverBackward
    NoEviction
    AuthorityForward
CONSTRAINT
    Party
CHECK_DEADLOCK FALSE
SYMMETRY Interchangeable
