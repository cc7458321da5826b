SPECIFICATION LeftAlone
CONSTANTS
    phone = phone
    tablet = tablet
    console = console
    Node = {phone, tablet}
    Configured <- OneAuthority
    Stray <- NoStray
    Broadcast = TRUE
    Replay = FALSE
    MaxId = 12
    MaxSequence = 1
    MaxFault = 1
PROPERTIES
    Settles
CHECK_DEADLOCK FALSE
