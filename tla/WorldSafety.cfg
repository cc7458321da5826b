SPECIFICATION RegisterSpec
CONSTANTS
    MaxEvent = 3
    MaxSession = 1
    MaxFlight = 1
    Conflicts <- NoOne
    Condition <- All
INVARIANTS
    TypeOK
    AskedUntilAnswered
    SyncedAgree
PROPERTIES
    Informed
    Registers
