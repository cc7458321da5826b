SPECIFICATION LiveSpec
CONSTANTS
    MaxEvent = 3
    MaxSession = 2
    MaxFlight = 1
    Conflicts <- GuestOnly
    Condition <- Calm
INVARIANTS
    OnlyPlayers
PROPERTIES
    Converges
