CONSTANTS
    Parts = {"journal"}
    Self = 2
    Other = {1, 3}
    Legacy <- Old
    Flushes = {TRUE}
    MaxTerm = 1
    MaxSave = 2
    MaxBoot = 2
    slam = slam
    move = move
    lumsy = lumsy
    rool = rool
    Item = {slam, move}
    Pages = {{slam}, {move}}
    Flagged = {slam}
    Unchecked = {}
    Needs <- NeedsOf
    Places <- Go
    Starts <- NewSaves
    Frail <- HostOnly
    MaxSession = 2
    MaxDeath = 1
SPECIFICATION KeptSpec
INVARIANTS
    FollowerRejoins
CHECK_DEADLOCK FALSE
