CONSTANTS
    Parts = {"items"}
    Self = 2
    Other = {1, 3}
    Legacy <- Old
    Flushes = {TRUE}
    MaxTerm = 2
    MaxSave = 2
    MaxBoot = 3
    slam = slam
    move = move
    lumsy = lumsy
    rool = rool
    Item = {lumsy, rool}
    Pages = {{lumsy}, {rool}}
    Flagged = {lumsy, rool}
    Unchecked = {rool}
    Needs <- NeedsOf
    Places <- Go
    Starts <- NewSaves
    Frail <- HostOnly
    MaxSession = 1
    MaxDeath = 0
SPECIFICATION KeptSpec
INVARIANTS
    Prerequisites
