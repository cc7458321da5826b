CONSTANTS
    Parts = {"items"}
    Self = 2
    Other = {1, 3}
    Legacy <- Old
    Flushes = {TRUE}
    MaxTerm = 2
    MaxSave = 2
    MaxBoot = 3
    slam = slam
    move = move
    lumsy = lumsy
    rool = rool
    Item = {slam, move}
    Pages = {{slam}, {move}}
    Flagged = {slam}
    Unchecked = {}
    Needs <- NeedsOf
    Places <- Shop
    Starts <- SlamSaves
    Frail <- HostOnly
    MaxSession = 1
    MaxDeath = 0
SPECIFICATION KeptSpec
PROPERTIES
    PickupsRemainLocal
