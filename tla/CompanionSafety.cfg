CONSTANTS
    Parts = {"journal", "items"}
    Self = 2
    Other = {1, 3}
    Legacy <- Old
    Flushes = {TRUE}
    MaxTerm = 2
    MaxSave = 2
    MaxBoot = 3
    slam = slam
    move = move
    lumsy = lumsy
    rool = rool
    Item = {slam, move}
    Pages = {{slam}, {move}}
    Flagged = {slam}
    Unchecked = {}
    Needs <- NeedsOf
    Places <- Go
    Starts <- NewSaves
    Frail <- HostOnly
    MaxSession = 2
    MaxDeath = 1
SPECIFICATION KeptSpec
INVARIANTS
    TypeOK
    Loadable
    AuthorityKept
    PromotionDurable
    CheckpointIntact
    CheckpointEarned
    RolesAgree
    ItemsTypeOK
    BoundCovered
PROPERTIES
    Advances
    DueOnly
VIEW WithoutOffline
CHECK_DEADLOCK FALSE
