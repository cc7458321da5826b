CONSTANTS
    Name = {archive, library}
    Content = {v1, v2}
    Absent = absent
    Torn = torn
    Keep = keep
    coconut = coconut
    barrel = barrel
    Grants <- Room
    Check = {banana}
    MaxPause = 2
    MaxQueue = 2
SPECIFICATION DeviceSpec
INVARIANTS
    TypeOK
    StartsClean
    InstalledIsThere
    AnswersCurrent
    OncePerSave
    NothingStale
PROPERTIES
    Atomically
    Revives
