SPECIFICATION FairSpec
CONSTANTS
    LastMessage = 2
    OverlapMs = 1
    LookbackMs = 2
    PageSize = 1
    MaxPages = 1
    MaxTime = 2
    MaxFaults = 1
    MaxEventAgeMs = 1
    AllowCacheMs = 1
    DenyCacheMs = 1
    UnionRetryMs = 1
    MaxLive = 1
INVARIANTS
    IntakeTypeOK
    NothingSkipped
PROPERTIES
    DeniedStaysOut
    WindowsClose
\* Posts, live events and time are bounded: everything may come to rest.
CHECK_DEADLOCK FALSE
