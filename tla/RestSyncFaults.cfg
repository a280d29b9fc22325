SPECIFICATION FairSpec
CONSTANTS
    Last = 3
    PageSize = 2
    Live = {1, 3}
    Faults = {"timeout", "throttle", "abort"}
    None = None
    MaxSyncs = 2
    MaxThrottles = 1
    MaxAborts = 1
    MaxRejects = 1
INVARIANTS OnceOnly LossBounded SyncComplete
PROPERTIES SyncEnds ImplementsKeyClaims
CHECK_DEADLOCK FALSE
