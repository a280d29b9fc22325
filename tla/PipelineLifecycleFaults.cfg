SPECIFICATION FairSpec
CONSTANTS
    Faults = {"start", "redis", "giveup", "close"}
    MaxBacklog = 2
INVARIANTS NoUseAfterClose ResourcesReleased
PROPERTY StopEnds
CHECK_DEADLOCK FALSE
