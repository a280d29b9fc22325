SPECIFICATION FairSpec
CONSTANTS
    Count = 1
    FlushAt = 2
    Sizes = {1, 2}
    IdleRounds = 2
    Faults <- AllFaults
    MaxTrades = 2
    MaxCandles = 1
    MaxTs = 2
    MaxDays = 2
    MaxStarts = 2
    MaxFaults = 2
INVARIANTS LossBounded NoRowTwice AckedStored StrandedBounded WindowsWhole OnlineExpires FeaturesSound
PROPERTY FiniteEnds
CHECK_DEADLOCK FALSE
