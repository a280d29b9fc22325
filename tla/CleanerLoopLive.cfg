SPECIFICATION FairSpec
CONSTANTS
    pipeline = pipeline
    preprocess = preprocess
    Workers = {pipeline}
    Trades = 1
    Candles = 2
    Count = 2
    MaxLen = 1
    Faults = {"late", "stop"}
    Latest = Latest
    None = None
    MaxGaps = 1
    MaxDeaths = 1
    MaxStarts = 1
    MaxRejects = 1
PROPERTIES BacklogDrained StopEnds
CHECK_DEADLOCK FALSE
