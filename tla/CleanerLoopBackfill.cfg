SPECIFICATION Spec
CONSTANTS
    pipeline = pipeline
    preprocess = preprocess
    Workers = {pipeline}
    Trades = 0
    Candles = 2
    Count = 2
    MaxLen = 1
    Faults = {}
    Latest = Latest
    None = None
    MaxGaps = 1
    MaxDeaths = 0
    MaxStarts = 0
    MaxRejects = 0
INVARIANT SeenIsCleaned
CHECK_DEADLOCK FALSE
