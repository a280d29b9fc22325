SPECIFICATION Spec
CONSTANTS
    pipeline = pipeline
    preprocess = preprocess
    Workers = {pipeline, preprocess}
    Trades = 0
    Candles = 2
    Count = 2
    MaxLen = 2
    Faults = {"late", "again"}
    Latest = Latest
    None = None
    MaxGaps = 1
    MaxDeaths = 2
    MaxStarts = 1
    MaxRejects = 1
SYMMETRY WorkerSymmetry
INVARIANTS LossAccounted SkippedOnlyTrimmed
PROPERTY ImplementsKeyClaims
CHECK_DEADLOCK FALSE
