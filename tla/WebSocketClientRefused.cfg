SPECIFICATION Spec
CONSTANTS
    Symbols = {btc, eth}
    MaxAttempts = 2
    BaseBackoff = 1
    MaxBackoff = 2
    None = None
    Kinds = {"trade", "invalid"}
    Faults = {"close_error", "refuse"}
    MaxTime = 4
    MaxMessages = 3
SYMMETRY SymbolSymmetry
INVARIANT MissedAreKnown
CHECK_DEADLOCK FALSE
