SPECIFICATION FairSpec
CONSTANTS
    Symbols = {btc, eth}
    Kinds = {"trade", "unroutable", "invalid", "malformed"}
    MaxAttempts = 2
    BaseBackoff = 1
    MaxBackoff = 2
    Faults <- AllFaults
    None = None
    MaxTime = 2
    MaxMessages = 2
INVARIANTS GapsDisjoint NoFalseGap GapsComplete
PROPERTIES StopRespected DisconnectSettled StopTerminates
CHECK_DEADLOCK FALSE
