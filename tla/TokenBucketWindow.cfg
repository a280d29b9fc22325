SPECIFICATION BucketSpec
CONSTANTS
    Callers = {sync, other}
    Capacity = 3
    Refill = 2
    Amounts = {1, 3}
    MaxTime = 3
    MaxResets = 1
CHECK_DEADLOCK FALSE
INVARIANTS GrantsBounded SleepSuffices
