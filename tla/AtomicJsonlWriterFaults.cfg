SPECIFICATION Spec
CONSTANTS
    Procs = {ingest, preprocess, pull}
    Faults = {"abort", "torn"}
    None = None
    Corrupt = Corrupt
    MaxAppends = 4
    MaxAborts = 2
SYMMETRY ProcSymmetry
INVARIANTS CountBounds AckedReadable
PROPERTY ImplementsAppendLog
CHECK_DEADLOCK FALSE
