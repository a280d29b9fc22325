SPECIFICATION Spec
CONSTANTS
    Procs = {ingest, preprocess}
    Keys = {k1, k2}
    AutosaveEvery = 2
    Faults = {"expire", "crash", "io", "false_positive"}
    None = None
    MaxOffers = 4
SYMMETRY DedupSymmetry
INVARIANTS AdmitOnce NoOrphanClaim UnsavedBounded
PROPERTIES SavedKeysStay ImplementsKeyClaims
CHECK_DEADLOCK FALSE
