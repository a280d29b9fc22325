--------------------------- MODULE MCCleanerLoop ---------------------------
\* Instances of CleanerLoop for TLC.
EXTENDS CleanerLoop, TLC

CONSTANTS pipeline, preprocess

WorkerSymmetry == Permutations(Workers)
=============================================================================
