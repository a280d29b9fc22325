------------------------------ MODULE MCDedup ------------------------------
(* Small instances of Dedup for TLC. *)
EXTENDS Dedup, TLC

\* Neither processes nor keys are told apart.
DedupSymmetry == Permutations(Procs) \cup Permutations(Keys)
=============================================================================
