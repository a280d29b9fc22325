------------------------ MODULE MCAtomicJsonlWriter ------------------------
(* Small instances of AtomicJsonlWriter for TLC. *)
EXTENDS AtomicJsonlWriter, TLC

ProcSymmetry == Permutations(Procs)
=============================================================================
