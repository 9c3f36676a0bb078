------------------------------ MODULE MCDoctor ------------------------------
(* Module Doctor for TLC: the bounds are given in the configurations.      *)
EXTENDS Doctor, TLC

\* Pids are interchangeable; used for safety only.
Symmetry == Permutations(Patients)
=============================================================================
