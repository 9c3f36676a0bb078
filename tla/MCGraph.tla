------------------------------ MODULE MCGraph ------------------------------
(* Module LinkedGraph for TLC: it does not matter which cell malloc takes. *)
EXTENDS LinkedGraph, TLC

Symmetry == Permutations(Cells)
=============================================================================
