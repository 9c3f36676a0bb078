------------------------------ MODULE MCParent ------------------------------
(* Module Parent for TLC: the bounds are given in the configurations.      *)
EXTENDS Parent
=============================================================================
