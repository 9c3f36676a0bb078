------------------------------ MODULE MCCinema ------------------------------
(* Module Cinema for TLC: the bounds are given in the configurations.      *)
EXTENDS Cinema
=============================================================================
