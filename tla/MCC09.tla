------------------------------- MODULE MCC09 --------------------------------
(***************************************************************************)
(* c09 for TLC: a behaviour is either about the car and its passengers     *)
(* (module Car) or about main, its SIGCHLD handler and the children that   *)
(* come and go (module Parent, which also stands for c10 and c11).  The    *)
(* two share no variable; the one that the behaviour is not about stays in *)
(* its initial state.                                                      *)
(***************************************************************************)
EXTENDS Car, Parent

VARIABLE part

C09Init == Init /\ ParentInit /\ part \in {"car", "parent"}

C09Next ==
  \/ part = "car" /\ Next /\ UNCHANGED <<parentVars, part>>
  \/ part = "parent" /\ ParentNext /\ UNCHANGED <<vars, part>>

C09Spec ==
  /\ C09Init /\ [][C09Next]_<<vars, parentVars, part>>
  /\ part = "car" => Fairness
  /\ part = "parent" => ParentFairness

\* CalmKeepsForking, of the behaviours in which main runs at all.
ParentKeepsForking == part = "parent" => CalmKeepsForking
=============================================================================
