----------------------------- MODULE MCContainers -----------------------------
(* The two data structures of the repository, LinkedGraph of p02 and Stack *)
(* of p05, for TLC.  They share nothing: a behaviour is one of the graph   *)
(* or one of the stack.                                                    *)
EXTENDS MCGraph, MCStack

VARIABLE part   \* the one that this behaviour is about

allVars == <<part, vars, stackVars>>

ContainersInit == Init /\ StackInit /\ part \in {"graph", "stack"}

ContainersNext ==
  \/ part = "graph" /\ Next /\ UNCHANGED <<part, stackVars>>
  \/ part = "stack" /\ StackNext /\ UNCHANGED <<part, vars>>

ContainersSpec == ContainersInit /\ [][ContainersNext]_allVars
=============================================================================
