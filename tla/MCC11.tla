------------------------------- MODULE MCC11 --------------------------------
(***************************************************************************)
(* c11 for TLC: a behaviour is either about the sellers and clients of one *)
(* session (module Cinema) or about the System V objects over several      *)
(* sessions (module Ipc).  The two share no variable; the one that the     *)
(* behaviour is not about stays in its initial state.                      *)
(***************************************************************************)
EXTENDS Cinema, Ipc

VARIABLE part

C11Init == Init /\ IpcInit /\ part \in {"cinema", "ipc"}

C11Next ==
  \/ part = "cinema" /\ Next /\ UNCHANGED <<ipcVars, part>>
  \/ part = "ipc" /\ IpcNext /\ UNCHANGED <<vars, part>>

C11Spec ==
  /\ C11Init /\ [][C11Next]_<<vars, ipcVars, part>>
  /\ part = "cinema" => Fairness
  /\ part = "ipc" => IpcFairness
=============================================================================
