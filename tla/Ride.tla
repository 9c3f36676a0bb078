-------------------------------- MODULE Ride --------------------------------
(***************************************************************************)
(* What the roller coaster of c09 promises its passengers: the car leaves  *)
(* with exactly Capacity of them, lets nobody on or off while it travels,  *)
(* is empty before it loads again, and nobody rides twice.  No pipes, no   *)
(* bytes and no processes here; module Car implements this one.            *)
(***************************************************************************)
EXTENDS Integers, FiniteSets

CONSTANTS Capacity,    \* CAR_CAPACITY
          Passengers   \* everybody who may ever come

VARIABLES phase,       \* "loading", "trip" or "unloading"
          aboard,      \* who sits in the car
          done         \* who has left it

rideVars == <<phase, aboard, done>>

RideInit == phase = "loading" /\ aboard = {} /\ done = {}

Sit(p) ==
  /\ phase = "loading"
  /\ p \notin aboard \union done
  /\ Cardinality(aboard) < Capacity
  /\ aboard' = aboard \union {p}
  /\ UNCHANGED <<phase, done>>

Go ==
  /\ phase = "loading"
  /\ Cardinality(aboard) = Capacity
  /\ phase' = "trip"
  /\ UNCHANGED <<aboard, done>>

Arrive ==
  /\ phase = "trip"
  /\ phase' = "unloading"
  /\ UNCHANGED <<aboard, done>>

Leave(p) ==
  /\ phase = "unloading"
  /\ p \in aboard
  /\ aboard' = aboard \ {p}
  /\ done' = done \union {p}
  /\ UNCHANGED phase

Reload ==
  /\ phase = "unloading"
  /\ aboard = {}
  /\ phase' = "loading"
  /\ UNCHANGED <<aboard, done>>

\* What must happen once the car is full; nobody is obliged to come.
Ride == Go \/ Arrive \/ Reload \/ \E p \in Passengers : Leave(p)

RideNext == Ride \/ \E p \in Passengers : Sit(p)

RideSafety == RideInit /\ [][RideNext]_rideVars

RideSpec == RideSafety /\ WF_rideVars(Ride)
=============================================================================
