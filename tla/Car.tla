-------------------------------- MODULE Car ---------------------------------
(***************************************************************************)
(* c09: one car, persons forked one after another by main, and the four    *)
(* pipes through which they synchronise.                                   *)
(*                                                                         *)
(* A byte in available_places is a vacant seat; the byte 1, written last,  *)
(* makes the person who reads it wake the car through pers2car.  The same  *)
(* is done with exit_permit when the trip ends, over the same pers2car     *)
(* pipe.  The bytes of pers2car and in_trip are never examined, so these   *)
(* two pipes are counters.  Nobody closes a pipe, so no read sees EOF and  *)
(* no write fails.  Sleeping is a step that is not taken yet.              *)
(***************************************************************************)
EXTENDS Integers, Sequences, FiniteSets

CONSTANTS Capacity,     \* CAR_CAPACITY
          MaxPersons,   \* INT_MAX, the largest person_no
          PipeSize      \* bytes a pipe holds before write() blocks

ASSUME CarAssumption ==
  /\ Capacity \in Nat \ {0}
  /\ MaxPersons \in Nat
  /\ PipeSize \in Nat \ {0}

Persons == 1 .. MaxPersons

VARIABLES
  mainPc,            \* "boot" before the car is forked, "loop", "returned"
  person_no,         \* main's counter
  carPc,             \* "none" until forked, then the loop the car is in
  i,                 \* bytes the car has written in that loop
  pc,                \* pc[p]: what person p does next
  available_places,  \* FIFO of bytes
  exit_permit,       \* FIFO of bytes
  pers2car,          \* number of bytes in the pipe
  in_trip            \* number of bytes in the pipe

vars == <<mainPc, person_no, carPc, i, pc,
          available_places, exit_permit, pers2car, in_trip>>

MainPcs   == {"boot", "loop", "returned"}
CarPcs    == {"none", "load", "await_full", "start", "unload", "await_empty"}
PersonPcs == {"unborn", "seat", "wake", "board", "leave", "bye", "gone"}

At(s) == {p \in Persons : pc[p] = s}

N(s) == Cardinality(At(s))

\* Persons in the car: between reading a seat byte and an exit permit.
Aboard == {p \in Persons : pc[p] \in {"wake", "board", "leave"}}

Init ==
  /\ mainPc = "boot"
  /\ person_no = 0
  /\ carPc = "none"
  /\ i = 0
  /\ pc = [p \in Persons |-> "unborn"]
  /\ available_places = <<>>
  /\ exit_permit = <<>>
  /\ pers2car = 0
  /\ in_trip = 0

-----------------------------------------------------------------------------
(* main.  The result of fork() is only compared with 0, so a failed fork   *)
(* goes unnoticed: main goes on, without the car or without that person.   *)

ForkCar ==
  /\ mainPc = "boot"
  /\ mainPc' = "loop"
  /\ carPc' \in {"load", "none"}
  /\ UNCHANGED <<person_no, i, pc, available_places, exit_permit, pers2car, in_trip>>

ForkPerson ==
  /\ mainPc = "loop"
  /\ person_no # MaxPersons
  /\ person_no' = person_no + 1
  /\ \E first \in {"seat", "unborn"} : pc' = [pc EXCEPT ![person_no + 1] = first]
  /\ UNCHANGED <<mainPc, carPc, i, available_places, exit_permit, pers2car, in_trip>>

MainReturns ==
  /\ mainPc = "loop"
  /\ person_no = MaxPersons
  /\ mainPc' = "returned"
  /\ UNCHANGED <<person_no, carPc, i, pc, available_places, exit_permit, pers2car, in_trip>>

-----------------------------------------------------------------------------
(* The car.                                                                *)

\* Mutant: the first byte is marked.
MarkFirst == IF i = 0 THEN 1 ELSE 0

\* The byte of a loop that writes Capacity bytes and marks the last one.
Mark == IF i = Capacity - 1 THEN 1 ELSE 0

\* Mutant: the loop is written with <=.
TurnPast(then) ==
  IF i = Capacity THEN i' = 0 /\ carPc' = then ELSE i' = i + 1 /\ UNCHANGED carPc

\* One turn of a loop over i that moves to `then' after Capacity turns.
Turn(then) ==
  IF i = Capacity - 1 THEN i' = 0 /\ carPc' = then ELSE i' = i + 1 /\ UNCHANGED carPc

OfferPlace ==
  /\ carPc = "load"
  /\ Len(available_places) < PipeSize
  /\ available_places' = Append(available_places, Mark)
  /\ Turn("await_full")
  /\ UNCHANGED <<mainPc, person_no, pc, exit_permit, pers2car, in_trip>>

\* Mutant: the car does not read pers2car before it goes.
CarFullAtOnce ==
  /\ carPc = "await_full"
  /\ carPc' = "start"
  /\ UNCHANGED <<mainPc, person_no, i, pc, available_places, exit_permit, pers2car, in_trip>>

CarFull ==
  /\ carPc = "await_full"
  /\ pers2car > 0
  /\ pers2car' = pers2car - 1
  /\ carPc' = "start"
  /\ UNCHANGED <<mainPc, person_no, i, pc, available_places, exit_permit, in_trip>>

StartTrip ==
  /\ carPc = "start"
  /\ in_trip < PipeSize
  /\ in_trip' = in_trip + 1
  /\ Turn("unload")
  /\ UNCHANGED <<mainPc, person_no, pc, available_places, exit_permit, pers2car>>

PermitExit ==
  /\ carPc = "unload"
  /\ Len(exit_permit) < PipeSize
  /\ exit_permit' = Append(exit_permit, Mark)
  /\ Turn("await_empty")
  /\ UNCHANGED <<mainPc, person_no, pc, available_places, pers2car, in_trip>>

CarEmpty ==
  /\ carPc = "await_empty"
  /\ pers2car > 0
  /\ pers2car' = pers2car - 1
  /\ carPc' = "load"
  /\ UNCHANGED <<mainPc, person_no, i, pc, available_places, exit_permit, in_trip>>

CarNext == OfferPlace \/ CarFull \/ StartTrip \/ PermitExit \/ CarEmpty

-----------------------------------------------------------------------------
(* A person.                                                               *)

\* Mutant: the byte that was read is not looked at.
TakeSeatSilent(p) ==
  /\ pc[p] = "seat"
  /\ available_places # <<>>
  /\ pc' = [pc EXCEPT ![p] = "board"]
  /\ available_places' = Tail(available_places)
  /\ UNCHANGED <<mainPc, person_no, carPc, i, exit_permit, pers2car, in_trip>>

TakeSeat(p) ==
  /\ pc[p] = "seat"
  /\ available_places # <<>>
  /\ pc' = [pc EXCEPT ![p] = IF Head(available_places) = 1 THEN "wake" ELSE "board"]
  /\ available_places' = Tail(available_places)
  /\ UNCHANGED <<mainPc, person_no, carPc, i, exit_permit, pers2car, in_trip>>

WakeCar(p) ==
  /\ pc[p] = "wake"
  /\ pers2car < PipeSize
  /\ pers2car' = pers2car + 1
  /\ pc' = [pc EXCEPT ![p] = "board"]
  /\ UNCHANGED <<mainPc, person_no, carPc, i, available_places, exit_permit, in_trip>>

EnterTrip(p) ==
  /\ pc[p] = "board"
  /\ in_trip > 0
  /\ in_trip' = in_trip - 1
  /\ pc' = [pc EXCEPT ![p] = "leave"]
  /\ UNCHANGED <<mainPc, person_no, carPc, i, available_places, exit_permit, pers2car>>

\* Mutants: everybody who leaves, or nobody, wakes the car up.
LeaveCarLoud(p) ==
  /\ pc[p] = "leave"
  /\ exit_permit # <<>>
  /\ pc' = [pc EXCEPT ![p] = "bye"]
  /\ exit_permit' = Tail(exit_permit)
  /\ UNCHANGED <<mainPc, person_no, carPc, i, available_places, pers2car, in_trip>>

LeaveCarSilent(p) ==
  /\ pc[p] = "leave"
  /\ exit_permit # <<>>
  /\ pc' = [pc EXCEPT ![p] = "gone"]
  /\ exit_permit' = Tail(exit_permit)
  /\ UNCHANGED <<mainPc, person_no, carPc, i, available_places, pers2car, in_trip>>

LeaveCar(p) ==
  /\ pc[p] = "leave"
  /\ exit_permit # <<>>
  /\ pc' = [pc EXCEPT ![p] = IF Head(exit_permit) = 1 THEN "bye" ELSE "gone"]
  /\ exit_permit' = Tail(exit_permit)
  /\ UNCHANGED <<mainPc, person_no, carPc, i, available_places, pers2car, in_trip>>

ReleaseCar(p) ==
  /\ pc[p] = "bye"
  /\ pers2car < PipeSize
  /\ pers2car' = pers2car + 1
  /\ pc' = [pc EXCEPT ![p] = "gone"]
  /\ UNCHANGED <<mainPc, person_no, carPc, i, available_places, exit_permit, in_trip>>

PersonNext(p) ==
  TakeSeat(p) \/ WakeCar(p) \/ EnterTrip(p) \/ LeaveCar(p) \/ ReleaseCar(p)

-----------------------------------------------------------------------------
Next ==
  \/ ForkCar \/ ForkPerson \/ MainReturns
  \/ CarNext
  \/ \E p \in Persons : PersonNext(p)

SafeSpec == Init /\ [][Next]_vars

\* The kernel runs the car and every person; fork() is not obliged to succeed.
Fairness == WF_vars(CarNext) /\ \A p \in Persons : WF_vars(PersonNext(p))

Spec == SafeSpec /\ Fairness

-----------------------------------------------------------------------------
(* Properties.                                                             *)

TypeOK ==
  /\ mainPc \in MainPcs
  /\ person_no \in 0 .. MaxPersons
  /\ carPc \in CarPcs
  /\ i \in 0 .. Capacity - 1
  /\ pc \in [Persons -> PersonPcs]
  /\ available_places \in Seq({0, 1})
  /\ exit_permit \in Seq({0, 1})
  /\ pers2car \in Nat
  /\ in_trip \in Nat

\* "exactly CAR_CAPACITY passengers in the car" (main.c:12): from "Go!" to
\* the end of the trip the seats hold exactly Capacity persons, and never
\* more than Capacity at any time.
ExactlyFull ==
  /\ carPc = "start" => Cardinality(Aboard) = Capacity
  /\ Cardinality(Aboard) <= Capacity

\* pers2car carries both "I took the last seat" and "I left last": a byte of
\* one kind must never be taken for the other, so the car waits for exactly
\* one outstanding wake-up, whose sender took the last mark.
OneWakeUp ==
  /\ pers2car + N("wake") + N("bye") <= 1
  /\ pers2car + N("wake") > 0 /\ carPc = "await_full" => Cardinality(Aboard) = Capacity
  /\ pers2car + N("bye") > 0 /\ carPc = "await_empty" => Aboard = {}

\* The call that each process is in does not return.
CarWaits ==
  \/ carPc = "load" /\ Len(available_places) >= PipeSize
  \/ carPc \in {"await_full", "await_empty"} /\ pers2car = 0
  \/ carPc = "start" /\ in_trip >= PipeSize
  \/ carPc = "unload" /\ Len(exit_permit) >= PipeSize

PersonWaits(p) ==
  \/ pc[p] \in {"unborn", "gone"}
  \/ pc[p] = "seat" /\ available_places = <<>>
  \/ pc[p] \in {"wake", "bye"} /\ pers2car >= PipeSize
  \/ pc[p] = "board" /\ in_trip = 0
  \/ pc[p] = "leave" /\ exit_permit = <<>>

AllWait == mainPc = "returned" /\ CarWaits /\ \A p \in Persons : PersonWaits(p)

\* Nobody is left behind by the protocol itself: when no process can move,
\* the car (if it could be forked) offers seats or waits for a group that is
\* short, and everybody who was forked and is not in it has ridden and gone.
NobodyStranded ==
  AllWait =>
     /\ carPc = "await_full" \/ (carPc = "load" /\ Len(available_places) = PipeSize)
     /\ At("seat") = {}
     /\ Cardinality(Aboard) = Cardinality(Persons \ At("unborn")) % Capacity
     /\ pers2car = 0 /\ in_trip = 0 /\ exit_permit = <<>>

\* While the car loads, Capacity persons who wait or sit are enough for a
\* trip: no interleaving of seats, wake-ups and permits keeps them there.
GroupRides ==
  (carPc \in {"load", "await_full"} /\ Cardinality(At("seat") \union Aboard) >= Capacity)
    ~> (carPc = "unload")

\* The inductive invariant: who holds the marked byte, and how the seats,
\* the permits and the persons add up in every loop of the car.
Counts ==
  LET places  == Len(available_places)
      permits == Len(exit_permit)
  IN  /\ carPc = "none" =>
             /\ i = 0 /\ places = 0 /\ permits = 0 /\ pers2car = 0 /\ in_trip = 0
             /\ N("wake") = 0 /\ N("board") = 0 /\ N("leave") = 0 /\ N("bye") = 0
      /\ carPc = "load" =>
             /\ places + N("board") = i
             /\ permits = 0 /\ pers2car = 0 /\ in_trip = 0
             /\ N("wake") = 0 /\ N("leave") = 0 /\ N("bye") = 0
      /\ carPc = "await_full" =>
             /\ i = 0
             /\ places + N("wake") + N("board") = Capacity
             /\ places > 0 => N("wake") + pers2car = 0
             /\ places = 0 => N("wake") + pers2car = 1
             /\ permits = 0 /\ in_trip = 0 /\ N("leave") = 0 /\ N("bye") = 0
      /\ carPc = "start" =>
             /\ places = 0 /\ permits = 0 /\ pers2car = 0
             /\ N("wake") = 0 /\ N("bye") = 0
             /\ N("board") + N("leave") = Capacity
             /\ in_trip + N("leave") = i
      /\ carPc = "unload" =>
             /\ places = 0 /\ pers2car = 0 /\ N("wake") = 0 /\ N("bye") = 0
             /\ N("board") + N("leave") + i = Capacity + permits /\ permits <= i
             /\ in_trip = N("board")
      /\ carPc = "await_empty" =>
             /\ i = 0 /\ places = 0 /\ N("wake") = 0
             /\ N("board") + N("leave") = permits /\ permits <= Capacity
             /\ in_trip = N("board")
             /\ permits > 0 => N("bye") + pers2car = 0
             /\ permits = 0 => N("bye") + pers2car = 1

\* Only the last byte of a completed loop is marked.
Marked(fifo, waiting) ==
  \A k \in 1 .. Len(fifo) : fifo[k] = IF carPc = waiting /\ k = Len(fifo) THEN 1 ELSE 0

IInv ==
  /\ TypeOK
  /\ Counts
  /\ Marked(available_places, "await_full")
  /\ Marked(exit_permit, "await_empty")
  /\ mainPc = "boot" => carPc = "none" /\ person_no = 0
  /\ \A p \in Persons : p > person_no => pc[p] = "unborn"

-----------------------------------------------------------------------------
(* The car implements module Ride.                                         *)

Phase ==
  IF carPc = "start" THEN "trip"
  ELSE IF carPc \in {"unload", "await_empty"} THEN "unloading" ELSE "loading"

Coaster == INSTANCE Ride WITH Passengers <- Persons,
             phase <- Phase, aboard <- Aboard, done <- At("bye") \union At("gone")

\* Every run of the car, main and the persons is a run of the abstract ride:
\* full trips only, nobody on or off during one, nobody twice, and a full
\* car does travel and empty itself.
ImplementsRide == Coaster!RideSpec

\* Its safety part, which is also proved in CarProofs.
ImplementsRideSafety == Coaster!RideSafety
=============================================================================
