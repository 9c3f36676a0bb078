----------------------------- MODULE CarProofs ------------------------------
(***************************************************************************)
(* Theorems about module Car, for every Capacity, MaxPersons and PipeSize. *)
(* None of them uses fairness: they are about SafeSpec, hence also Spec.   *)
(***************************************************************************)
EXTENDS Car, FiniteSetTheorems, SequenceTheorems, TLAPS

-----------------------------------------------------------------------------
(* Type correctness.                                                       *)

\* The initial state is well typed.
LEMMA InitTypeOK == Init => TypeOK
<1> SUFFICES ASSUME Init PROVE TypeOK
  OBVIOUS
<1>1. <<>> \in Seq({0, 1})
  BY EmptySeq
<1>2. i \in 0 .. Capacity - 1
  BY CarAssumption DEF Init
<1> QED
  BY <1>1, <1>2, CarAssumption DEF Init, TypeOK, MainPcs, CarPcs, PersonPcs

\* Every step of main, of the car and of a person keeps the state well typed.
LEMMA NextTypeOK == TypeOK /\ [Next]_vars => TypeOK'
<1> SUFFICES ASSUME TypeOK, [Next]_vars PROVE TypeOK'
  OBVIOUS
<1> USE CarAssumption DEF TypeOK, MainPcs, CarPcs, PersonPcs
<1>h. ASSUME NEW s \in Seq({0, 1}), s # <<>>
      PROVE  Head(s) \in {0, 1} /\ Tail(s) \in Seq({0, 1})
  BY <1>h, HeadTailProperties
<1>m. Mark \in {0, 1}
  BY DEF Mark
<1>t. ASSUME NEW pcNext \in CarPcs, Turn(pcNext)
      PROVE  i' \in 0 .. Capacity - 1 /\ carPc' \in CarPcs
  BY <1>t DEF Turn
<1>1. CASE ForkCar
  BY <1>1 DEF ForkCar
<1>2. CASE ForkPerson
  BY <1>2 DEF ForkPerson, Persons
<1>3. CASE MainReturns
  BY <1>3 DEF MainReturns
<1>4. CASE OfferPlace
  BY <1>4, <1>m, <1>t DEF OfferPlace
<1>5. CASE CarFull
  BY <1>5 DEF CarFull
<1>6. CASE StartTrip
  BY <1>6, <1>t DEF StartTrip
<1>7. CASE PermitExit
  BY <1>7, <1>m, <1>t DEF PermitExit
<1>8. CASE CarEmpty
  BY <1>8 DEF CarEmpty
<1>9. ASSUME NEW p \in Persons, TakeSeat(p) PROVE TypeOK'
  BY <1>9, <1>h DEF TakeSeat
<1>10. ASSUME NEW p \in Persons, WakeCar(p) PROVE TypeOK'
  BY <1>10 DEF WakeCar
<1>11. ASSUME NEW p \in Persons, EnterTrip(p) PROVE TypeOK'
  BY <1>11 DEF EnterTrip
<1>12. ASSUME NEW p \in Persons, LeaveCar(p) PROVE TypeOK'
  BY <1>12, <1>h DEF LeaveCar
<1>13. ASSUME NEW p \in Persons, ReleaseCar(p) PROVE TypeOK'
  BY <1>13 DEF ReleaseCar
<1>14. CASE UNCHANGED vars
  BY <1>14 DEF vars
<1> QED
  BY <1>1, <1>2, <1>3, <1>4, <1>5, <1>6, <1>7, <1>8, <1>9, <1>10, <1>11,
     <1>12, <1>13, <1>14 DEF Next, CarNext, PersonNext

\* Whatever the interleaving, the counters, the pipes and the program
\* counters keep their types: no pipe counter goes below zero and the loop
\* index of the car stays below CAR_CAPACITY.
THEOREM TypeCorrect == SafeSpec => []TypeOK
<1> QED
  BY InitTypeOK, NextTypeOK, PTL DEF SafeSpec

-----------------------------------------------------------------------------
(* Counting persons by what they do next.                                  *)

\* The persons at one place are finitely many.
LEMMA AtFinite == ASSUME NEW s PROVE IsFiniteSet(At(s)) /\ N(s) \in Nat
<1>1. IsFiniteSet(Persons)
  BY FS_Interval, CarAssumption DEF Persons
<1>2. At(s) \in SUBSET Persons
  BY DEF At
<1> QED
  BY <1>1, <1>2, FS_Subset, FS_CardinalityType DEF N

\* Person p goes from a to b.
Moves(p, a, b) == pc[p] = a /\ pc' = [pc EXCEPT ![p] = b]

\* A person who moves from a to b changes these two counts by one and no
\* other: the step every action of a person amounts to.
LEMMA Move ==
  ASSUME TypeOK, NEW p \in Persons, NEW a, NEW b, a # b, Moves(p, a, b)
  PROVE  /\ N(a) > 0
         /\ N(a)' = N(a) - 1
         /\ N(b)' = N(b) + 1
         /\ \A s : s # a /\ s # b => N(s)' = N(s)
<1> USE DEF TypeOK, Moves
<1>1. At(a)' = At(a) \ {p} /\ p \in At(a)
  BY DEF At
<1>2. At(b)' = At(b) \union {p} /\ p \notin At(b)
  BY DEF At
<1>3. \A s : s # a /\ s # b => At(s)' = At(s)
  BY DEF At
<1>4. N(a) > 0 /\ N(a)' = N(a) - 1
  BY <1>1, AtFinite, FS_RemoveElement, FS_EmptySet, SMTT(30) DEF N
<1>5. N(b)' = N(b) + 1
  BY <1>2, AtFinite, FS_AddElement DEF N
<1>6. \A s : s # a /\ s # b => N(s)' = N(s)
  BY <1>3 DEF N
<1> QED
  BY <1>4, <1>5, <1>6

\* The persons aboard are those at the three places between the two pipes.
LEMMA AboardCount ==
  /\ IsFiniteSet(Aboard)
  /\ Cardinality(Aboard) = N("wake") + N("board") + N("leave")
<1> DEFINE wb == At("wake") \union At("board")
<1>1. Aboard = wb \union At("leave")
  BY DEF Aboard, At
<1>2. At("wake") \intersect At("board") = {} /\ wb \intersect At("leave") = {}
  BY DEF At
<1>3. IsFiniteSet(wb) /\ Cardinality(wb) = N("wake") + N("board")
  BY <1>2, AtFinite, FS_Union, FS_EmptySet DEF N
<1>4. IsFiniteSet(wb \union At("leave"))
      /\ Cardinality(wb \union At("leave")) = Cardinality(wb) + N("leave")
  BY <1>2, <1>3, AtFinite, FS_Union, FS_EmptySet DEF N
<1> QED
  BY <1>1, <1>3, <1>4, AtFinite

-----------------------------------------------------------------------------
(* The inductive invariant.                                                *)

\* Writing to a pipe of unmarked bytes: only the new last byte may be marked.
LEMMA MarkWritten ==
  ASSUME NEW s \in Seq({0, 1}), NEW mark \in {0, 1}, \A k \in 1 .. Len(s) : s[k] = 0
  PROVE  /\ Len(Append(s, mark)) = Len(s) + 1
         /\ \A k \in 1 .. Len(s) + 1 :
              Append(s, mark)[k] = IF k = Len(s) + 1 THEN mark ELSE 0
  OBVIOUS

\* The reader who takes the mark empties the pipe; any other leaves it last.
LEMMA MarkRead ==
  ASSUME NEW s \in Seq({0, 1}), s # <<>>, NEW mark \in {0, 1},
         \A k \in 1 .. Len(s) : s[k] = IF k = Len(s) THEN mark ELSE 0
  PROVE  /\ Head(s) = IF Len(s) = 1 THEN mark ELSE 0
         /\ \A k \in 1 .. Len(Tail(s)) : Tail(s)[k] = IF k = Len(Tail(s)) THEN mark ELSE 0
         /\ Len(Tail(s)) = Len(s) - 1
         /\ Len(s) \in Nat \ {0}
<1>1. ASSUME NEW n, n = Len(s), NEW t, t = Tail(s)
      PROVE  /\ n \in Nat \ {0} /\ Head(s) = s[1]
             /\ Len(t) = n - 1
             /\ \A k \in 1 .. n - 1 : t[k] = s[k + 1]
  BY <1>1, EmptySeq, HeadTailProperties
<1>2. ASSUME NEW n \in Nat \ {0}, n = Len(s), NEW k \in 1 .. n - 1
      PROVE  s[k + 1] = IF k = n - 1 THEN mark ELSE 0
  <2>1. k + 1 \in 1 .. n /\ (k + 1 = n <=> k = n - 1)
    OBVIOUS
  <2> QED
    BY <1>2, <2>1
<1>3. s[1] = IF Len(s) = 1 THEN mark ELSE 0
  <2>1. 1 \in 1 .. Len(s)
    BY <1>1
  <2> QED
    BY <2>1
<1> QED
  BY <1>1, <1>2, <1>3

\* The invariant holds before main has forked anything.
LEMMA InitIInv == Init => IInv
<1> SUFFICES ASSUME Init PROVE IInv
  OBVIOUS
<1>1. TypeOK
  BY InitTypeOK
<1>2. \A s : s # "unborn" => N(s) = 0
  BY FS_EmptySet DEF Init, N, At
<1>3. Counts
  BY <1>2 DEF Init, Counts
<1> QED
  BY <1>1, <1>3 DEF Init, IInv, Marked

\* Nothing in the invariant but TypeOK reads who main is about to fork.
LEMMA MainIInv == IInv /\ (ForkCar \/ ForkPerson \/ MainReturns) => IInv'
<1> SUFFICES ASSUME IInv, ForkCar \/ ForkPerson \/ MainReturns PROVE IInv'
  OBVIOUS
<1> USE DEF IInv
<1>1. TypeOK'
  BY NextTypeOK DEF Next
<1>2. CASE ForkCar
  <2>1. \A s : N(s)' = N(s)
    BY <1>2 DEF ForkCar, N, At
  <2>2. Counts'
    BY <1>2, <2>1, CarAssumption DEF ForkCar, Counts
  <2> QED
    BY <1>1, <1>2, <2>2 DEF ForkCar, Marked, Counts
<1>3. CASE ForkPerson
  <2>1. person_no \in 0 .. MaxPersons /\ person_no + 1 \in Persons /\ pc[person_no + 1] = "unborn"
    BY <1>3, CarAssumption DEF ForkPerson, Persons, TypeOK
  <2>2. \A s : s \notin {"seat", "unborn"} => N(s)' = N(s)
    <3>1. CASE pc' = [pc EXCEPT ![person_no + 1] = "seat"]
      <4>1. Moves(person_no + 1, "unborn", "seat")
        BY <2>1, <3>1 DEF Moves
      <4> QED
        BY <2>1, <4>1, Move
    <3>2. CASE pc' = [pc EXCEPT ![person_no + 1] = "unborn"]
      BY <2>1, <3>2 DEF N, At, TypeOK
    <3> QED
      BY <1>3, <3>1, <3>2 DEF ForkPerson
  <2>3. Counts'
    BY <1>3, <2>2 DEF ForkPerson, Counts
  <2>4. \A p \in Persons : p > person_no' => pc'[p] = "unborn"
    BY <1>3, <2>1 DEF ForkPerson, Persons, TypeOK
  <2> QED
    BY <1>1, <1>3, <2>3, <2>4 DEF ForkPerson, Marked
<1>4. CASE MainReturns
  <2>1. \A s : N(s)' = N(s)
    BY <1>4 DEF MainReturns, N, At
  <2>2. Counts'
    BY <1>4, <2>1 DEF MainReturns, Counts
  <2> QED
    BY <1>1, <1>4, <2>2 DEF MainReturns, Marked
<1> QED
  BY <1>2, <1>3, <1>4
\* The parts of the invariant that only main disturbs.
Forked ==
  /\ mainPc = "boot" => carPc = "none" /\ person_no = 0
  /\ \A p \in Persons : p > person_no => pc[p] = "unborn"

\* The car counts the bytes it writes and waits for the one wake-up.
LEMMA CarIInv == IInv /\ CarNext => IInv'
<1> SUFFICES ASSUME IInv, CarNext PROVE IInv'
  OBVIOUS
<1>1. TypeOK /\ TypeOK' /\ Marked(available_places, "await_full") /\ Marked(exit_permit, "await_empty")
  BY NextTypeOK DEF IInv, Next
<1>2. /\ Counts
      /\ Capacity \in Nat \ {0} /\ i \in 0 .. Capacity - 1 /\ carPc \in CarPcs
      /\ pers2car \in Nat /\ in_trip \in Nat
      /\ Len(available_places) \in Nat /\ Len(exit_permit) \in Nat
      /\ N("wake") \in Nat /\ N("board") \in Nat /\ N("leave") \in Nat /\ N("bye") \in Nat
  BY AtFinite, CarAssumption DEF IInv, TypeOK
<1>3. /\ N("wake")' = N("wake") /\ N("board")' = N("board")
      /\ N("leave")' = N("leave") /\ N("bye")' = N("bye")
  <2>1. pc' = pc
    BY DEF CarNext, OfferPlace, CarFull, StartTrip, PermitExit, CarEmpty
  <2> QED
    BY <2>1 DEF N, At
<1>4. Forked'
  BY DEF CarNext, OfferPlace, CarFull, StartTrip, PermitExit, CarEmpty, IInv, Forked
<1>5. Mark \in {0, 1} /\ (Mark = 1 <=> i = Capacity - 1)
  BY DEF Mark
<1>6. CASE OfferPlace
  <2>1. \A k \in 1 .. Len(available_places) : available_places[k] = 0
    BY <1>1, <1>6 DEF OfferPlace, Marked
  <2>2. /\ Len(available_places') = Len(available_places) + 1
        /\ \A k \in 1 .. Len(available_places') :
             available_places'[k] = IF k = Len(available_places') THEN Mark ELSE 0
    BY <1>1, <1>2, <1>5, <1>6, <2>1, MarkWritten DEF OfferPlace, TypeOK
  <2>3. /\ carPc = "load" /\ Turn("await_full")
        /\ UNCHANGED <<exit_permit, pers2car, in_trip>>
    BY <1>6 DEF OfferPlace
  <2>4. Len(available_places)' = Len(available_places) + 1
    BY <2>2
  <2>5. Counts'
    BY <1>2, <1>3, <2>3, <2>4, SMTT(30) DEF Turn, Counts
  <2>6. Marked(available_places, "await_full")'
    BY <1>5, <2>2, <2>3 DEF Turn, Marked
  <2>7. Marked(exit_permit, "await_empty")'
    BY <1>2, <2>3 DEF Turn, Marked, Counts
  <2> QED
    BY <1>1, <1>4, <2>5, <2>6, <2>7 DEF IInv, Forked
<1>7. CASE CarFull
  <2>1. Counts'
    BY <1>2, <1>3, <1>7 DEF CarFull, Turn, Counts
  <2>2. Len(available_places) = 0 /\ Len(exit_permit) = 0
    BY <1>2, <1>7 DEF CarFull, Counts
  <2> QED
    BY <1>1, <1>4, <1>7, <2>1, <2>2 DEF CarFull, Marked, IInv, Forked
<1>8. CASE StartTrip
  <2>1. Counts'
    BY <1>2, <1>3, <1>8 DEF StartTrip, Turn, Counts
  <2>2. Len(available_places) = 0 /\ Len(exit_permit) = 0
    BY <1>2, <1>8 DEF StartTrip, Counts
  <2> QED
    BY <1>1, <1>4, <1>8, <2>1, <2>2 DEF StartTrip, Marked, IInv, Forked
<1>9. CASE PermitExit
  <2>1. \A k \in 1 .. Len(exit_permit) : exit_permit[k] = 0
    BY <1>1, <1>9 DEF PermitExit, Marked
  <2>2. /\ Len(exit_permit') = Len(exit_permit) + 1
        /\ \A k \in 1 .. Len(exit_permit') :
             exit_permit'[k] = IF k = Len(exit_permit') THEN Mark ELSE 0
    BY <1>1, <1>2, <1>5, <1>9, <2>1, MarkWritten DEF PermitExit, TypeOK
  <2>3. /\ carPc = "unload" /\ Turn("await_empty")
        /\ UNCHANGED <<available_places, pers2car, in_trip>>
    BY <1>9 DEF PermitExit
  <2>4. Len(exit_permit)' = Len(exit_permit) + 1
    BY <2>2
  <2>5. Counts'
    BY <1>2, <1>3, <2>3, <2>4, SMTT(30) DEF Turn, Counts
  <2>6. Marked(exit_permit, "await_empty")'
    BY <1>5, <2>2, <2>3 DEF Turn, Marked
  <2>7. Marked(available_places, "await_full")'
    BY <1>2, <2>3 DEF Turn, Marked, Counts
  <2> QED
    BY <1>1, <1>4, <2>5, <2>6, <2>7 DEF IInv, Forked
<1>10. CASE CarEmpty
  <2>1. Counts'
    BY <1>2, <1>3, <1>10 DEF CarEmpty, Turn, Counts
  <2>2. Len(available_places) = 0 /\ Len(exit_permit) = 0
    BY <1>2, <1>10 DEF CarEmpty, Counts
  <2> QED
    BY <1>1, <1>4, <1>10, <2>1, <2>2 DEF CarEmpty, Marked, IInv, Forked
<1> QED
  BY <1>6, <1>7, <1>8, <1>9, <1>10 DEF CarNext

\* A person takes one byte and moves on, and the sums stay as they are.
LEMMA PersonIInv == ASSUME IInv, NEW p \in Persons, PersonNext(p) PROVE IInv'
<1>1. TypeOK /\ TypeOK' /\ Marked(available_places, "await_full") /\ Marked(exit_permit, "await_empty")
  BY NextTypeOK DEF IInv, Next
<1>2. /\ Counts
      /\ Capacity \in Nat \ {0} /\ i \in 0 .. Capacity - 1 /\ carPc \in CarPcs
      /\ pers2car \in Nat /\ in_trip \in Nat
      /\ Len(available_places) \in Nat /\ Len(exit_permit) \in Nat
      /\ N("wake") \in Nat /\ N("board") \in Nat /\ N("leave") \in Nat /\ N("bye") \in Nat
  BY AtFinite, CarAssumption DEF IInv, TypeOK
<1>3. Forked'
  BY DEF PersonNext, TakeSeat, WakeCar, EnterTrip, LeaveCar, ReleaseCar, IInv, Forked, TypeOK
<1>4. CASE TakeSeat(p)
  <2> DEFINE mark == IF carPc = "await_full" THEN 1 ELSE 0
  <2>1. /\ Head(available_places) = IF Len(available_places) = 1 THEN mark ELSE 0
        /\ \A k \in 1 .. Len(available_places') :
             available_places'[k] = IF k = Len(available_places') THEN mark ELSE 0
        /\ Len(available_places') = Len(available_places) - 1
        /\ Len(available_places) \in Nat \ {0}
    BY <1>1, <1>4, MarkRead DEF TakeSeat, Marked, TypeOK
  <2>2. UNCHANGED <<carPc, i, exit_permit, pers2car, in_trip>>
    BY <1>4 DEF TakeSeat
  <2>3. carPc \in {"load", "await_full"} /\ Len(exit_permit) = 0
    BY <1>2, <2>1 DEF Counts, CarPcs
  <2>4. Len(available_places)' = Len(available_places) - 1 /\ Len(available_places) > 0
    BY <2>1
  <2>5. Counts'
    <3>1. CASE Head(available_places) = 1
      <4>1. /\ N("wake")' = N("wake") + 1
            /\ N("board")' = N("board")
            /\ N("leave")' = N("leave")
            /\ N("bye")' = N("bye")
        <5>1. Moves(p, "seat", "wake")
          BY <1>4, <3>1 DEF TakeSeat, Moves
        <5> QED
          BY <1>1, <5>1, Move
      <4>2. carPc = "await_full" /\ Len(available_places) = 1
        BY <2>1, <3>1
      <4> QED
        BY <1>2, <2>2, <2>3, <2>4, <4>1, <4>2 DEF Counts
    <3>2. CASE Head(available_places) # 1
      <4>1. /\ N("wake")' = N("wake")
            /\ N("board")' = N("board") + 1
            /\ N("leave")' = N("leave")
            /\ N("bye")' = N("bye")
        <5>1. Moves(p, "seat", "board")
          BY <1>4, <3>2 DEF TakeSeat, Moves
        <5> QED
          BY <1>1, <5>1, Move
      <4>2. CASE carPc = "load"
        BY <1>2, <2>2, <2>3, <2>4, <4>1, <4>2 DEF Counts
      <4>3. CASE carPc = "await_full"
        <5>1. Len(available_places) > 1
          BY <2>1, <2>4, <3>2, <4>3
        <5>2. /\ i = 0 /\ N("wake") = 0 /\ pers2car = 0
              /\ Len(available_places) + N("board") = Capacity
              /\ Len(exit_permit) = 0 /\ in_trip = 0 /\ N("leave") = 0 /\ N("bye") = 0
          BY <1>2, <4>3, <5>1 DEF Counts
        <5>3. Len(available_places)' \in Nat /\ Len(available_places)' > 0
          BY <2>4, <5>1
        <5>4. Len(available_places)' + N("wake")' + N("board")' = Capacity
          BY <1>2, <2>4, <4>1, <5>2
        <5>5. /\ carPc' = "await_full" /\ i' = 0 /\ N("wake")' = 0 /\ pers2car' = 0
              /\ Len(exit_permit)' = 0 /\ in_trip' = 0 /\ N("leave")' = 0 /\ N("bye")' = 0
          BY <2>2, <4>1, <4>3, <5>2
        <5> QED
          BY <5>3, <5>4, <5>5 DEF Counts
      <4> QED
        BY <2>3, <4>2, <4>3
    <3> QED
      BY <3>1, <3>2
  <2>6. Marked(available_places, "await_full")'
    BY <2>1, <2>2 DEF Marked
  <2>7. Marked(exit_permit, "await_empty")'
    BY <2>2, <2>3 DEF Marked
  <2> QED
    BY <1>1, <1>3, <2>5, <2>6, <2>7 DEF IInv, Forked
<1>5. CASE WakeCar(p)
  <2>1. /\ N("wake") > 0 /\ N("wake")' = N("wake") - 1
        /\ N("board")' = N("board") + 1
        /\ N("leave")' = N("leave")
        /\ N("bye")' = N("bye")
    <3>1. Moves(p, "wake", "board")
      BY <1>5 DEF WakeCar, Moves
    <3> QED
      BY <1>1, <3>1, Move
  <2>2. /\ UNCHANGED <<carPc, i, available_places, exit_permit, in_trip>>
        /\ pers2car' = pers2car + 1
    BY <1>2, <1>5 DEF WakeCar
  <2>3. Counts'
    BY <1>2, <2>1, <2>2 DEF Counts, CarPcs
  <2>4. Marked(available_places, "await_full")' /\ Marked(exit_permit, "await_empty")'
    BY <1>1, <2>2 DEF Marked
  <2> QED
    BY <1>1, <1>3, <2>3, <2>4 DEF IInv, Forked
<1>6. CASE EnterTrip(p)
  <2>1. /\ N("wake")' = N("wake")
        /\ N("board") > 0 /\ N("board")' = N("board") - 1
        /\ N("leave")' = N("leave") + 1
        /\ N("bye")' = N("bye")
    <3>1. Moves(p, "board", "leave")
      BY <1>6 DEF EnterTrip, Moves
    <3> QED
      BY <1>1, <3>1, Move
  <2>2. /\ UNCHANGED <<carPc, i, available_places, exit_permit, pers2car>>
        /\ in_trip > 0 /\ in_trip' = in_trip - 1
    BY <1>2, <1>6 DEF EnterTrip
  <2>3. Counts'
    <3>1. carPc \in {"start", "unload", "await_empty"}
      BY <1>2, <2>1, <2>2 DEF Counts, CarPcs
    <3>2. CASE carPc = "start"
      <4>1. /\ Len(available_places) = 0 /\ Len(exit_permit) = 0 /\ pers2car = 0
            /\ N("wake") = 0 /\ N("bye") = 0
            /\ N("board") + N("leave") = Capacity /\ in_trip + N("leave") = i
        BY <1>2, <3>2 DEF Counts
      <4>2. N("board")' + N("leave")' = Capacity /\ in_trip' + N("leave")' = i
        BY <1>2, <2>1, <2>2, <4>1
      <4> QED
        BY <2>1, <2>2, <3>2, <4>1, <4>2 DEF Counts
    <3>3. CASE carPc = "unload"
      BY <1>2, <2>1, <2>2, <3>3 DEF Counts
    <3>4. CASE carPc = "await_empty"
      BY <1>2, <2>1, <2>2, <3>4 DEF Counts
    <3> QED
      BY <3>1, <3>2, <3>3, <3>4
  <2>4. Marked(available_places, "await_full")' /\ Marked(exit_permit, "await_empty")'
    BY <1>1, <2>2 DEF Marked
  <2> QED
    BY <1>1, <1>3, <2>3, <2>4 DEF IInv, Forked
<1>7. CASE LeaveCar(p)
  <2> DEFINE mark == IF carPc = "await_empty" THEN 1 ELSE 0
  <2>1. /\ Head(exit_permit) = IF Len(exit_permit) = 1 THEN mark ELSE 0
        /\ \A k \in 1 .. Len(exit_permit') :
             exit_permit'[k] = IF k = Len(exit_permit') THEN mark ELSE 0
        /\ Len(exit_permit') = Len(exit_permit) - 1
        /\ Len(exit_permit) \in Nat \ {0}
    BY <1>1, <1>7, MarkRead DEF LeaveCar, Marked, TypeOK
  <2>2. UNCHANGED <<carPc, i, available_places, pers2car, in_trip>>
    BY <1>7 DEF LeaveCar
  <2>3. carPc \in {"unload", "await_empty"} /\ Len(available_places) = 0
    BY <1>2, <2>1 DEF Counts, CarPcs
  <2>4. Len(exit_permit)' = Len(exit_permit) - 1 /\ Len(exit_permit) > 0
    BY <2>1
  <2>5. Counts'
    <3>1. CASE Head(exit_permit) = 1
      <4>1. /\ N("wake")' = N("wake")
            /\ N("board")' = N("board")
            /\ N("leave") > 0 /\ N("leave")' = N("leave") - 1
            /\ N("bye")' = N("bye") + 1
        <5>1. Moves(p, "leave", "bye")
          BY <1>7, <3>1 DEF LeaveCar, Moves
        <5> QED
          BY <1>1, <5>1, Move
      <4>2. carPc = "await_empty" /\ Len(exit_permit) = 1
        BY <2>1, <3>1
      <4>3. /\ i = 0 /\ Len(available_places) = 0 /\ N("wake") = 0
            /\ N("board") + N("leave") = 1 /\ in_trip = N("board")
            /\ N("bye") = 0 /\ pers2car = 0
        BY <1>2, <4>2 DEF Counts
      <4>4. /\ N("leave")' = 0 /\ N("board")' = 0 /\ in_trip' = 0
            /\ Len(exit_permit)' = 0 /\ 0 <= Capacity
        BY <1>2, <2>2, <2>4, <4>1, <4>2, <4>3
      <4>5. /\ carPc' = "await_empty" /\ i' = 0 /\ Len(available_places)' = 0
            /\ N("wake")' = 0 /\ N("bye")' = 1 /\ pers2car' = 0
        BY <2>2, <4>1, <4>2, <4>3
      <4> QED
        BY <4>4, <4>5 DEF Counts
    <3>2. CASE Head(exit_permit) # 1
      <4>1. /\ N("wake")' = N("wake")
            /\ N("board")' = N("board")
            /\ N("leave") > 0 /\ N("leave")' = N("leave") - 1
            /\ N("bye")' = N("bye")
        <5>1. Moves(p, "leave", "gone")
          BY <1>7, <3>2 DEF LeaveCar, Moves
        <5> QED
          BY <1>1, <5>1, Move
      <4>2. CASE carPc = "unload"
        BY <1>2, <2>2, <2>3, <2>4, <4>1, <4>2 DEF Counts
      <4>3. CASE carPc = "await_empty"
        <5>1. Len(exit_permit) > 1
          BY <2>1, <2>4, <3>2, <4>3
        <5>2. /\ i = 0 /\ Len(available_places) = 0 /\ N("wake") = 0
              /\ N("board") + N("leave") = Len(exit_permit) /\ in_trip = N("board")
              /\ Len(exit_permit) <= Capacity /\ N("bye") = 0 /\ pers2car = 0
          BY <1>2, <4>3, <5>1 DEF Counts
        <5>3. /\ N("board")' + N("leave")' = Len(exit_permit)'
              /\ Len(exit_permit)' <= Capacity /\ Len(exit_permit)' > 0
          BY <1>2, <2>4, <4>1, <5>1, <5>2
        <5>4. /\ carPc' = "await_empty" /\ i' = 0 /\ Len(available_places)' = 0
              /\ N("wake")' = 0 /\ in_trip' = N("board")' /\ N("bye")' = 0 /\ pers2car' = 0
          BY <2>2, <4>1, <4>3, <5>2
        <5> QED
          BY <5>3, <5>4 DEF Counts
      <4> QED
        BY <2>3, <4>2, <4>3
    <3> QED
      BY <3>1, <3>2
  <2>6. Marked(exit_permit, "await_empty")'
    BY <2>1, <2>2 DEF Marked
  <2>7. Marked(available_places, "await_full")'
    BY <2>2, <2>3 DEF Marked
  <2> QED
    BY <1>1, <1>3, <2>5, <2>6, <2>7 DEF IInv, Forked
<1>8. CASE ReleaseCar(p)
  <2>1. /\ N("wake")' = N("wake")
        /\ N("board")' = N("board")
        /\ N("leave")' = N("leave")
        /\ N("bye") > 0 /\ N("bye")' = N("bye") - 1
    <3>1. Moves(p, "bye", "gone")
      BY <1>8 DEF ReleaseCar, Moves
    <3> QED
      BY <1>1, <3>1, Move
  <2>2. /\ UNCHANGED <<carPc, i, available_places, exit_permit, in_trip>>
        /\ pers2car' = pers2car + 1
    BY <1>2, <1>8 DEF ReleaseCar
  <2>3. Counts'
    BY <1>2, <2>1, <2>2 DEF Counts, CarPcs
  <2>4. Marked(available_places, "await_full")' /\ Marked(exit_permit, "await_empty")'
    BY <1>1, <2>2 DEF Marked
  <2> QED
    BY <1>1, <1>3, <2>3, <2>4 DEF IInv, Forked
<1> QED
  BY <1>4, <1>5, <1>6, <1>7, <1>8 DEF PersonNext

\* Every reachable state satisfies the inductive invariant.
THEOREM InvariantHolds == SafeSpec => []IInv
<1>1. IInv /\ UNCHANGED vars => IInv'
  BY DEF vars, IInv, TypeOK, Counts, Marked, N, At
<1>2. IInv /\ [Next]_vars => IInv'
  BY <1>1, MainIInv, CarIInv, PersonIInv DEF Next
<1> QED
  BY <1>2, InitIInv, PTL DEF SafeSpec
\* "exactly CAR_CAPACITY passengers in the car": with any number of persons
\* in any interleaving, the car travels with exactly Capacity of them aboard
\* and never holds more.
THEOREM ExactlyFullAlways == SafeSpec => []ExactlyFull
<1>1. IInv => ExactlyFull
  <2> SUFFICES ASSUME IInv PROVE ExactlyFull
    OBVIOUS
  <2>1. /\ Counts /\ carPc \in CarPcs /\ Capacity \in Nat \ {0} /\ i \in 0 .. Capacity - 1
        /\ Len(available_places) \in Nat /\ Len(exit_permit) \in Nat /\ in_trip \in Nat
        /\ N("wake") \in Nat /\ N("board") \in Nat /\ N("leave") \in Nat
    BY AtFinite, CarAssumption DEF IInv, TypeOK
  <2>2. N("wake") + N("board") + N("leave") <= Capacity
    BY <2>1 DEF Counts, CarPcs
  <2>3. carPc = "start" => N("wake") + N("board") + N("leave") = Capacity
    BY <2>1 DEF Counts
  <2> QED
    BY <2>2, <2>3, AboardCount DEF ExactlyFull
<1> QED
  BY <1>1, InvariantHolds, PTL

\* The two wake-ups that share pers2car are never confused: at most one is
\* outstanding, and it means what the car waits for.
THEOREM OneWakeUpAlways == SafeSpec => []OneWakeUp
<1>1. IInv => OneWakeUp
  <2> SUFFICES ASSUME IInv PROVE OneWakeUp
    OBVIOUS
  <2>1. /\ Counts /\ carPc \in CarPcs /\ pers2car \in Nat
        /\ Len(available_places) \in Nat /\ Len(exit_permit) \in Nat
        /\ N("wake") \in Nat /\ N("board") \in Nat /\ N("leave") \in Nat /\ N("bye") \in Nat
    BY AtFinite DEF IInv, TypeOK
  <2>2. pers2car + N("wake") + N("bye") <= 1
    <3>1. CASE carPc \in {"none", "load", "start", "unload"}
      <4>1. pers2car = 0 /\ N("wake") = 0 /\ N("bye") = 0
        BY <2>1, <3>1 DEF Counts
      <4> QED
        BY <4>1
    <3>2. CASE carPc = "await_full"
      <4>1. N("bye") = 0 /\ (N("wake") + pers2car = 0 \/ N("wake") + pers2car = 1)
        BY <2>1, <3>2 DEF Counts
      <4> QED
        BY <2>1, <4>1
    <3>3. CASE carPc = "await_empty"
      <4>1. N("wake") = 0 /\ (N("bye") + pers2car = 0 \/ N("bye") + pers2car = 1)
        BY <2>1, <3>3 DEF Counts
      <4> QED
        BY <2>1, <4>1
    <3> QED
      BY <2>1, <3>1, <3>2, <3>3 DEF CarPcs
  <2>3. ASSUME pers2car + N("wake") > 0, carPc = "await_full"
        PROVE  Cardinality(Aboard) = Capacity
    BY <2>1, <2>3, AboardCount DEF Counts
  <2>4. ASSUME pers2car + N("bye") > 0, carPc = "await_empty"
        PROVE  Aboard = {}
    <3>1. Cardinality(Aboard) = 0
      BY <2>1, <2>4, AboardCount DEF Counts
    <3> QED
      BY <3>1, AboardCount, FS_EmptySet
  <2> QED
    BY <2>2, <2>3, <2>4 DEF OneWakeUp
<1> QED
  BY <1>1, InvariantHolds, PTL
-----------------------------------------------------------------------------
(* Car implements Ride: every step is a step of the ride or leaves it as   *)
(* it is.                                                                  *)

Done == At("bye") \union At("gone")

\* In a state of the invariant: a person who finds a byte finds room, the
\* car that is woken is full, and the car that reloads is empty.
LEMMA SeatsFit ==
  ASSUME IInv
  PROVE  /\ available_places # <<>> =>
              carPc \in {"load", "await_full"} /\ Cardinality(Aboard) < Capacity
         /\ pers2car > 0 /\ carPc = "await_full" => Cardinality(Aboard) = Capacity
         /\ pers2car > 0 /\ carPc = "await_empty" => Aboard = {}
         /\ exit_permit # <<>> => carPc \in {"unload", "await_empty"}
<1>1. /\ Counts /\ carPc \in CarPcs /\ pers2car \in Nat /\ in_trip \in Nat
      /\ Capacity \in Nat \ {0} /\ i \in 0 .. Capacity - 1
      /\ Len(available_places) \in Nat /\ Len(exit_permit) \in Nat
      /\ N("wake") \in Nat /\ N("board") \in Nat /\ N("leave") \in Nat /\ N("bye") \in Nat
  BY AtFinite, CarAssumption DEF IInv, TypeOK
<1>2. ASSUME available_places # <<>>
      PROVE  carPc \in {"load", "await_full"} /\ Cardinality(Aboard) < Capacity
  <2>1. Len(available_places) > 0
    BY <1>2, EmptySeq DEF IInv, TypeOK
  <2>2. carPc \in {"load", "await_full"}
    BY <1>1, <2>1 DEF Counts, CarPcs
  <2>3. N("wake") + N("board") + N("leave") < Capacity
    BY <1>1, <2>1, <2>2 DEF Counts
  <2> QED
    BY <2>2, <2>3, AboardCount
<1>3. ASSUME exit_permit # <<>> PROVE carPc \in {"unload", "await_empty"}
  <2>1. Len(exit_permit) > 0
    BY <1>3, EmptySeq DEF IInv, TypeOK
  <2> QED
    BY <1>1, <2>1 DEF Counts, CarPcs
<1>4. ASSUME pers2car > 0, carPc = "await_full" PROVE Cardinality(Aboard) = Capacity
  BY <1>1, <1>4, AboardCount DEF Counts
<1>5. ASSUME pers2car > 0, carPc = "await_empty" PROVE Aboard = {}
  <2>1. Cardinality(Aboard) = 0
    BY <1>1, <1>5, AboardCount DEF Counts
  <2> QED
    BY <2>1, AboardCount, FS_EmptySet
<1> QED
  BY <1>2, <1>3, <1>4, <1>5

\* Ride counts with the same Cardinality.
LEMMA SameCardinality == ASSUME NEW S PROVE Coaster!Cardinality(S) = Cardinality(S)
BY DEF Cardinality, Coaster!Cardinality, IsFiniteSet, Coaster!IsFiniteSet

\* Nobody is aboard before the program starts.
LEMMA InitRides == Init => Coaster!RideInit
BY DEF Init, Coaster!RideInit, Phase, Aboard, At

\* The steps of main and of the car.
LEMMA CarRides ==
  ASSUME IInv, ForkCar \/ ForkPerson \/ MainReturns \/ CarNext
  PROVE  [Coaster!RideNext]_Coaster!rideVars
<1> USE DEF Coaster!RideNext, Coaster!Ride, Coaster!rideVars
<1>1. CASE ForkCar \/ MainReturns \/ OfferPlace \/ PermitExit
  <2>1. UNCHANGED <<Aboard, Done>>
    BY <1>1 DEF ForkCar, MainReturns, OfferPlace, PermitExit, Aboard, Done, At
  <2>2. UNCHANGED Phase
    BY <1>1 DEF IInv, ForkCar, MainReturns, OfferPlace, PermitExit, Turn, Phase
  <2> QED
    BY <2>1, <2>2 DEF Done
<1>2. CASE ForkPerson
  <2>1. person_no + 1 \in Persons /\ pc[person_no + 1] = "unborn"
    BY <1>2, CarAssumption DEF ForkPerson, Persons, IInv, TypeOK
  <2>2. UNCHANGED <<Aboard, Done>>
    BY <1>2, <2>1 DEF ForkPerson, Aboard, Done, At, IInv, TypeOK
  <2> QED
    BY <1>2, <2>2 DEF ForkPerson, Done, Phase
<1>3. CASE CarFull
  <2>1. pers2car > 0 /\ carPc = "await_full" /\ carPc' = "start" /\ pc' = pc
    BY <1>3 DEF CarFull
  <2>4. Phase = "loading" /\ Phase' = "trip"
    BY <2>1 DEF Phase
  <2>2. Cardinality(Aboard) = Capacity
    BY <2>1, SeatsFit
  <2>3. UNCHANGED <<Aboard, Done>>
    BY <2>1 DEF Aboard, Done, At
  <2>5. Coaster!Go
    BY <2>2, <2>3, <2>4, SameCardinality DEF Coaster!Go, Done
  <2> QED
    BY <2>5
<1>4. CASE StartTrip
  <2>1. UNCHANGED <<Aboard, Done>>
    BY <1>4 DEF StartTrip, Aboard, Done, At
  <2>2. carPc = "start" /\ carPc' \in {"start", "unload"}
    BY <1>4 DEF StartTrip, Turn
  <2> QED
    BY <2>1, <2>2 DEF Coaster!Arrive, Done, Phase
<1>5. CASE CarEmpty
  <2>1. pers2car > 0 /\ carPc = "await_empty" /\ carPc' = "load" /\ pc' = pc
    BY <1>5 DEF CarEmpty
  <2>2. Aboard = {}
    BY <2>1, SeatsFit
  <2>3. UNCHANGED <<Aboard, Done>>
    BY <2>1 DEF Aboard, Done, At
  <2> QED
    BY <2>1, <2>2, <2>3 DEF Coaster!Reload, Done, Phase
<1> QED
  BY <1>1, <1>2, <1>3, <1>4, <1>5 DEF CarNext

\* The steps of a person.
LEMMA PersonRides ==
  ASSUME IInv, NEW p \in Persons, PersonNext(p)
  PROVE  [Coaster!RideNext]_Coaster!rideVars
<1> USE DEF Coaster!RideNext, Coaster!Ride, Coaster!rideVars
<1>1. carPc' = carPc
  BY DEF PersonNext, TakeSeat, WakeCar, EnterTrip, LeaveCar, ReleaseCar
<1>2. CASE TakeSeat(p)
  <2>1. Phase = "loading" /\ Phase' = Phase /\ Cardinality(Aboard) < Capacity
    BY <1>1, <1>2, SeatsFit DEF TakeSeat, Phase
  <2>2. /\ p \notin Aboard \union Done
        /\ Aboard' = Aboard \union {p} /\ Done' = Done
    BY <1>2 DEF TakeSeat, Aboard, Done, At, IInv, TypeOK
  <2>3. Coaster!Sit(p)
    BY <2>1, <2>2, SameCardinality DEF Coaster!Sit, Done
  <2> QED
    BY <2>3
<1>3. CASE WakeCar(p) \/ EnterTrip(p) \/ ReleaseCar(p)
  <2>1. UNCHANGED <<Aboard, Done>>
    BY <1>3 DEF WakeCar, EnterTrip, ReleaseCar, Aboard, Done, At, IInv, TypeOK
  <2> QED
    BY <1>1, <2>1 DEF Done, Phase
<1>4. CASE LeaveCar(p)
  <2>1. Phase = "unloading" /\ Phase' = Phase
    BY <1>1, <1>4, SeatsFit DEF LeaveCar, Phase
  <2>2. p \in Aboard /\ Aboard' = Aboard \ {p} /\ Done' = Done \union {p}
    BY <1>4 DEF LeaveCar, Aboard, Done, At, IInv, TypeOK
  <2>3. Coaster!Leave(p)
    BY <2>1, <2>2 DEF Coaster!Leave, Done
  <2> QED
    BY <2>3
<1> QED
  BY <1>2, <1>3, <1>4 DEF PersonNext

\* For every number of persons, seats and pipe bytes, the four pipes of c09
\* implement the ride: full trips only, nobody on or off during a trip,
\* nobody twice.
THEOREM CarImplementsRide == SafeSpec => ImplementsRideSafety
<1>1. IInv /\ [Next]_vars => [Coaster!RideNext]_Coaster!rideVars
  <2>1. UNCHANGED vars => UNCHANGED Coaster!rideVars
    BY DEF vars, Coaster!rideVars, Phase, Aboard, At
  <2> QED
    BY <2>1, CarRides, PersonRides DEF Next
<1> QED
  BY <1>1, InitRides, InvariantHolds, PTL
     DEF SafeSpec, ImplementsRideSafety, Coaster!RideSafety
-----------------------------------------------------------------------------
(* Who can be left when nobody moves any more.  Two more invariants: what  *)
(* is in a pipe fits into it, and whoever has ridden did so in full trips. *)

Room ==
  /\ Len(available_places) <= PipeSize
  /\ Len(exit_permit) <= PipeSize
  /\ pers2car <= PipeSize
  /\ in_trip <= PipeSize

\* Those who have ridden, and those whose trip has just ended.
Ridden ==
  N("bye") + N("gone") + (IF carPc \in {"unload", "await_empty"} THEN N("board") + N("leave") ELSE 0)

FullTrips == \E trips \in Nat : Ridden = trips * Capacity

\* A write needs room, and a read makes some.
LEMMA RoomStep == TypeOK /\ Room /\ [Next]_vars => Room'
<1> SUFFICES ASSUME TypeOK, Room, [Next]_vars PROVE Room'
  OBVIOUS
<1> USE CarAssumption DEF TypeOK, Room
<1>1. CASE OfferPlace
  BY <1>1 DEF OfferPlace, Mark
<1>2. CASE PermitExit
  BY <1>2 DEF PermitExit, Mark
<1>3. CASE CarFull \/ StartTrip \/ CarEmpty
  BY <1>3 DEF CarFull, StartTrip, CarEmpty
<1>4. ASSUME NEW s \in Seq({0, 1}), s # <<>> PROVE Len(Tail(s)) <= Len(s)
  BY <1>4, HeadTailProperties
<1>5. ASSUME NEW p \in Persons, TakeSeat(p) PROVE Room'
  BY <1>4, <1>5 DEF TakeSeat
<1>6. ASSUME NEW p \in Persons, LeaveCar(p) PROVE Room'
  BY <1>4, <1>6 DEF LeaveCar
<1>7. ASSUME NEW p \in Persons, WakeCar(p) \/ EnterTrip(p) \/ ReleaseCar(p) PROVE Room'
  BY <1>7 DEF WakeCar, EnterTrip, ReleaseCar
<1>8. CASE ForkCar \/ ForkPerson \/ MainReturns \/ UNCHANGED vars
  BY <1>8 DEF ForkCar, ForkPerson, MainReturns, vars
<1> QED
  BY <1>1, <1>2, <1>3, <1>5, <1>6, <1>7, <1>8 DEF Next, CarNext, PersonNext

\* The end of a trip adds a full group, and nothing else adds or removes
\* anybody: who gets up is replaced by one who leaves or is gone.
LEMMA RiddenStep ==
  ASSUME IInv, [Next]_vars
  PROVE  Ridden' = Ridden \/ Ridden' = Ridden + Capacity
<1>1. /\ Counts /\ TypeOK
      /\ Capacity \in Nat \ {0} /\ i \in 0 .. Capacity - 1 /\ carPc \in CarPcs
      /\ pers2car \in Nat /\ in_trip \in Nat
      /\ Len(available_places) \in Nat /\ Len(exit_permit) \in Nat
      /\ N("wake") \in Nat /\ N("board") \in Nat /\ N("leave") \in Nat /\ N("bye") \in Nat
      /\ N("gone") \in Nat
  BY AtFinite, CarAssumption DEF IInv, TypeOK
<1>2. ASSUME pc' = pc
      PROVE  /\ N("board")' = N("board") /\ N("leave")' = N("leave")
             /\ N("bye")' = N("bye") /\ N("gone")' = N("gone")
  BY <1>2 DEF N, At
<1>3. CASE ForkCar \/ MainReturns \/ OfferPlace \/ CarFull \/ PermitExit \/ UNCHANGED vars
  <2>1. pc' = pc
    BY <1>3 DEF ForkCar, MainReturns, OfferPlace, CarFull, PermitExit, vars
  <2>2. carPc \in {"unload", "await_empty"} <=> carPc' \in {"unload", "await_empty"}
    BY <1>3 DEF ForkCar, MainReturns, OfferPlace, CarFull, PermitExit, vars, Turn, IInv
  <2> QED
    BY <1>2, <2>1, <2>2 DEF Ridden
<1>4. CASE StartTrip
  <2>1. pc' = pc /\ carPc = "start" /\ carPc' \in {"start", "unload"}
    BY <1>4 DEF StartTrip, Turn
  <2>2. N("board") + N("leave") = Capacity
    BY <1>1, <2>1 DEF Counts
  <2> QED
    BY <1>1, <1>2, <2>1, <2>2 DEF Ridden
<1>5. CASE CarEmpty
  <2>1. pc' = pc /\ carPc = "await_empty" /\ carPc' = "load" /\ pers2car > 0
    BY <1>5 DEF CarEmpty
  <2>2. N("board") + N("leave") = 0
    BY <1>1, <2>1 DEF Counts
  <2> QED
    BY <1>1, <1>2, <2>1, <2>2 DEF Ridden
<1>6. CASE ForkPerson
  <2>1. carPc' = carPc /\ person_no + 1 \in Persons /\ pc[person_no + 1] = "unborn"
    BY <1>6, CarAssumption DEF ForkPerson, Persons, IInv, TypeOK
  <2>2. \A s : s \notin {"seat", "unborn"} => N(s)' = N(s)
    <3>1. CASE pc' = [pc EXCEPT ![person_no + 1] = "seat"]
      <4>1. Moves(person_no + 1, "unborn", "seat")
        BY <2>1, <3>1 DEF Moves
      <4> QED
        BY <1>1, <2>1, <4>1, Move
    <3>2. CASE pc' = [pc EXCEPT ![person_no + 1] = "unborn"]
      BY <1>1, <2>1, <3>2 DEF N, At, TypeOK
    <3> QED
      BY <1>6, <3>1, <3>2 DEF ForkPerson
  <2> QED
    BY <2>1, <2>2 DEF Ridden
<1>7. ASSUME NEW p \in Persons, PersonNext(p) PROVE Ridden' = Ridden
  <2>1. carPc' = carPc
    BY <1>7 DEF PersonNext, TakeSeat, WakeCar, EnterTrip, LeaveCar, ReleaseCar
  <2>2. CASE TakeSeat(p)
    <3>1. \E b \in {"wake", "board"} : Moves(p, "seat", b)
      BY <2>2 DEF TakeSeat, Moves
    <3>2. carPc \in {"load", "await_full"}
      BY <2>2, SeatsFit DEF TakeSeat
    <3>3. N("bye")' = N("bye") /\ N("gone")' = N("gone")
      BY <1>1, <3>1, Move
    <3> QED
      BY <2>1, <3>2, <3>3 DEF Ridden
  <2>3. CASE WakeCar(p)
    <3>1. Moves(p, "wake", "board")
      BY <2>3 DEF WakeCar, Moves
    <3>2. N("wake") > 0 /\ N("bye")' = N("bye") /\ N("gone")' = N("gone")
      BY <1>1, <3>1, Move
    <3>3. carPc \notin {"unload", "await_empty"}
      BY <1>1, <3>2 DEF Counts
    <3> QED
      BY <2>1, <3>2, <3>3 DEF Ridden
  <2>4. CASE EnterTrip(p)
    <3>1. Moves(p, "board", "leave")
      BY <2>4 DEF EnterTrip, Moves
    <3>2. /\ N("bye")' = N("bye") /\ N("gone")' = N("gone")
          /\ N("board")' = N("board") - 1 /\ N("leave")' = N("leave") + 1
      BY <1>1, <3>1, Move
    <3> QED
      BY <1>1, <2>1, <3>2 DEF Ridden
  <2>5. CASE LeaveCar(p)
    <3>1. carPc \in {"unload", "await_empty"}
      BY <2>5, SeatsFit DEF LeaveCar
    <3>2. CASE Moves(p, "leave", "bye")
      <4>1. /\ N("bye")' = N("bye") + 1 /\ N("gone")' = N("gone")
            /\ N("board")' = N("board") /\ N("leave")' = N("leave") - 1
        BY <1>1, <3>2, Move
      <4> QED
        BY <1>1, <2>1, <3>1, <4>1 DEF Ridden
    <3>3. CASE Moves(p, "leave", "gone")
      <4>1. /\ N("bye")' = N("bye") /\ N("gone")' = N("gone") + 1
            /\ N("board")' = N("board") /\ N("leave")' = N("leave") - 1
        BY <1>1, <3>3, Move
      <4> QED
        BY <1>1, <2>1, <3>1, <4>1 DEF Ridden
    <3> QED
      BY <2>5, <3>2, <3>3 DEF LeaveCar, Moves
  <2>6. CASE ReleaseCar(p)
    <3>1. Moves(p, "bye", "gone")
      BY <2>6 DEF ReleaseCar, Moves
    <3>2. /\ N("bye")' = N("bye") - 1 /\ N("gone")' = N("gone") + 1
          /\ N("board")' = N("board") /\ N("leave")' = N("leave")
      BY <1>1, <3>1, Move
    <3> QED
      BY <1>1, <2>1, <3>2 DEF Ridden
  <2> QED
    BY <1>7, <2>2, <2>3, <2>4, <2>5, <2>6 DEF PersonNext
<1> QED
  BY <1>3, <1>4, <1>5, <1>6, <1>7 DEF Next, CarNext

\* A group of Capacity more is one more trip.
LEMMA FullTripsStep == IInv /\ FullTrips /\ [Next]_vars => FullTrips'
<1> SUFFICES ASSUME IInv, FullTrips, [Next]_vars PROVE FullTrips'
  OBVIOUS
<1>1. PICK trips \in Nat : Ridden = trips * Capacity
  BY DEF FullTrips
<1>2. Capacity \in Nat
  BY CarAssumption
<1>3. trips * Capacity + Capacity = (trips + 1) * Capacity
  BY <1>2
<1>4. Ridden' = trips * Capacity \/ Ridden' = (trips + 1) * Capacity
  BY <1>1, <1>3, RiddenStep
<1> QED
  BY <1>4 DEF FullTrips

\* Where no call returns: seats are on offer, and nobody is anywhere but in a
\* seat, or gone, or not yet born.
LEMMA NobodyMoves ==
  ASSUME IInv, Room, AllWait
  PROVE  /\ carPc = "await_full" \/ (carPc = "load" /\ Len(available_places) = PipeSize)
         /\ available_places # <<>>
         /\ At("seat") = {}
         /\ N("wake") = 0 /\ N("leave") = 0 /\ N("bye") = 0 /\ N("board") < Capacity
         /\ pers2car = 0 /\ in_trip = 0 /\ exit_permit = <<>>
<1>1. /\ Counts /\ TypeOK
      /\ Capacity \in Nat \ {0} /\ PipeSize \in Nat \ {0}
      /\ i \in 0 .. Capacity - 1 /\ carPc \in CarPcs
      /\ pers2car \in Nat /\ in_trip \in Nat
      /\ Len(available_places) \in Nat /\ Len(exit_permit) \in Nat
      /\ N("wake") \in Nat /\ N("board") \in Nat /\ N("leave") \in Nat /\ N("bye") \in Nat
  BY AtFinite, CarAssumption DEF IInv, TypeOK
<1>2. /\ Len(available_places) = 0 <=> available_places = <<>>
      /\ Len(exit_permit) = 0 <=> exit_permit = <<>>
  BY <1>1, EmptySeq DEF TypeOK
<1>3. ASSUME NEW s, s \in {"seat", "wake", "board", "leave", "bye"}, N(s) > 0
      PROVE  /\ s = "seat" => Len(available_places) = 0
             /\ s \in {"wake", "bye"} => pers2car >= PipeSize
             /\ s = "board" => in_trip = 0
             /\ s = "leave" => Len(exit_permit) = 0
  <2>1. At(s) # {}
    BY <1>3, FS_EmptySet DEF N
  <2>2. PICK p \in Persons : pc[p] = s
    BY <2>1 DEF At
  <2>3. PersonWaits(p)
    BY DEF AllWait
  <2> QED
    BY <1>1, <1>2, <1>3, <2>2, <2>3 DEF PersonWaits
<1>4. /\ N("wake") > 0 => pers2car >= PipeSize
      /\ N("bye") > 0 => pers2car >= PipeSize
      /\ N("board") > 0 => in_trip = 0
      /\ N("leave") > 0 => Len(exit_permit) = 0
  BY <1>3
<1>5. CarWaits
  BY DEF AllWait
<1>6. carPc # "start"
  <2> SUFFICES ASSUME carPc = "start" PROVE FALSE
    OBVIOUS
  <2>1. in_trip >= PipeSize /\ N("board") + N("leave") = Capacity /\ in_trip + N("leave") = i
    BY <1>1, <1>5 DEF CarWaits, Counts
  <2> QED
    BY <1>1, <1>4, <2>1
<1>7. carPc # "unload"
  <2> SUFFICES ASSUME carPc = "unload" PROVE FALSE
    OBVIOUS
  <2>1. /\ Len(exit_permit) >= PipeSize /\ in_trip = N("board")
        /\ N("board") + N("leave") + i = Capacity + Len(exit_permit)
    BY <1>1, <1>5 DEF CarWaits, Counts
  <2> QED
    BY <1>1, <1>4, <2>1
<1>8. carPc # "await_empty"
  <2> SUFFICES ASSUME carPc = "await_empty" PROVE FALSE
    OBVIOUS
  <2>1. /\ pers2car = 0 /\ in_trip = N("board")
        /\ N("board") + N("leave") = Len(exit_permit)
        /\ Len(exit_permit) = 0 => N("bye") + pers2car = 1
    BY <1>1, <1>5 DEF CarWaits, Counts
  <2> QED
    BY <1>1, <1>4, <2>1
<1>9. CASE carPc = "load"
  <2>1. /\ Len(available_places) >= PipeSize /\ Len(available_places) + N("board") = i
        /\ Len(exit_permit) = 0 /\ pers2car = 0 /\ in_trip = 0
        /\ N("wake") = 0 /\ N("leave") = 0 /\ N("bye") = 0
    BY <1>1, <1>5, <1>9 DEF CarWaits, Counts
  <2>2. Len(available_places) = PipeSize
    BY <1>1, <2>1 DEF Room
  <2>3. At("seat") = {}
    BY <1>1, <1>3, <2>2, AtFinite, FS_EmptySet DEF N
  <2> QED
    BY <1>1, <1>2, <1>9, <2>1, <2>2, <2>3
<1>10. CASE carPc = "await_full"
  <2>1. /\ pers2car = 0
        /\ Len(available_places) + N("wake") + N("board") = Capacity
        /\ Len(available_places) = 0 => N("wake") + pers2car = 1
        /\ Len(exit_permit) = 0 /\ in_trip = 0 /\ N("leave") = 0 /\ N("bye") = 0
    BY <1>1, <1>5, <1>10 DEF CarWaits, Counts
  <2>2. N("wake") = 0 /\ Len(available_places) > 0
    BY <1>1, <1>4, <2>1
  <2>3. At("seat") = {}
    BY <1>1, <1>3, <2>2, AtFinite, FS_EmptySet DEF N
  <2> QED
    BY <1>1, <1>2, <1>10, <2>1, <2>2, <2>3
<1> QED
  BY <1>1, <1>5, <1>6, <1>7, <1>8, <1>9, <1>10 DEF CarPcs, CarWaits

\* For any number of persons, seats and pipe bytes: when no process can move,
\* the car waits for a group that is short, the persons left over from full
\* trips are all in it, and everybody else has ridden and gone.
THEOREM NobodyStrandedAlways == SafeSpec => []NobodyStranded
<1>1. Init => Room /\ FullTrips
  <2> SUFFICES ASSUME Init PROVE Room /\ FullTrips
    OBVIOUS
  <2>1. Room
    BY CarAssumption DEF Init, Room
  <2>2. N("bye") = 0 /\ N("gone") = 0
    BY FS_EmptySet DEF Init, N, At
  <2>3. Ridden = 0 * Capacity
    BY <2>2, CarAssumption DEF Init, Ridden
  <2> QED
    BY <2>1, <2>3 DEF FullTrips
<1>2. IInv /\ Room /\ FullTrips => NobodyStranded
  <2> SUFFICES ASSUME IInv, Room, FullTrips, AllWait
               PROVE  Cardinality(Aboard) = Cardinality(Persons \ At("unborn")) % Capacity
    BY NobodyMoves DEF NobodyStranded
  <2>1. /\ carPc \in {"load", "await_full"} /\ At("seat") = {}
        /\ N("wake") = 0 /\ N("leave") = 0 /\ N("bye") = 0 /\ N("board") < Capacity
    BY NobodyMoves
  <2>2. N("board") \in Nat /\ N("gone") \in Nat /\ Capacity \in Nat \ {0}
    BY AtFinite, CarAssumption
  <2>3. Cardinality(Aboard) = N("board")
    BY <2>1, <2>2, AboardCount
  <2>4. PICK trips \in Nat : N("gone") = trips * Capacity
    BY <2>1, <2>2 DEF FullTrips, Ridden
  <2>5. At("wake") = {} /\ At("leave") = {} /\ At("bye") = {}
    BY <2>1, AtFinite, FS_EmptySet DEF N
  <2>6. Persons \ At("unborn") = At("board") \union At("gone") /\ At("board") \cap At("gone") = {}
    BY <2>1, <2>5 DEF At, IInv, TypeOK, PersonPcs
  <2>7. Cardinality(Persons \ At("unborn")) = N("board") + N("gone")
    <3>1. IsFiniteSet(At("board")) /\ IsFiniteSet(At("gone"))
      BY AtFinite
    <3>2. Cardinality(At("board") \union At("gone"))
            = Cardinality(At("board")) + Cardinality(At("gone")) - Cardinality({})
      BY <2>6, <3>1, FS_Union
    <3> QED
      BY <2>2, <2>6, <3>2, FS_EmptySet DEF N
  <2>8. ASSUME NEW q \in Nat, NEW b \in Nat, NEW c \in Nat \ {0}, b < c
        PROVE  (b + q * c) % c = b
    BY <2>8
  <2> QED
    BY <2>1, <2>2, <2>3, <2>4, <2>7, <2>8
<1>3. Room /\ IInv /\ [Next]_vars => Room'
  BY RoomStep DEF IInv
<1>4. SafeSpec => [](Room /\ FullTrips)
  BY <1>1, <1>3, FullTripsStep, InvariantHolds, PTL DEF SafeSpec
<1> QED
  BY <1>2, <1>4, InvariantHolds, PTL
=============================================================================
