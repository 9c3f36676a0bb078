---------------------------- MODULE DoctorProofs ----------------------------
(***************************************************************************)
(* Theorems about module Doctor, for any number of patients and of polls.  *)
(***************************************************************************)
EXTENDS Doctor, FiniteSetTheorems, SequenceTheorems, TLAPS

-----------------------------------------------------------------------------
(* The inductive invariant.                                                *)

\* Patient p has read an answer and not yet unfrozen its writer.
Holds(p) == Inside(p, {"cont"})

\* An answer that has been read is like one that lies in the pipe, and is not
\* there any more; two patients never hold the same one.
AnswersHeld ==
  /\ \A p \in Patients : Holds(p) =>
       /\ next_process[p] # Nobody /\ Outstanding(next_process[p])
       /\ \A k \in DOMAIN latest_pid : latest_pid[k] # next_process[p]
  /\ \A p, q \in Patients : p # q /\ Holds(p) /\ Holds(q) => next_process[p] # next_process[q]

\* Whoever waits behind somebody knows whom it waits for, and does not believe
\* to be the first before that one has been reaped.
BehindSomebody ==
  \A p \in Patients : pc[p] = "behind" =>
    /\ next_process[p] # Nobody
    /\ is_first[p] => pc[next_process[p]] = "reaped"

\* A patient does not leave its search from within the poll.
PollsInSearch == \A p \in Patients : Inside(p, {"read"}) => pc[p] \in {"reset", "search"}

IInv ==
  /\ TypeOK
  /\ AnswersOutstanding /\ AnswersHeld
  /\ BehindSomebody /\ PollsInSearch /\ FirstAfterPredecessor

-----------------------------------------------------------------------------
(* The handlers that a patient is inside.                                  *)

\* A handler that interrupts another one.
LEMMA PairIsConcat ==
  ASSUME NEW T, NEW a \in T, NEW b \in T
  PROVE  <<a>> \o <<b>> = <<a, b>>
<1> DEFINE c == <<a>> \o <<b>>
<1>1. c \in Seq(T) /\ Len(c) = 2 /\ c[1] = a /\ c[2] = b
  OBVIOUS
<1>2. <<a, b>> \in Seq(T) /\ Len(<<a, b>>) = 2
  OBVIOUS
<1> HIDE DEF c
<1>3. \A i \in 1 .. 2 : c[i] = <<a, b>>[i]
  BY <1>1
<1>4. c = <<a, b>>
  BY <1>1, <1>2, <1>3, SeqEqual
<1> QED
  BY <1>4 DEF c

Handlers == Answering \union Polling

\* Nothing happens to the handlers of another patient.
OthersInside(p) == \A q \in Patients : \A h : q # p => (Inside(q, {h})' <=> Inside(q, {h}))

LEMMA StackCases ==
  ASSUME NEW f \in Stacks
  PROVE  \/ f = <<>> \/ \E a \in Handlers : f = <<a>>
         \/ \E a, b \in Handlers : f = <<a, b>> /\ (a \in Answering <=> b \in Polling)
BY DEF Stacks, Handlers, Answering, Polling

\* The stacks by their two halves.
LEMMA StackForms ==
  ASSUME NEW a \in Handlers
  PROVE  /\ <<>> \in Stacks /\ <<a>> \in Stacks
         /\ \A b \in Handlers : (a \in Answering <=> b \in Polling) => <<a, b>> \in Stacks
<1>1. <<>> \in Stacks /\ <<a>> \in Stacks
  BY DEF Stacks, Handlers
<1>2. ASSUME NEW b \in Handlers, a \in Answering <=> b \in Polling PROVE <<a, b>> \in Stacks
  <2>1. (a \in Answering /\ b \in Polling) \/ (a \in Polling /\ b \in Answering)
    BY <1>2 DEF Handlers
  <2> QED
    BY <2>1 DEF Stacks
<1> QED
  BY <1>1, <1>2

\* The two handlers have no step in common.
LEMMA HandlersDisjoint ==
  ASSUME NEW a \in Handlers
  PROVE  a \in Answering <=> a \notin Polling
BY DEF Handlers, Answering, Polling

\* What Inside says of a stack.
LEMMA InsideCases ==
  ASSUME NEW p, NEW steps
  PROVE  /\ frames[p] = <<>> => ~Inside(p, steps)
         /\ \A a : frames[p] = <<a>> => (Inside(p, steps) <=> a \in steps)
         /\ \A a, b : frames[p] = <<a, b>> => (Inside(p, steps) <=> a \in steps \/ b \in steps)
BY DEF Inside

LEMMA InsideCasesPrime ==
  ASSUME NEW p, NEW h
  PROVE  /\ frames'[p] = <<>> => ~Inside(p, {h})'
         /\ \A a : frames'[p] = <<a>> => (Inside(p, {h})' <=> a = h)
         /\ \A a, b : frames'[p] = <<a, b>> => (Inside(p, {h})' <=> a = h \/ b = h)
BY DEF Inside

LEMMA StackChanges ==
  ASSUME TypeOK, NEW p \in Patients, NEW f \in Stacks, frames' = [frames EXCEPT ![p] = f]
  PROVE  frames' \in [Patients -> Stacks] /\ frames'[p] = f /\ OthersInside(p)
BY DEF TypeOK, OthersInside, Inside

\* A handler is entered that the patient is not in.
LEMMA EnterAdds ==
  ASSUME TypeOK, NEW p \in Patients, NEW step \in Handlers, Enter(p, step),
         step \in Answering => ~Inside(p, Answering),
         step \in Polling => ~Inside(p, Polling)
  PROVE  /\ frames' \in [Patients -> Stacks]
         /\ \A h : Inside(p, {h})' <=> Inside(p, {h}) \/ h = step
         /\ OthersInside(p)
<1> DEFINE f == <<step>> \o frames[p]
<1>1. frames' = [frames EXCEPT ![p] = f]
  BY DEF Enter
<1>2. frames[p] \in Stacks
  BY DEF TypeOK
<1>3. \/ frames[p] = <<>>
      \/ \E a \in Handlers : frames[p] = <<a>> /\ (step \in Answering <=> a \in Polling)
  <2>1. CASE \E a \in Handlers : frames[p] = <<a>>
    <3>1. PICK a \in Handlers : frames[p] = <<a>>
      BY <2>1
    <3>2. /\ Inside(p, Answering) <=> a \in Answering
          /\ Inside(p, Polling) <=> a \in Polling
      BY <3>1, InsideCases
    <3> QED
      BY <3>1, <3>2, HandlersDisjoint
  <2>2. CASE \E a, b \in Handlers : frames[p] = <<a, b>> /\ (a \in Answering <=> b \in Polling)
    <3>1. PICK a \in Handlers, b \in Handlers : frames[p] = <<a, b>> /\ (a \in Answering <=> b \in Polling)
      BY <2>2
    <3>2. Inside(p, Answering) /\ Inside(p, Polling)
      BY <3>1, InsideCases, HandlersDisjoint
    <3> QED
      BY <3>2, HandlersDisjoint
  <2> QED
    BY <1>2, <2>1, <2>2, StackCases
<1>4. CASE frames[p] = <<>>
  <2>1. f = <<step>> /\ f \in Stacks
    BY <1>4, StackForms
  <2> HIDE DEF f
  <2>2. frames' \in [Patients -> Stacks] /\ frames'[p] = <<step>> /\ OthersInside(p)
    BY <1>1, <2>1, StackChanges
  <2> QED
    BY <1>4, <2>2, InsideCases, InsideCasesPrime
<1>5. ASSUME NEW a \in Handlers, frames[p] = <<a>>, step \in Answering <=> a \in Polling
      PROVE  /\ frames' \in [Patients -> Stacks] /\ OthersInside(p)
             /\ \A h : Inside(p, {h})' <=> Inside(p, {h}) \/ h = step
  <2>1. f = <<step, a>>
    BY <1>5, PairIsConcat
  <2>2. f \in Stacks
    BY <1>5, <2>1, StackForms
  <2> HIDE DEF f
  <2>3. frames' \in [Patients -> Stacks] /\ frames'[p] = <<step, a>> /\ OthersInside(p)
    BY <1>1, <2>1, <2>2, StackChanges
  <2>4. ASSUME NEW h PROVE Inside(p, {h})' <=> Inside(p, {h}) \/ h = step
    <3>1. Inside(p, {h})' <=> step = h \/ a = h
      BY <2>3, InsideCasesPrime
    <3>2. Inside(p, {h}) <=> a = h
      BY <1>5, InsideCases
    <3> QED
      BY <3>1, <3>2
  <2> QED
    BY <2>3, <2>4
<1> QED
  BY <1>3, <1>4, <1>5

\* What is below the innermost handler.
LEMMA TopCases ==
  ASSUME TypeOK, NEW p \in Patients, NEW step \in Handlers, Top(p, step)
  PROVE  /\ Inside(p, {step})
         /\ \/ frames[p] = <<step>>
            \/ \E b \in Handlers : frames[p] = <<step, b>> /\ (step \in Answering <=> b \in Polling)
<1>1. frames[p] \in Stacks /\ frames[p] # <<>> /\ Head(frames[p]) = step
  BY DEF TypeOK, Top
<1>2. CASE \E a \in Handlers : frames[p] = <<a>>
  BY <1>1, <1>2, InsideCases
<1>3. CASE \E a, b \in Handlers : frames[p] = <<a, b>> /\ (a \in Answering <=> b \in Polling)
  <2>1. PICK a \in Handlers, b \in Handlers : frames[p] = <<a, b>> /\ (a \in Answering <=> b \in Polling)
    BY <1>3
  <2>2. a = step
    BY <1>1, <2>1
  <2> QED
    BY <2>1, <2>2, InsideCases
<1> QED
  BY <1>1, <1>2, <1>3, StackCases

\* The innermost handler ends.
LEMMA EndRemoves ==
  ASSUME TypeOK, NEW p \in Patients, NEW step \in Handlers, Top(p, step), Then(p, <<>>)
  PROVE  /\ frames' \in [Patients -> Stacks]
         /\ \A h : Inside(p, {h})' <=> Inside(p, {h}) /\ h # step
         /\ OthersInside(p)
<1> DEFINE f == <<>> \o Tail(frames[p])
<1>1. frames' = [frames EXCEPT ![p] = f]
  BY DEF Then
<1>2. CASE frames[p] = <<step>>
  <2>1. f = <<>> /\ f \in Stacks
    BY <1>2 DEF Stacks
  <2> HIDE DEF f
  <2>2. frames' \in [Patients -> Stacks] /\ frames'[p] = <<>> /\ OthersInside(p)
    BY <1>1, <2>1, StackChanges
  <2>3. ASSUME NEW h PROVE Inside(p, {h})' <=> Inside(p, {h}) /\ h # step
    <3>1. ~Inside(p, {h})'
      BY <2>2, InsideCasesPrime
    <3>2. Inside(p, {h}) <=> step = h
      BY <1>2, InsideCases
    <3> QED
      BY <3>1, <3>2
  <2> QED
    BY <2>2, <2>3
<1>3. ASSUME NEW b \in Handlers, frames[p] = <<step, b>>, step \in Answering <=> b \in Polling
      PROVE  /\ frames' \in [Patients -> Stacks] /\ OthersInside(p)
             /\ \A h : Inside(p, {h})' <=> Inside(p, {h}) /\ h # step
  <2>1. f = <<b>>
    BY <1>3
  <2>2. f \in Stacks /\ b # step
    BY <1>3, <2>1, StackForms, HandlersDisjoint
  <2> HIDE DEF f
  <2>3. frames' \in [Patients -> Stacks] /\ frames'[p] = <<b>> /\ OthersInside(p)
    BY <1>1, <2>1, <2>2, StackChanges
  <2>4. ASSUME NEW h PROVE Inside(p, {h})' <=> Inside(p, {h}) /\ h # step
    <3>1. Inside(p, {h})' <=> b = h
      BY <2>3, InsideCasesPrime
    <3>2. Inside(p, {h}) <=> step = h \/ b = h
      BY <1>3, InsideCases
    <3> QED
      BY <2>2, <3>1, <3>2
  <2> QED
    BY <2>3, <2>4
<1> QED
  BY <1>2, <1>3, TopCases

\* The innermost handler goes on to its next step.
LEMMA GoesOn ==
  ASSUME TypeOK, NEW p \in Patients, NEW step \in Handlers, NEW next \in Handlers,
         step \in Answering <=> next \in Answering, step # next,
         Top(p, step), Then(p, <<next>>)
  PROVE  /\ frames' \in [Patients -> Stacks]
         /\ \A h : Inside(p, {h})' <=> (Inside(p, {h}) /\ h # step) \/ h = next
         /\ OthersInside(p)
<1> DEFINE f == <<next>> \o Tail(frames[p])
<1>1. frames' = [frames EXCEPT ![p] = f]
  BY DEF Then
<1>2. CASE frames[p] = <<step>>
  <2>1. f = <<next>> /\ f \in Stacks
    BY <1>2, StackForms
  <2> HIDE DEF f
  <2>2. frames' \in [Patients -> Stacks] /\ frames'[p] = <<next>> /\ OthersInside(p)
    BY <1>1, <2>1, StackChanges
  <2>3. ASSUME NEW h PROVE Inside(p, {h})' <=> (Inside(p, {h}) /\ h # step) \/ h = next
    <3>1. Inside(p, {h})' <=> next = h
      BY <2>2, InsideCasesPrime
    <3>2. Inside(p, {h}) <=> step = h
      BY <1>2, InsideCases
    <3> QED
      BY <3>1, <3>2
  <2> QED
    BY <2>2, <2>3
<1>3. ASSUME NEW b \in Handlers, frames[p] = <<step, b>>, step \in Answering <=> b \in Polling
      PROVE  /\ frames' \in [Patients -> Stacks] /\ OthersInside(p)
             /\ \A h : Inside(p, {h})' <=> (Inside(p, {h}) /\ h # step) \/ h = next
  <2>1. Tail(frames[p]) = <<b>>
    BY <1>3
  <2>2. f = <<next, b>>
    BY <2>1, PairIsConcat
  <2>3. f \in Stacks /\ b # step
    BY <1>3, <2>2, StackForms, HandlersDisjoint
  <2> HIDE DEF f
  <2>4. frames' \in [Patients -> Stacks] /\ frames'[p] = <<next, b>> /\ OthersInside(p)
    BY <1>1, <2>2, <2>3, StackChanges
  <2>5. ASSUME NEW h PROVE Inside(p, {h})' <=> (Inside(p, {h}) /\ h # step) \/ h = next
    <3>1. Inside(p, {h})' <=> next = h \/ b = h
      BY <2>4, InsideCasesPrime
    <3>2. Inside(p, {h}) <=> step = h \/ b = h
      BY <1>3, InsideCases
    <3> QED
      BY <2>3, <3>1, <3>2
  <2> QED
    BY <2>4, <2>5
<1> QED
  BY <1>2, <1>3, TopCases

\* What each step of a handler does to the handlers.
LEMMA HandlerSteps ==
  ASSUME TypeOK, NEW p \in Patients
  PROVE  /\ CheckIfLatest(p) => /\ frames' \in [Patients -> Stacks] /\ OthersInside(p)
                                /\ \A h : h # "answer" => (Inside(p, {h})' <=> Inside(p, {h}))
         /\ WritePid(p) => /\ frames' \in [Patients -> Stacks] /\ OthersInside(p)
                           /\ Inside(p, {"answer"}) /\ Inside(p, {"stop"})'
                           /\ \A h \in Polling : Inside(p, {h})' <=> Inside(p, {h})
         /\ Freeze(p) => /\ frames' \in [Patients -> Stacks] /\ OthersInside(p)
                         /\ \A h \in Polling : Inside(p, {h})' <=> Inside(p, {h})
         /\ NotLatest(p) => /\ frames' \in [Patients -> Stacks] /\ OthersInside(p)
                            /\ \A h : h # "clear" => (Inside(p, {h})' <=> Inside(p, {h}))
         /\ CheckForAnswer(p) => /\ frames' \in [Patients -> Stacks] /\ OthersInside(p)
                                 /\ \A h : h # "read" => (Inside(p, {h})' <=> Inside(p, {h}))
         /\ ReadAnswer(p) => /\ frames' \in [Patients -> Stacks] /\ OthersInside(p)
                             /\ Inside(p, {"read"}) /\ ~Inside(p, {"read"})'
                             /\ Inside(p, {"stop"})' <=> Inside(p, {"stop"})
                             /\ latest_pid = <<>> => (Inside(p, {"cont"})' <=> Inside(p, {"cont"}))
         /\ Unfreeze(p) => /\ frames' \in [Patients -> Stacks] /\ OthersInside(p)
                           /\ Inside(p, {"cont"}) /\ ~Inside(p, {"cont"})'
                           /\ \A h : h # "cont" => (Inside(p, {h})' <=> Inside(p, {h}))
<1>1. /\ {"answer", "stop", "clear"} \subseteq Handlers /\ {"read", "cont"} \subseteq Handlers
      /\ {"answer", "stop", "clear"} \subseteq Answering /\ {"read", "cont"} \subseteq Polling
      /\ "read" \notin Answering /\ "cont" \notin Answering
      /\ \A h \in Polling : h # "answer" /\ h # "stop" /\ h # "clear"
      /\ "answer" \notin Polling
  BY DEF Handlers, Answering, Polling
<1>2. frames \in [Patients -> Stacks]
  BY DEF TypeOK
<1>3. frames' = frames => frames' \in [Patients -> Stacks] /\ OthersInside(p) /\ \A h : Inside(p, {h})' <=> Inside(p, {h})
  BY <1>2 DEF OthersInside, Inside
<1>4. ASSUME CheckIfLatest(p)
      PROVE  /\ frames' \in [Patients -> Stacks] /\ OthersInside(p)
             /\ \A h : h # "answer" => (Inside(p, {h})' <=> Inside(p, {h}))
  <2>1. ~Inside(p, Answering) /\ (Enter(p, "answer") \/ frames' = frames)
    BY <1>4 DEF CheckIfLatest
  <2> QED
    BY <1>1, <1>3, <2>1, EnterAdds
<1>5. ASSUME WritePid(p)
      PROVE  /\ frames' \in [Patients -> Stacks] /\ OthersInside(p)
             /\ Inside(p, {"answer"}) /\ Inside(p, {"stop"})'
             /\ \A h \in Polling : Inside(p, {h})' <=> Inside(p, {h})
  <2>1. Top(p, "answer") /\ Then(p, <<"stop">>)
    BY <1>5 DEF WritePid
  <2>2. Inside(p, {"answer"})
    BY <1>1, <2>1, TopCases
  <2> QED
    BY <1>1, <2>1, <2>2, GoesOn
<1>6. ASSUME Freeze(p)
      PROVE  /\ frames' \in [Patients -> Stacks] /\ OthersInside(p)
             /\ \A h \in Polling : Inside(p, {h})' <=> Inside(p, {h})
  <2>1. Top(p, "stop") /\ Then(p, <<"clear">>)
    BY <1>6 DEF Freeze
  <2> QED
    BY <1>1, <2>1, GoesOn
<1>7. ASSUME NotLatest(p)
      PROVE  /\ frames' \in [Patients -> Stacks] /\ OthersInside(p)
             /\ \A h : h # "clear" => (Inside(p, {h})' <=> Inside(p, {h}))
  <2>1. Top(p, "clear") /\ Then(p, <<>>)
    BY <1>7 DEF NotLatest
  <2> QED
    BY <1>1, <2>1, EndRemoves
<1>8. ASSUME CheckForAnswer(p)
      PROVE  /\ frames' \in [Patients -> Stacks] /\ OthersInside(p)
             /\ \A h : h # "read" => (Inside(p, {h})' <=> Inside(p, {h}))
  <2>1. ~Inside(p, Polling) /\ Enter(p, "read")
    BY <1>8 DEF CheckForAnswer, Rings
  <2> QED
    BY <1>1, <2>1, EnterAdds
<1>9. ASSUME ReadAnswer(p)
      PROVE  /\ frames' \in [Patients -> Stacks] /\ OthersInside(p)
             /\ Inside(p, {"read"}) /\ ~Inside(p, {"read"})'
             /\ Inside(p, {"stop"})' <=> Inside(p, {"stop"})
             /\ latest_pid = <<>> => (Inside(p, {"cont"})' <=> Inside(p, {"cont"}))
  <2>1. Top(p, "read") /\ (IF latest_pid = <<>> THEN Then(p, <<>>) ELSE Then(p, <<"cont">>))
    BY <1>9 DEF ReadAnswer
  <2>2. Inside(p, {"read"})
    BY <1>1, <2>1, TopCases
  <2>3. CASE latest_pid = <<>>
    BY <1>1, <2>1, <2>2, <2>3, EndRemoves
  <2>4. CASE latest_pid # <<>>
    BY <1>1, <2>1, <2>2, <2>4, GoesOn
  <2> QED
    BY <2>3, <2>4
<1>10. ASSUME Unfreeze(p)
       PROVE  /\ frames' \in [Patients -> Stacks] /\ OthersInside(p)
              /\ Inside(p, {"cont"}) /\ ~Inside(p, {"cont"})'
              /\ \A h : h # "cont" => (Inside(p, {h})' <=> Inside(p, {h}))
  <2>1. Top(p, "cont") /\ Then(p, <<>>)
    BY <1>10 DEF Unfreeze
  <2>2. Inside(p, {"cont"})
    BY <1>1, <2>1, TopCases
  <2> QED
    BY <1>1, <2>1, <2>2, EndRemoves
<1> QED
  BY <1>4, <1>5, <1>6, <1>7, <1>8, <1>9, <1>10

\* Whoever is about to answer has no answer out.
LEMMA AnswererClear ==
  ASSUME TypeOK, NEW p \in Patients, Top(p, "answer")
  PROVE  ~Outstanding(p)
<1>1. /\ "answer" \in Handlers /\ "answer" \in Answering /\ "stop" \notin Polling /\ "answer" # "stop"
  BY DEF Handlers, Answering, Polling
<1>2. CASE frames[p] = <<"answer">>
  <2>1. ~Inside(p, {"stop"})
    BY <1>1, <1>2, InsideCases
  <2> QED
    BY <2>1 DEF Outstanding, Top, Alive
<1>3. ASSUME NEW b \in Polling, frames[p] = <<"answer", b>> PROVE ~Outstanding(p)
  <2>1. ~Inside(p, {"stop"})
    <3>1. Inside(p, {"stop"}) <=> "answer" = "stop" \/ b = "stop"
      BY <1>3, InsideCases
    <3> QED
      BY <1>1, <1>3, <3>1
  <2> QED
    BY <2>1 DEF Outstanding, Top, Alive
<1> QED
  BY <1>1, <1>2, <1>3, TopCases

-----------------------------------------------------------------------------
(* Types.                                                                  *)

LEMMA InitTypeOK == Init => TypeOK
<1>1. Init => 0 \in 0 .. Cardinality(Patients)
  BY DoctorAssumption, FS_CardinalityType
<1>2. <<>> \in Stacks /\ 0 \in 0 .. Calls /\ "unborn" \in Places
  BY DoctorAssumption DEF Stacks, Places
<1> SUFFICES ASSUME Init PROVE TypeOK
  OBVIOUS
<1>3. patient_no \in 0 .. Cardinality(Patients) /\ chld \in BOOLEAN /\ handler \in {"idle", "wait"}
  BY <1>1 DEF Init
<1>4. /\ pc \in [Patients -> Places] /\ frames \in [Patients -> Stacks]
      /\ next_process \in [Patients -> Patients \union {Nobody}]
  BY <1>2 DEF Init
<1>5. num_called \in [Patients -> 0 .. Calls] /\ latest_pid \in Seq(Patients)
  BY <1>2 DEF Init
<1>6. /\ usr1 \in [Patients -> BOOLEAN] /\ armed \in [Patients -> BOOLEAN]
      /\ stopped \in [Patients -> BOOLEAN]
      /\ is_latest \in [Patients -> BOOLEAN] /\ is_first \in [Patients -> BOOLEAN]
  BY DEF Init
<1> QED
  BY <1>3, <1>4, <1>5, <1>6 DEF TypeOK

LEMMA TypeStep == TypeOK /\ [Next]_vars => TypeOK'
<1> SUFFICES ASSUME TypeOK, [Next]_vars PROVE TypeOK'
  OBVIOUS
<1> USE DEF TypeOK, mainVars, signalVars, globals
<1>1. CASE MainNext
  <2>1. Cardinality(Patients) \in Nat
    BY DoctorAssumption, FS_CardinalityType
  <2>2. CASE ForkPatient
    BY <2>1, <2>2 DEF ForkPatient, Places
  <2>3. CASE HandleChild \/ RemoveZombie
    BY <2>3 DEF HandleChild, RemoveZombie, Places
  <2> QED
    BY <1>1, <2>2, <2>3 DEF MainNext
<1>2. ASSUME NEW p \in Patients, SayHi(p) \/ Disclaim(p) \/ Broadcast(p) \/ ForgetNext(p)
      PROVE  TypeOK'
  BY <1>2 DEF SayHi, Disclaim, Broadcast, ForgetNext, Places, Alive
<1>3. ASSUME NEW p \in Patients, EndSearch(p) \/ Queue(p) \/ BecomeFirst(p)
      PROVE  TypeOK'
  BY <1>3 DEF EndSearch, Queue, BecomeFirst, Places
<1>4. ASSUME NEW p \in Patients, CheckIfLatest(p) \/ Freeze(p) \/ NotLatest(p) PROVE TypeOK'
  <2>1. frames' \in [Patients -> Stacks]
    BY <1>4, HandlerSteps
  <2> QED
    BY <1>4, <2>1 DEF CheckIfLatest, Freeze, NotLatest
<1>5. ASSUME NEW p \in Patients, WritePid(p) PROVE TypeOK'
  <2>1. frames' \in [Patients -> Stacks]
    BY <1>5, HandlerSteps
  <2>2. latest_pid' \in Seq(Patients)
    <3>1. Append(latest_pid, p) \in Seq(Patients)
      OBVIOUS
    <3> QED
      BY <1>5, <3>1 DEF WritePid
  <2> QED
    BY <1>5, <2>1, <2>2 DEF WritePid
<1>6. ASSUME NEW p \in Patients, ReadAnswer(p) PROVE TypeOK'
  <2>1. frames' \in [Patients -> Stacks]
    BY <1>6, HandlerSteps
  <2>2. CASE latest_pid = <<>>
    BY <1>6, <2>1, <2>2 DEF ReadAnswer
  <2>3. CASE latest_pid # <<>>
    <3>1. Head(latest_pid) \in Patients /\ Tail(latest_pid) \in Seq(Patients)
      BY <2>3
    <3> QED
      BY <1>6, <2>1, <2>3, <3>1 DEF ReadAnswer
  <2> QED
    BY <2>2, <2>3
<1>7. ASSUME NEW p \in Patients, Unfreeze(p) PROVE TypeOK'
  <2>1. frames' \in [Patients -> Stacks]
    BY <1>7, HandlerSteps
  <2>2. stopped' \in [Patients -> BOOLEAN] /\ chld' \in BOOLEAN
    BY <1>7 DEF Unfreeze
  <2> QED
    BY <1>7, <2>1, <2>2 DEF Unfreeze
<1>8. ASSUME NEW p \in Patients, CheckForAnswer(p) PROVE TypeOK'
  <2>1. num_called' \in [Patients -> 0 .. Calls]
    BY <1>8, DoctorAssumption DEF CheckForAnswer
  <2>2. is_latest' \in [Patients -> BOOLEAN] /\ armed' \in [Patients -> BOOLEAN]
    BY <1>8 DEF CheckForAnswer
  <2>3. frames' \in [Patients -> Stacks]
    BY <1>8, HandlerSteps
  <2> QED
    BY <1>8, <2>1, <2>2, <2>3 DEF CheckForAnswer
<1>9. ASSUME NEW p \in Patients, CheckNext(p) PROVE TypeOK'
  <2>1. is_first' \in [Patients -> BOOLEAN]
    BY <1>9 DEF CheckNext
  <2> QED
    BY <1>9, <2>1 DEF CheckNext
<1>10. ASSUME NEW p \in Patients, Killed(p) PROVE TypeOK'
  <2>1. <<>> \in Stacks /\ 0 \in 0 .. Calls
    BY DoctorAssumption DEF Stacks
  <2> QED
    BY <1>10, <2>1 DEF Killed, Places
<1>11. CASE UNCHANGED vars
  BY <1>11 DEF vars
<1> QED
  BY <1>1, <1>2, <1>3, <1>4, <1>5, <1>6, <1>7, <1>8, <1>9, <1>10, <1>11 DEF Next, Step, Ring

-----------------------------------------------------------------------------
(* Answers.                                                                *)

\* Most steps let every answer be: no writer stops being frozen, nobody takes
\* an answer or changes its mind about one.
LEMMA QuietKeeps ==
  ASSUME TypeOK, AnswersOutstanding, AnswersHeld,
         latest_pid' = latest_pid,
         \A q \in Patients : Outstanding(q) => Outstanding(q)',
         \A q \in Patients : Holds(q)' => Holds(q) /\ next_process'[q] = next_process[q]
  PROVE  AnswersOutstanding' /\ AnswersHeld'
<1>1. \A k \in DOMAIN latest_pid : latest_pid[k] \in Patients
  BY DEF TypeOK
<1>2. AnswersOutstanding'
  BY <1>1 DEF AnswersOutstanding
<1>3. ASSUME NEW p \in Patients, Holds(p)'
      PROVE  /\ next_process'[p] # Nobody /\ Outstanding(next_process[p])'
             /\ \A k \in DOMAIN latest_pid' : latest_pid'[k] # next_process'[p]
  <2>1. Holds(p) /\ next_process'[p] = next_process[p]
    BY <1>3
  <2>2. /\ next_process[p] # Nobody /\ Outstanding(next_process[p])
        /\ \A k \in DOMAIN latest_pid : latest_pid[k] # next_process[p]
    BY <2>1 DEF AnswersHeld
  <2>3. PICK n \in Patients : n = next_process[p]
    BY <2>2 DEF TypeOK
  <2>4. Outstanding(n)'
    BY <2>2, <2>3
  <2> QED
    BY <2>1, <2>2, <2>3, <2>4 DEF Outstanding, Inside
<1>4. \A p, q \in Patients : p # q /\ Holds(p)' /\ Holds(q)' => next_process'[p] # next_process'[q]
  BY DEF AnswersHeld
<1> QED
  BY <1>2, <1>3, <1>4 DEF AnswersHeld

\* Whoever answers has no answer out.
LEMMA WritePidKeeps ==
  ASSUME TypeOK, AnswersOutstanding, AnswersHeld, NEW p \in Patients, WritePid(p)
  PROVE  AnswersOutstanding' /\ AnswersHeld'
<1>1. ~Outstanding(p) /\ UNCHANGED <<pc, stopped, next_process>> /\ latest_pid' = Append(latest_pid, p)
  BY AnswererClear DEF WritePid, globals
<1>2. /\ Inside(p, {"stop"})' /\ (Inside(p, {"cont"})' <=> Inside(p, {"cont"}))
      /\ OthersInside(p)
  BY HandlerSteps DEF Polling
<1>3. \A q \in Patients : (Outstanding(q) => Outstanding(q)') /\ Outstanding(p)'
  BY <1>1, <1>2 DEF Outstanding, OthersInside
<1>4. \A q \in Patients : Holds(q)' <=> Holds(q)
  BY <1>2 DEF Holds, OthersInside
<1>5. \A k \in DOMAIN latest_pid : latest_pid[k] \in Patients /\ latest_pid[k] # p
  BY <1>1 DEF AnswersOutstanding, TypeOK
<1>6. /\ DOMAIN latest_pid' = DOMAIN latest_pid \union {Len(latest_pid) + 1}
      /\ \A k \in DOMAIN latest_pid : latest_pid'[k] = latest_pid[k]
      /\ latest_pid'[Len(latest_pid) + 1] = p
  BY <1>1 DEF TypeOK
<1>7. AnswersOutstanding'
  <2>1. IsInjective(latest_pid)'
    BY <1>5, <1>6 DEF AnswersOutstanding, IsInjective
  <2>2. \A k \in DOMAIN latest_pid' : Outstanding(latest_pid[k])'
    <3> SUFFICES ASSUME NEW k \in DOMAIN latest_pid' PROVE Outstanding(latest_pid[k])'
      OBVIOUS
    <3>1. PICK q \in Patients : q = latest_pid'[k] /\ (q = p \/ Outstanding(q))
      BY <1>5, <1>6 DEF AnswersOutstanding
    <3>2. Outstanding(q)'
      BY <1>3, <3>1
    <3> QED
      BY <3>1, <3>2 DEF Outstanding, Inside
  <2> QED
    BY <2>1, <2>2 DEF AnswersOutstanding
<1>8. ASSUME NEW q \in Patients, Holds(q)'
      PROVE  /\ next_process'[q] # Nobody /\ Outstanding(next_process[q])'
             /\ \A k \in DOMAIN latest_pid' : latest_pid'[k] # next_process'[q]
  <2>1. /\ next_process[q] # Nobody /\ Outstanding(next_process[q])
        /\ \A k \in DOMAIN latest_pid : latest_pid[k] # next_process[q]
    BY <1>4, <1>8 DEF AnswersHeld
  <2>2. PICK n \in Patients : n = next_process[q]
    BY <2>1 DEF TypeOK
  <2>3. Outstanding(n)' /\ n # p
    BY <1>1, <1>3, <2>1, <2>2
  <2> QED
    BY <1>1, <1>6, <2>1, <2>2, <2>3 DEF Outstanding, Inside
<1>9. \A q, r \in Patients : q # r /\ Holds(q)' /\ Holds(r)' => next_process'[q] # next_process'[r]
  BY <1>1, <1>4 DEF AnswersHeld
<1> QED
  BY <1>7, <1>8, <1>9 DEF AnswersHeld

\* An answer goes from the pipe to the hand of the one who read it.
LEMMA ReadAnswerKeeps ==
  ASSUME TypeOK, AnswersOutstanding, AnswersHeld, NEW p \in Patients, ReadAnswer(p)
  PROVE  AnswersOutstanding' /\ AnswersHeld'
<1>1. /\ UNCHANGED <<pc, stopped>> /\ OthersInside(p)
      /\ Inside(p, {"stop"})' <=> Inside(p, {"stop"})
  BY HandlerSteps DEF ReadAnswer
<1>2. \A q \in Patients : Outstanding(q)' <=> Outstanding(q)
  BY <1>1 DEF Outstanding, OthersInside
<1>3. CASE latest_pid = <<>>
  <2>1. UNCHANGED <<latest_pid, next_process>> /\ (Inside(p, {"cont"})' <=> Inside(p, {"cont"}))
    BY <1>3, HandlerSteps DEF ReadAnswer
  <2>2. \A q \in Patients : Holds(q)' <=> Holds(q)
    BY <1>1, <2>1 DEF Holds, OthersInside
  <2> QED
    BY <1>2, <2>1, <2>2, QuietKeeps
<1>4. CASE latest_pid # <<>>
  <2>1. /\ next_process' = [next_process EXCEPT ![p] = Head(latest_pid)]
        /\ latest_pid' = Tail(latest_pid)
    BY <1>4 DEF ReadAnswer
  <2>3. \A q \in Patients : Outstanding(q)' <=> Outstanding(q)
    BY <1>2
  <2>4. \A q \in Patients : q # p => (Holds(q)' <=> Holds(q)) /\ next_process'[q] = next_process[q]
    BY <1>1, <2>1 DEF Holds, TypeOK, OthersInside
  <2>5. /\ 1 \in DOMAIN latest_pid /\ Head(latest_pid) = latest_pid[1]
        /\ \A k \in DOMAIN latest_pid' : k + 1 \in DOMAIN latest_pid /\ latest_pid'[k] = latest_pid[k + 1]
        /\ \A k \in DOMAIN latest_pid : latest_pid[k] \in Patients
        /\ DOMAIN latest_pid' \subseteq Nat \ {0}
    BY <1>4, <2>1 DEF TypeOK
  <2>6. AnswersOutstanding'
    <3>1. IsInjective(latest_pid)'
      <4> SUFFICES ASSUME NEW j \in DOMAIN latest_pid', NEW k \in DOMAIN latest_pid',
                          latest_pid'[j] = latest_pid'[k]
                   PROVE  j = k
        BY DEF IsInjective
      <4>1. j + 1 = k + 1
        BY <2>5 DEF AnswersOutstanding, IsInjective
      <4> QED
        BY <2>5, <4>1
    <3>2. ASSUME NEW k \in DOMAIN latest_pid' PROVE Outstanding(latest_pid[k])'
      <4>1. PICK q \in Patients : q = latest_pid'[k] /\ Outstanding(q)
        BY <2>5, <3>2 DEF AnswersOutstanding
      <4>2. Outstanding(q)'
        BY <2>3, <4>1
      <4> QED
        BY <4>1, <4>2 DEF Outstanding, Inside
    <3> QED
      BY <3>1, <3>2 DEF AnswersOutstanding
  <2>7. PICK w \in Patients : w = latest_pid[1]
    BY <2>5
  <2>8. next_process'[p] = w /\ w # Nobody /\ Outstanding(w) /\ Outstanding(w)'
    BY <2>1, <2>3, <2>5, <2>7, DoctorAssumption DEF TypeOK, AnswersOutstanding
  <2>9. \A k \in DOMAIN latest_pid' : latest_pid'[k] # w
    <3> SUFFICES ASSUME NEW k \in DOMAIN latest_pid', latest_pid'[k] = w PROVE FALSE
      OBVIOUS
    <3>1. k + 1 = 1
      BY <2>5, <2>7 DEF AnswersOutstanding, IsInjective
    <3> QED
      BY <2>5, <3>1
  <2>10. ASSUME NEW q \in Patients, Holds(q)', q # p
         PROVE  /\ next_process'[q] # Nobody /\ Outstanding(next_process[q])'
                /\ \A k \in DOMAIN latest_pid' : latest_pid'[k] # next_process'[q]
                /\ next_process'[q] # w
    <3>1. /\ next_process[q] # Nobody /\ Outstanding(next_process[q])
          /\ \A k \in DOMAIN latest_pid : latest_pid[k] # next_process[q]
          /\ next_process'[q] = next_process[q]
      BY <2>4, <2>10 DEF AnswersHeld
    <3>2. PICK n \in Patients : n = next_process[q]
      BY <3>1 DEF TypeOK
    <3>3. Outstanding(n)' /\ n # w
      BY <2>3, <2>5, <2>7, <3>1, <3>2
    <3> QED
      BY <2>5, <3>1, <3>2, <3>3 DEF Outstanding, Inside
  <2>11. \A q, r \in Patients : q # r /\ Holds(q)' /\ Holds(r)' => next_process'[q] # next_process'[r]
    BY <2>4, <2>8, <2>10 DEF AnswersHeld
  <2>12. \A q \in Patients : Holds(q)' =>
           /\ next_process'[q] # Nobody /\ Outstanding(next_process[q])'
           /\ \A k \in DOMAIN latest_pid' : latest_pid'[k] # next_process'[q]
    BY <2>8, <2>9, <2>10 DEF Outstanding, Inside
  <2> QED
    BY <2>6, <2>11, <2>12 DEF AnswersHeld
<1> QED
  BY <1>3, <1>4

\* The writer is woken by the only one who holds its answer.
LEMMA UnfreezeKeeps ==
  ASSUME TypeOK, AnswersOutstanding, AnswersHeld, NEW p \in Patients, Unfreeze(p)
  PROVE  AnswersOutstanding' /\ AnswersHeld'
<1>1. UNCHANGED <<pc, next_process, latest_pid>>
  BY DEF Unfreeze, globals
<1>2. Holds(p)
  BY HandlerSteps DEF Holds
<1>3. PICK w \in Patients :
        /\ w = next_process[p]
        /\ \A k \in DOMAIN latest_pid : latest_pid[k] # w
        /\ \A q \in Patients : q # p /\ Holds(q) => next_process[q] # w
  BY <1>2 DEF AnswersHeld, TypeOK
<1>4. \A q \in Patients : q # w => stopped'[q] = stopped[q]
  BY <1>3 DEF Unfreeze, TypeOK
<1>5. /\ Inside(p, {"stop"})' <=> Inside(p, {"stop"})
      /\ ~Inside(p, {"cont"})'
      /\ OthersInside(p)
  BY HandlerSteps
<1>6. \A q \in Patients : q # w /\ Outstanding(q) => Outstanding(q)'
  BY <1>1, <1>4, <1>5 DEF Outstanding, OthersInside
<1>7. \A q \in Patients : Holds(q)' => Holds(q) /\ q # p
  BY <1>5 DEF Holds, OthersInside
<1>8. \A k \in DOMAIN latest_pid : latest_pid[k] \in Patients
  BY DEF TypeOK
<1>9. AnswersOutstanding'
  <2>1. ASSUME NEW k \in DOMAIN latest_pid' PROVE Outstanding(latest_pid[k])'
    <3>1. PICK q \in Patients : q = latest_pid[k] /\ q # w /\ Outstanding(q)
      BY <1>1, <1>3, <1>8, <2>1 DEF AnswersOutstanding
    <3>2. Outstanding(q)'
      BY <1>6, <3>1
    <3> QED
      BY <1>1, <3>1, <3>2 DEF Outstanding, Inside
  <2> QED
    BY <1>1, <2>1 DEF AnswersOutstanding
<1>10. ASSUME NEW q \in Patients, Holds(q)'
       PROVE  /\ next_process'[q] # Nobody /\ Outstanding(next_process[q])'
              /\ \A k \in DOMAIN latest_pid' : latest_pid'[k] # next_process'[q]
  <2>1. /\ next_process[q] # Nobody /\ Outstanding(next_process[q])
        /\ \A k \in DOMAIN latest_pid : latest_pid[k] # next_process[q]
        /\ next_process[q] # w
    BY <1>3, <1>7, <1>10 DEF AnswersHeld
  <2>2. PICK n \in Patients : n = next_process[q]
    BY <2>1 DEF TypeOK
  <2>3. Outstanding(n)'
    BY <1>6, <2>1, <2>2
  <2> QED
    BY <1>1, <2>1, <2>2, <2>3 DEF Outstanding, Inside
<1>11. \A q, r \in Patients : q # r /\ Holds(q)' /\ Holds(r)' => next_process'[q] # next_process'[r]
  BY <1>1, <1>7 DEF AnswersHeld
<1> QED
  BY <1>9, <1>10, <1>11 DEF AnswersHeld

LEMMA AnswersStep ==
  ASSUME TypeOK, AnswersOutstanding, AnswersHeld, [Next]_vars
  PROVE  AnswersOutstanding' /\ AnswersHeld'
<1> USE DEF Outstanding, Inside, Holds, mainVars, signalVars, globals
<1>1. ASSUME UNCHANGED <<frames, stopped, next_process, latest_pid>>,
             \A q \in Patients : pc[q] \in {"zombie", "reaped"} => pc'[q] \in {"zombie", "reaped"}
      PROVE  AnswersOutstanding' /\ AnswersHeld'
  BY <1>1, QuietKeeps
<1>2. CASE MainNext
  <2>1. CASE ForkPatient \/ RemoveZombie
    <3>1. UNCHANGED <<frames, stopped, next_process, latest_pid>>
      BY <2>1 DEF ForkPatient, RemoveZombie
    <3>2. \A q \in Patients : pc[q] \in {"zombie", "reaped"} => pc'[q] \in {"zombie", "reaped"}
      BY <2>1 DEF ForkPatient, RemoveZombie, TypeOK
    <3> QED
      BY <1>1, <3>1, <3>2
  <2>2. CASE HandleChild
    BY <1>1, <2>2 DEF HandleChild
  <2> QED
    BY <1>2, <2>1, <2>2 DEF MainNext
<1>3. ASSUME NEW p \in Patients, SayHi(p) \/ Disclaim(p) \/ Broadcast(p) \/ EndSearch(p) \/ Queue(p) \/ BecomeFirst(p)
      PROVE  AnswersOutstanding' /\ AnswersHeld'
  <2>1. UNCHANGED <<frames, stopped, next_process, latest_pid>>
    BY <1>3 DEF SayHi, Disclaim, Broadcast, EndSearch, Queue, BecomeFirst
  <2>2. pc[p] \notin {"zombie", "reaped"} /\ \A q \in Patients : q # p => pc'[q] = pc[q]
    BY <1>3 DEF SayHi, Disclaim, Broadcast, EndSearch, Queue, BecomeFirst, Runs, TypeOK
  <2> QED
    BY <1>1, <2>1, <2>2
<1>4. ASSUME NEW p \in Patients, ForgetNext(p)
      PROVE  AnswersOutstanding' /\ AnswersHeld'
  <2>1. UNCHANGED <<frames, stopped, latest_pid>> /\ ~Holds(p) /\ pc[p] = "reset"
    BY <1>4 DEF ForgetNext, Runs
  <2>2. \A q \in Patients : q # p => pc'[q] = pc[q] /\ next_process'[q] = next_process[q]
    BY <1>4 DEF ForgetNext, TypeOK
  <2> QED
    BY <2>1, <2>2, QuietKeeps
<1>5. ASSUME NEW p \in Patients, Freeze(p)
      PROVE  AnswersOutstanding' /\ AnswersHeld'
  <2> HIDE DEF Inside, Outstanding, Holds
  <2>1. stopped'[p] /\ OthersInside(p) /\ (Inside(p, {"cont"})' <=> Inside(p, {"cont"}))
    BY <1>5, HandlerSteps DEF Freeze, TypeOK, Polling
  <2>2. UNCHANGED <<pc, next_process, latest_pid>> /\ \A q \in Patients : q # p => stopped'[q] = stopped[q]
    BY <1>5 DEF Freeze, TypeOK
  <2>3. \A q \in Patients : (Outstanding(q) => Outstanding(q)') /\ (Holds(q)' => Holds(q))
    BY <2>1, <2>2 DEF Outstanding, Holds, OthersInside
  <2> QED
    BY <2>2, <2>3, QuietKeeps
<1>6. ASSUME NEW p \in Patients, CheckIfLatest(p) \/ NotLatest(p) \/ CheckForAnswer(p)
      PROVE  AnswersOutstanding' /\ AnswersHeld'
  <2> HIDE DEF Inside, Outstanding, Holds
  <2>1. /\ Inside(p, {"stop"})' <=> Inside(p, {"stop"})
        /\ Inside(p, {"cont"})' <=> Inside(p, {"cont"})
        /\ OthersInside(p)
    BY <1>6, HandlerSteps
  <2>2. UNCHANGED <<pc, stopped, next_process, latest_pid>>
    BY <1>6 DEF CheckIfLatest, NotLatest, CheckForAnswer
  <2>3. \A q \in Patients : (Outstanding(q) => Outstanding(q)') /\ (Holds(q)' => Holds(q))
    BY <2>1, <2>2 DEF Outstanding, Holds, OthersInside
  <2> QED
    BY <2>2, <2>3, QuietKeeps
<1>7. ASSUME NEW p \in Patients, CheckNext(p)
      PROVE  AnswersOutstanding' /\ AnswersHeld'
  BY <1>1, <1>7 DEF CheckNext
<1>8. ASSUME NEW p \in Patients, Killed(p)
      PROVE  AnswersOutstanding' /\ AnswersHeld'
  <2>1. UNCHANGED <<stopped, latest_pid>> /\ pc'[p] = "zombie" /\ frames'[p] = <<>>
    BY <1>8 DEF Killed, TypeOK
  <2>2. \A q \in Patients : q # p =>
          pc'[q] = pc[q] /\ frames'[q] = frames[q] /\ next_process'[q] = next_process[q]
    BY <1>8 DEF Killed, TypeOK
  <2> QED
    BY <2>1, <2>2, QuietKeeps
<1>9. CASE UNCHANGED vars
  BY <1>1, <1>9 DEF vars
<1> QED
  BY <1>2, <1>3, <1>4, <1>5, <1>6, <1>7, <1>8, <1>9, WritePidKeeps, ReadAnswerKeeps, UnfreezeKeeps
  DEF Next, Step, Ring

-----------------------------------------------------------------------------
(* Predecessors.                                                           *)

\* Only the patient p moves, or changes its mind about its place.
LEMMA OnePatient ==
  ASSUME BehindSomebody, FirstAfterPredecessor, NEW p \in Patients,
         \A q \in Patients : q # p =>
           /\ pc'[q] = pc[q] /\ next_process'[q] = next_process[q] /\ is_first'[q] = is_first[q],
         \A q \in Patients : pc[q] = "reaped" => pc'[q] = "reaped",
         next_process \in [Patients -> Patients \union {Nobody}],
         pc'[p] \notin {"behind", "first"}
  PROVE  BehindSomebody' /\ FirstAfterPredecessor'
BY DEF BehindSomebody, FirstAfterPredecessor

LEMMA PredecessorStep ==
  ASSUME TypeOK, BehindSomebody, PollsInSearch, FirstAfterPredecessor, [Next]_vars
  PROVE  BehindSomebody' /\ FirstAfterPredecessor'
<1> USE DEF mainVars, signalVars, globals
<1>1. ASSUME UNCHANGED <<pc, next_process, is_first>>
      PROVE  BehindSomebody' /\ FirstAfterPredecessor'
  BY <1>1 DEF BehindSomebody, FirstAfterPredecessor
<1>2. CASE MainNext
  <2>1. ASSUME ForkPatient, pc' # pc PROVE BehindSomebody' /\ FirstAfterPredecessor'
    <3>1. PICK p \in Patients : pc[p] = "unborn" /\ pc' = [pc EXCEPT ![p] = "hello"]
      BY <2>1 DEF ForkPatient
    <3>2. UNCHANGED <<next_process, is_first>>
      BY <2>1 DEF ForkPatient
    <3> QED
      BY <3>1, <3>2, OnePatient DEF TypeOK
  <2>2. ASSUME RemoveZombie PROVE BehindSomebody' /\ FirstAfterPredecessor'
    <3>1. PICK p \in Patients : pc[p] = "zombie" /\ pc' = [pc EXCEPT ![p] = "reaped"]
      BY <2>2 DEF RemoveZombie
    <3>2. UNCHANGED <<next_process, is_first>>
      BY <2>2 DEF RemoveZombie
    <3> QED
      BY <3>1, <3>2, OnePatient DEF TypeOK
  <2> QED
    BY <1>1, <1>2, <2>1, <2>2 DEF MainNext, ForkPatient, HandleChild
<1>3. ASSUME NEW p \in Patients, SayHi(p) \/ Disclaim(p) \/ Broadcast(p) \/ ForgetNext(p) \/ EndSearch(p)
      PROVE  BehindSomebody' /\ FirstAfterPredecessor'
  <2>1. /\ pc[p] # "reaped" /\ pc'[p] \notin {"behind", "first"}
        /\ \A q \in Patients : q # p =>
             pc'[q] = pc[q] /\ next_process'[q] = next_process[q] /\ is_first'[q] = is_first[q]
    BY <1>3 DEF SayHi, Disclaim, Broadcast, ForgetNext, EndSearch, Runs, TypeOK
  <2> QED
    BY <2>1, OnePatient DEF TypeOK
<1>4. ASSUME NEW p \in Patients, Queue(p)
      PROVE  BehindSomebody' /\ FirstAfterPredecessor'
  <2>1. /\ pc[p] = "found" /\ next_process' = next_process
        /\ \A q \in Patients : q # p => pc'[q] = pc[q] /\ is_first'[q] = is_first[q]
        /\ IF next_process[p] # Nobody THEN pc'[p] = "behind" /\ ~is_first'[p]
           ELSE pc'[p] = "first"
    BY <1>4 DEF Queue, Runs, TypeOK
  <2>2. \A q \in Patients : next_process[q] \in Patients \union {Nobody}
    BY DEF TypeOK
  <2>3. \A q \in Patients : pc[q] = "reaped" => pc'[q] = "reaped"
    BY <2>1
  <2>4. BehindSomebody'
    BY <2>1, <2>2, <2>3 DEF BehindSomebody
  <2>5. FirstAfterPredecessor'
    BY <2>1, <2>2, <2>3 DEF FirstAfterPredecessor
  <2> QED
    BY <2>4, <2>5
<1>5. ASSUME NEW p \in Patients, BecomeFirst(p)
      PROVE  BehindSomebody' /\ FirstAfterPredecessor'
  <2>1. /\ pc[p] = "behind" /\ is_first[p] /\ pc'[p] = "first"
        /\ UNCHANGED <<next_process, is_first>>
        /\ \A q \in Patients : q # p => pc'[q] = pc[q]
    BY <1>5 DEF BecomeFirst, Runs, TypeOK
  <2>2. \A q \in Patients : next_process[q] \in Patients \union {Nobody}
    BY DEF TypeOK
  <2>3. \A q \in Patients : pc[q] = "reaped" => pc'[q] = "reaped"
    BY <2>1
  <2>4. BehindSomebody'
    BY <2>1, <2>2, <2>3 DEF BehindSomebody
  <2>5. FirstAfterPredecessor'
    BY <2>1, <2>2, <2>3 DEF FirstAfterPredecessor, BehindSomebody
  <2> QED
    BY <2>4, <2>5
<1>6. ASSUME NEW p \in Patients, ReadAnswer(p)
      PROVE  BehindSomebody' /\ FirstAfterPredecessor'
  <2>1. pc[p] \in {"reset", "search"}
    BY <1>6, HandlerSteps DEF PollsInSearch
  <2>2. /\ pc' = pc /\ is_first' = is_first
        /\ \A q \in Patients : q # p => next_process'[q] = next_process[q]
    BY <1>6 DEF ReadAnswer, TypeOK
  <2> QED
    BY <2>1, <2>2, OnePatient DEF TypeOK
<1>7. ASSUME NEW p \in Patients, CheckNext(p)
      PROVE  BehindSomebody' /\ FirstAfterPredecessor'
  <2>1. /\ UNCHANGED <<pc, next_process>>
        /\ is_first'[p] = (is_first[p] \/ pc[next_process[p]] = "reaped")
        /\ \A q \in Patients : q # p => is_first'[q] = is_first[q]
    BY <1>7 DEF CheckNext, TypeOK
  <2> QED
    BY <2>1 DEF BehindSomebody, FirstAfterPredecessor
<1>8. ASSUME NEW p \in Patients, Killed(p)
      PROVE  BehindSomebody' /\ FirstAfterPredecessor'
  <2>1. /\ pc[p] # "reaped" /\ pc'[p] = "zombie"
        /\ \A q \in Patients : q # p =>
             pc'[q] = pc[q] /\ next_process'[q] = next_process[q] /\ is_first'[q] = is_first[q]
    BY <1>8 DEF Killed, Rings, Alive, TypeOK
  <2> QED
    BY <2>1, OnePatient DEF TypeOK
<1>9. ASSUME NEW p \in Patients, CheckIfLatest(p) \/ WritePid(p) \/ Freeze(p) \/ NotLatest(p)
                              \/ CheckForAnswer(p) \/ Unfreeze(p)
      PROVE  BehindSomebody' /\ FirstAfterPredecessor'
  BY <1>1, <1>9 DEF CheckIfLatest, WritePid, Freeze, NotLatest, CheckForAnswer, Unfreeze
<1>10. CASE UNCHANGED vars
  BY <1>1, <1>10 DEF vars
<1> QED
  BY <1>2, <1>3, <1>4, <1>5, <1>6, <1>7, <1>8, <1>9, <1>10 DEF Next, Step, Ring

\* Nobody moves in its main program while it is inside a handler.
LEMMA PollsStep ==
  ASSUME TypeOK, PollsInSearch, [Next]_vars
  PROVE  PollsInSearch'
<1> USE DEF mainVars, signalVars, globals
<1>1. ASSUME UNCHANGED frames,
             \A q \in Patients : Inside(q, {"read"}) => pc'[q] \in {"reset", "search"}
      PROVE  PollsInSearch'
  BY <1>1 DEF PollsInSearch, Inside
<1>2. CASE MainNext
  <2>1. UNCHANGED frames
    BY <1>2 DEF MainNext, ForkPatient, HandleChild, RemoveZombie
  <2>2. \A q \in Patients : pc[q] \in {"reset", "search"} => pc'[q] = pc[q]
    BY <1>2 DEF MainNext, ForkPatient, HandleChild, RemoveZombie, TypeOK
  <2> QED
    BY <1>1, <2>1, <2>2 DEF PollsInSearch
<1>3. ASSUME NEW p \in Patients, SayHi(p) \/ Disclaim(p) \/ Broadcast(p) \/ ForgetNext(p)
                              \/ EndSearch(p) \/ Queue(p) \/ BecomeFirst(p)
      PROVE  PollsInSearch'
  <2>1. UNCHANGED frames /\ frames[p] = <<>>
    BY <1>3 DEF SayHi, Disclaim, Broadcast, ForgetNext, EndSearch, Queue, BecomeFirst, Runs
  <2>2. \A q \in Patients : q # p => pc'[q] = pc[q]
    BY <1>3 DEF SayHi, Disclaim, Broadcast, ForgetNext, EndSearch, Queue, BecomeFirst, TypeOK
  <2>3. ~Inside(p, {"read"})
    BY <2>1 DEF Inside
  <2> QED
    BY <1>1, <2>1, <2>2, <2>3 DEF PollsInSearch
<1>4. ASSUME NEW p \in Patients, CheckIfLatest(p) \/ WritePid(p) \/ Freeze(p) \/ NotLatest(p)
                              \/ ReadAnswer(p) \/ Unfreeze(p)
      PROVE  PollsInSearch'
  <2>1. OthersInside(p) /\ (Inside(p, {"read"})' => Inside(p, {"read"}))
    BY <1>4, HandlerSteps DEF Polling
  <2>2. pc' = pc
    BY <1>4 DEF CheckIfLatest, WritePid, Freeze, NotLatest, ReadAnswer, Unfreeze
  <2> QED
    BY <2>1, <2>2 DEF PollsInSearch, OthersInside
<1>5. ASSUME NEW p \in Patients, CheckForAnswer(p) PROVE PollsInSearch'
  <2>1. OthersInside(p) /\ pc' = pc /\ pc[p] \in {"reset", "search"}
    BY <1>5, HandlerSteps DEF CheckForAnswer
  <2> QED
    BY <2>1 DEF PollsInSearch, OthersInside
<1>6. ASSUME NEW p \in Patients, CheckNext(p) PROVE PollsInSearch'
  BY <1>1, <1>6 DEF CheckNext, PollsInSearch
<1>7. ASSUME NEW p \in Patients, Killed(p) PROVE PollsInSearch'
  <2>1. frames'[p] = <<>> /\ \A q \in Patients : q # p => pc'[q] = pc[q] /\ frames'[q] = frames[q]
    BY <1>7 DEF Killed, TypeOK
  <2> QED
    BY <2>1 DEF PollsInSearch, Inside
<1>8. CASE UNCHANGED vars
  BY <1>1, <1>8 DEF vars, PollsInSearch
<1> QED
  BY <1>2, <1>3, <1>4, <1>5, <1>6, <1>7, <1>8 DEF Next, Step, Ring

-----------------------------------------------------------------------------
(* The theorems.                                                           *)

LEMMA Invariant == Spec => []IInv
<1>1. Init => IInv
  <2> SUFFICES ASSUME Init PROVE IInv
    OBVIOUS
  <2>1. \A p \in Patients : ~Holds(p) /\ ~Inside(p, {"read"}) /\ pc[p] = "unborn"
    BY DEF Init, Holds, Inside
  <2>2. AnswersOutstanding /\ AnswersHeld
    BY <2>1 DEF Init, AnswersOutstanding, AnswersHeld, IsInjective
  <2> QED
    BY <2>1, <2>2, InitTypeOK DEF IInv, BehindSomebody, PollsInSearch, FirstAfterPredecessor
<1>2. IInv /\ [Next]_vars => IInv'
  BY TypeStep, AnswersStep, PredecessorStep, PollsStep DEF IInv
<1> QED
  BY <1>1, <1>2, PTL DEF Spec

\* The pipe holds pids of patients, and a patient is never inside a handler
\* that interrupted itself.
THEOREM TypeCorrect == Spec => []TypeOK
<1>1. IInv => TypeOK
  BY DEF IInv
<1> QED
  BY <1>1, Invariant, PTL

\* However many patients ask at once and whatever interrupts whom, an answer
\* in the pipe is there once and its writer has not been woken yet.
THEOREM AnswersOutstandingAlways == Spec => []AnswersOutstanding
<1>1. IInv => AnswersOutstanding
  BY DEF IInv
<1> QED
  BY <1>1, Invariant, PTL

\* A patient that had a predecessor is first only when that one has exited
\* and main has reaped it.
THEOREM FirstAfterPredecessorAlways == Spec => []FirstAfterPredecessor
<1>1. IInv => FirstAfterPredecessor
  BY DEF IInv
<1> QED
  BY <1>1, Invariant, PTL

=============================================================================
