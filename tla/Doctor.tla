------------------------------- MODULE Doctor -------------------------------
(***************************************************************************)
(* c10: patients who find their place in a queue by signals.               *)
(*                                                                         *)
(* A patient broadcasts SIGUSR1; whoever believes to be the latest writes  *)
(* its pid to the pipe latest_pid and freezes itself; the asker polls the  *)
(* pipe from its SIGALRM handler and unfreezes the process whose pid it    *)
(* got, its "next_process", for whose disappearance it then waits.         *)
(*                                                                         *)
(* The doctor is forked before the pipes are created, so its descriptors   *)
(* are all 0: it talks to the terminal, nobody ever writes to              *)
(* doctor2next_patient, and the first patient's read from it never         *)
(* returns: there is no action for what a patient does after that read.    *)
(*                                                                         *)
(* signal() handlers run with their own signal blocked and can interrupt   *)
(* each other.  SIGALRM may come at any time after alarm(1).  Ctrl+Z is    *)
(* left to module Parent; here it is the patients who stop themselves.     *)
(***************************************************************************)
EXTENDS Integers, Sequences, FiniteSets, SequencesExt

CONSTANTS Patients,  \* the pids of all patients ever forked; the code stops
                     \* at INT_MAX of them: the bound
          Nobody,    \* -1
          Calls      \* 5, after how many polls nobody is taken to be ahead

ASSUME DoctorAssumption ==
  /\ IsFiniteSet(Patients)
  /\ Nobody \notin Patients
  /\ Calls \in Nat \ {0}

VARIABLES
  patient_no,    \* main's counter
  chld,          \* SIGCHLD is pending for main
  handler,       \* "idle", or "wait" inside remove_zombie
  pc,            \* pc[p]: where patient p is outside its handlers
  frames,        \* frames[p]: the handlers p is inside, innermost first
  usr1,          \* usr1[p]: SIGUSR1 is pending
  armed,         \* armed[p]: alarm(1) has been called since the last SIGALRM
  stopped,       \* stopped[p]: frozen by SIGSTOP
  is_latest, is_first, num_called, next_process,   \* the globals of each patient;
                 \* next_process is 0 at first and set to -1 before it is read
  latest_pid     \* the pipe, of which the read end does not block

mainVars    == <<patient_no, chld, handler>>
signalVars  == <<frames, usr1, armed, stopped>>
globals     == <<is_latest, is_first, num_called, next_process>>
vars == <<mainVars, pc, signalVars, globals, latest_pid>>

\* Running or frozen.
Alive(p) == pc[p] \notin {"unborn", "zombie", "reaped"}

Init ==
  /\ patient_no = 0 /\ chld = FALSE /\ handler = "idle"
  /\ pc = [p \in Patients |-> "unborn"]
  /\ frames = [p \in Patients |-> <<>>]
  /\ usr1 = [p \in Patients |-> FALSE]
  /\ armed = [p \in Patients |-> FALSE]
  /\ stopped = [p \in Patients |-> FALSE]
  /\ is_latest = [p \in Patients |-> FALSE]
  /\ is_first = [p \in Patients |-> FALSE]
  /\ num_called = [p \in Patients |-> 0]
  /\ next_process = [p \in Patients |-> Nobody]
  /\ latest_pid = <<>>

-----------------------------------------------------------------------------
(* main.                                                                   *)

\* The result of fork() is only compared with 0: a failure goes unnoticed.
ForkPatient ==
  /\ handler = "idle"
  /\ patient_no < Cardinality(Patients)
  /\ patient_no' = patient_no + 1
  /\ \/ \E p \in Patients : pc[p] = "unborn" /\ pc' = [pc EXCEPT ![p] = "hello"]
     \/ UNCHANGED pc
  /\ UNCHANGED <<handler, chld, signalVars, globals, latest_pid>>

HandleChild ==
  /\ handler = "idle" /\ chld
  /\ handler' = "wait" /\ chld' = FALSE
  /\ UNCHANGED <<patient_no, pc, signalVars, globals, latest_pid>>

\* The doctor never exits, so wait(0) does not fail: it sleeps until a child
\* has exited; one that stopped or continued does not end it.
RemoveZombie ==
  /\ handler = "wait"
  /\ \E p \in Patients : pc[p] = "zombie" /\ pc' = [pc EXCEPT ![p] = "reaped"]
  /\ handler' = "idle"
  /\ UNCHANGED <<patient_no, chld, signalVars, globals, latest_pid>>

MainNext == ForkPatient \/ HandleChild \/ RemoveZombie

-----------------------------------------------------------------------------
(* A patient outside its handlers.                                         *)

\* Patient p is scheduled and in no handler.
Runs(p, from) == pc[p] = from /\ ~stopped[p] /\ frames[p] = <<>>

\* Until signal(SIGUSR1) the request is ignored, as it is in main.
SayHi(p) ==
  /\ Runs(p, "hello")
  /\ pc' = [pc EXCEPT ![p] = "claim"]
  /\ is_latest' = [is_latest EXCEPT ![p] = TRUE]
  /\ UNCHANGED <<mainVars, signalVars, is_first, num_called, next_process, latest_pid>>

Disclaim(p) ==
  /\ Runs(p, "claim")
  /\ pc' = [pc EXCEPT ![p] = "ask"]
  /\ is_latest' = [is_latest EXCEPT ![p] = FALSE]
  /\ UNCHANGED <<mainVars, signalVars, is_first, num_called, next_process, latest_pid>>

\* kill(0, SIGUSR1): to everybody in the group.  The asker itself handles it
\* before kill() returns, and is not the latest.
Broadcast(p) ==
  /\ Runs(p, "ask")
  /\ usr1' = [q \in Patients |-> q # p /\ (usr1[q] \/ (Alive(q) /\ pc[q] # "hello"))]
  /\ armed' = [armed EXCEPT ![p] = TRUE]
  /\ pc' = [pc EXCEPT ![p] = "reset"]
  /\ UNCHANGED <<mainVars, frames, stopped, globals, latest_pid>>

ForgetNext(p) ==
  /\ Runs(p, "reset")
  /\ pc' = [pc EXCEPT ![p] = "search"]
  /\ next_process' = [next_process EXCEPT ![p] = Nobody]
  /\ UNCHANGED <<mainVars, signalVars, is_latest, is_first, num_called, latest_pid>>

\* The end of the search puts SIGALRM back to SIG_DFL with an alarm pending.
EndSearch(p) ==
  /\ Runs(p, "search")
  /\ num_called[p] >= Calls \/ next_process[p] # Nobody
  /\ pc' = [pc EXCEPT ![p] = "found"]
  /\ UNCHANGED <<mainVars, signalVars, globals, latest_pid>>

Queue(p) ==
  /\ Runs(p, "found")
  /\ IF next_process[p] # Nobody
     THEN /\ pc' = [pc EXCEPT ![p] = "behind"]
          /\ armed' = [armed EXCEPT ![p] = TRUE]
          /\ is_first' = [is_first EXCEPT ![p] = FALSE]
     ELSE /\ pc' = [pc EXCEPT ![p] = "first"]
          /\ UNCHANGED <<armed, is_first>>
  /\ UNCHANGED <<mainVars, frames, usr1, stopped, is_latest, num_called, next_process, latest_pid>>

BecomeFirst(p) ==
  /\ Runs(p, "behind")
  /\ is_first[p]
  /\ pc' = [pc EXCEPT ![p] = "first"]
  /\ UNCHANGED <<mainVars, signalVars, globals, latest_pid>>

-----------------------------------------------------------------------------
(* Its handlers.  A frame is what the handler does next: "answer", "stop"  *)
(* and "clear" in check_if_latest, "read" and "cont" in check_for_answer.  *)

Answering == {"answer", "stop", "clear"}
Polling   == {"read", "cont"}

Inside(p, steps) == \E k \in DOMAIN frames[p] : frames[p][k] \in steps

\* The handler that p is in goes on with these steps.
Then(p, steps) == frames' = [frames EXCEPT ![p] = steps \o Tail(@)]

Enter(p, step) == frames' = [frames EXCEPT ![p] = <<step>> \o @]

Top(p, step) == Alive(p) /\ ~stopped[p] /\ frames[p] # <<>> /\ Head(frames[p]) = step

\* Mutant: the handler is not blocked while it runs.
CheckIfLatestNested(p) ==
  /\ Alive(p) /\ ~stopped[p]
  /\ usr1[p]
  /\ usr1' = [usr1 EXCEPT ![p] = FALSE]
  /\ IF is_latest[p] THEN Enter(p, "answer") ELSE UNCHANGED frames
  /\ UNCHANGED <<mainVars, pc, armed, stopped, globals, latest_pid>>

CheckIfLatest(p) ==
  /\ Alive(p) /\ ~stopped[p]
  /\ usr1[p] /\ ~Inside(p, Answering)
  /\ usr1' = [usr1 EXCEPT ![p] = FALSE]
  /\ IF is_latest[p] THEN Enter(p, "answer") ELSE UNCHANGED frames
  /\ UNCHANGED <<mainVars, pc, armed, stopped, globals, latest_pid>>

WritePid(p) ==
  /\ Top(p, "answer")
  /\ latest_pid' = Append(latest_pid, p)
  /\ Then(p, <<"stop">>)
  /\ UNCHANGED <<mainVars, pc, usr1, armed, stopped, globals>>

\* Mutant: the patient does not freeze itself.
FreezeNot(p) ==
  /\ Top(p, "stop")
  /\ Then(p, <<"clear">>)
  /\ UNCHANGED <<mainVars, pc, usr1, armed, stopped, globals, latest_pid>>

\* raise(SIGSTOP); the parent gets SIGCHLD.
Freeze(p) ==
  /\ Top(p, "stop")
  /\ stopped' = [stopped EXCEPT ![p] = TRUE]
  /\ Then(p, <<"clear">>)
  /\ chld' = TRUE
  /\ UNCHANGED <<patient_no, handler, pc, usr1, armed, globals, latest_pid>>

NotLatest(p) ==
  /\ Top(p, "clear")
  /\ is_latest' = [is_latest EXCEPT ![p] = FALSE]
  /\ Then(p, <<>>)
  /\ UNCHANGED <<mainVars, pc, usr1, armed, stopped, is_first, num_called, next_process, latest_pid>>

\* SIGALRM, handled according to what signal() installed last.  num_called is
\* only compared with Calls, and stays there.
Rings(p) ==
  /\ Alive(p) /\ ~stopped[p] /\ armed[p] /\ ~Inside(p, Polling)

\* From here on p is the latest, while it has not looked into the pipe yet.
CheckForAnswer(p) ==
  /\ Rings(p) /\ pc[p] \in {"reset", "search"}
  /\ armed' = [armed EXCEPT ![p] = FALSE]
  /\ num_called' = [num_called EXCEPT ![p] = IF @ = Calls THEN @ ELSE @ + 1]
  /\ is_latest' = [is_latest EXCEPT ![p] = TRUE]
  /\ Enter(p, "read")
  /\ UNCHANGED <<mainVars, pc, usr1, stopped, is_first, next_process, latest_pid>>

ReadAnswer(p) ==
  /\ Top(p, "read")
  /\ IF latest_pid = <<>>
     THEN /\ armed' = [armed EXCEPT ![p] = TRUE]
          /\ Then(p, <<>>)
          /\ UNCHANGED <<next_process, latest_pid>>
     ELSE /\ next_process' = [next_process EXCEPT ![p] = Head(latest_pid)]
          /\ latest_pid' = Tail(latest_pid)
          /\ Then(p, <<"cont">>)
          /\ UNCHANGED armed
  /\ UNCHANGED <<mainVars, pc, usr1, stopped, is_latest, is_first, num_called>>

\* SIGCONT does nothing to a process that is not frozen.
Unfreeze(p) ==
  LET q == next_process[p]
  IN  /\ Top(p, "cont")
      /\ stopped' = [stopped EXCEPT ![q] = FALSE]
      /\ chld' = (chld \/ stopped[q])
      /\ Then(p, <<>>)
      /\ armed' = [armed EXCEPT ![p] = TRUE]
      /\ UNCHANGED <<patient_no, handler, pc, usr1, globals, latest_pid>>

\* Mutant: an exited patient is gone before main has waited for it.
CheckNextZombie(p) ==
  /\ Rings(p) /\ pc[p] = "behind"
  /\ is_first' = [is_first EXCEPT ![p] = @ \/ pc[next_process[p]] \in {"zombie", "reaped"}]
  /\ UNCHANGED <<mainVars, pc, signalVars, is_latest, num_called, next_process, latest_pid>>

\* kill(next_process, 0) succeeds for a zombie, too.
CheckNext(p) ==
  /\ Rings(p) /\ pc[p] = "behind"
  /\ is_first' = [is_first EXCEPT ![p] = @ \/ pc[next_process[p]] = "reaped"]
  /\ UNCHANGED <<mainVars, pc, signalVars, is_latest, num_called, next_process, latest_pid>>

\* SIG_DFL: the patient is killed, and its memory is gone.
Killed(p) ==
  /\ Rings(p) /\ pc[p] \in {"found", "first"}
  /\ pc' = [pc EXCEPT ![p] = "zombie"]
  /\ chld' = TRUE
  /\ frames' = [frames EXCEPT ![p] = <<>>]
  /\ usr1' = [usr1 EXCEPT ![p] = FALSE]
  /\ armed' = [armed EXCEPT ![p] = FALSE]
  /\ is_latest' = [is_latest EXCEPT ![p] = FALSE]
  /\ is_first' = [is_first EXCEPT ![p] = FALSE]
  /\ num_called' = [num_called EXCEPT ![p] = 0]
  /\ next_process' = [next_process EXCEPT ![p] = Nobody]
  /\ UNCHANGED <<patient_no, handler, stopped, latest_pid>>

Step(p) ==
  \/ SayHi(p) \/ Disclaim(p) \/ Broadcast(p) \/ ForgetNext(p) \/ EndSearch(p)
  \/ Queue(p) \/ BecomeFirst(p)
  \/ CheckIfLatest(p) \/ WritePid(p) \/ Freeze(p) \/ NotLatest(p)
  \/ ReadAnswer(p) \/ Unfreeze(p)

Ring(p) == CheckForAnswer(p) \/ CheckNext(p) \/ Killed(p)

-----------------------------------------------------------------------------
Next == MainNext \/ \E p \in Patients : Step(p) \/ Ring(p)

Spec == Init /\ [][Next]_vars

-----------------------------------------------------------------------------
(* Properties.                                                             *)

Places == {"unborn", "hello", "claim", "ask", "reset", "search", "found",
           "behind", "first", "zombie", "reaped"}

\* A handler interrupts only the other one: its own signal is blocked.
Stacks == {<<>>} \union {<<h>> : h \in Answering \union Polling}
            \union {<<a, b>> : a \in Answering, b \in Polling}
            \union {<<b, a>> : a \in Answering, b \in Polling}

TypeOK ==
  /\ patient_no \in 0 .. Cardinality(Patients)
  /\ chld \in BOOLEAN /\ handler \in {"idle", "wait"}
  /\ pc \in [Patients -> Places]
  /\ frames \in [Patients -> Stacks]
  /\ usr1 \in [Patients -> BOOLEAN] /\ armed \in [Patients -> BOOLEAN]
  /\ stopped \in [Patients -> BOOLEAN]
  /\ is_latest \in [Patients -> BOOLEAN] /\ is_first \in [Patients -> BOOLEAN]
  /\ num_called \in [Patients -> 0 .. Calls]
  /\ next_process \in [Patients -> Patients \union {Nobody}]
  /\ latest_pid \in Seq(Patients)

\* The writer of an answer is still about to freeze, frozen or dead.
Outstanding(q) == Inside(q, {"stop"}) \/ stopped[q] \/ pc[q] \in {"zombie", "reaped"}

\* An answer is used once: a pid that lies in latest_pid lies there once, and
\* is still outstanding, however many askers read the pipe and whatever
\* interrupts whom.
AnswersOutstanding ==
  /\ IsInjective(latest_pid)
  /\ \A k \in DOMAIN latest_pid : Outstanding(latest_pid[k])

\* "freeze ourselves so that we won't read ourselves" (main.c:67): nobody takes
\* its own answer for that of a predecessor.
NotOneself == \A p \in Patients : next_process[p] # p

\* "wait until we become the first patient to the doctor" (main.c:182): whoever
\* stands first although it had a predecessor is there because that one has
\* exited and been reaped, and not because of an alarm that was meant for the
\* search, or of an answer that came late and changed next_process.
FirstAfterPredecessor ==
  \A p \in Patients : pc[p] = "first" /\ next_process[p] # Nobody => pc[next_process[p]] = "reaped"
=============================================================================
