------------------------------- MODULE Parent -------------------------------
(***************************************************************************)
(* The parent process that c09, c10 and c11 share: a loop that sleeps and  *)
(* forks, one child that never exits (the car, the doctor, the sellers),   *)
(* and a SIGCHLD handler that calls wait(0) once.  The patients of c10     *)
(* also stop themselves, which is in module Doctor.                        *)
(*                                                                         *)
(* signal() installs the handler with SA_RESTART and without SA_NOCLDSTOP: *)
(* SIGCHLD is a single pending bit, it is blocked while the handler runs,  *)
(* and it is raised when a child stops or continues as well as when one    *)
(* exits.  wait(0) blocks while no child is a zombie, and fails at once    *)
(* when there is no child.  Children are processes outside this module:    *)
(* here they only exist, stop, continue and exit.                          *)
(***************************************************************************)
EXTENDS Integers, FiniteSets

CONSTANTS main,         \* the parent itself
          Permanent,    \* the child that is forked first and never exits
          Children,     \* those that are forked in the loop: its bound
          MaxFreezes    \* bound on the number of Ctrl+Z

AllChildren == Children \union {Permanent}

ASSUME ParentAssumption ==
  /\ Permanent \notin Children
  /\ main \notin AllChildren
  /\ IsFiniteSet(Children)
  /\ MaxFreezes \in Nat

VARIABLES
  child,      \* child[c]: "none", "alive", "zombie" or "reaped"
  booted,     \* whether the first fork has been done
  pending,    \* SIGCHLD is pending for main
  handler,    \* "idle", or "wait" inside remove_zombie
  stopSent,   \* processes that have SIGTSTP pending
  stopped,    \* processes that are stopped
  freezes     \* Ctrl+Z pressed so far

parentVars == <<child, booted, pending, handler, stopSent, stopped, freezes>>

Alive   == {c \in AllChildren : child[c] = "alive"}
Zombies == {c \in AllChildren : child[c] = "zombie"}

ParentInit ==
  /\ child = [c \in AllChildren |-> "none"]
  /\ booted = FALSE
  /\ pending = FALSE
  /\ handler = "idle"
  /\ stopSent = {}
  /\ stopped = {}
  /\ freezes = 0

-----------------------------------------------------------------------------
(* main.                                                                   *)

Running == main \notin stopped /\ handler = "idle"

\* fork() may fail, and its result is only compared with 0.
Boot ==
  /\ Running
  /\ ~booted
  /\ booted' = TRUE
  /\ \E s \in {"alive", "none"} : child' = [child EXCEPT ![Permanent] = s]
  /\ UNCHANGED <<pending, handler, stopSent, stopped, freezes>>

\* Mutant: the loop does not wait for the first fork.
ForkFirst(c) ==
  /\ Running
  /\ child[c] = "none"
  /\ child' = [child EXCEPT ![c] = "alive"]
  /\ UNCHANGED <<booted, pending, handler, stopSent, stopped, freezes>>

Fork(c) ==
  /\ Running
  /\ booted
  /\ child[c] = "none"
  /\ child' = [child EXCEPT ![c] = "alive"]
  /\ UNCHANGED <<booted, pending, handler, stopSent, stopped, freezes>>

\* The kernel runs remove_zombie, with SIGCHLD blocked until it returns.
Deliver ==
  /\ Running
  /\ pending
  /\ pending' = FALSE
  /\ handler' = "wait"
  /\ UNCHANGED <<child, booted, stopSent, stopped, freezes>>

\* Mutant: wait(0) until it fails.
RemoveZombieLoop ==
  /\ main \notin stopped
  /\ handler = "wait"
  /\ \/ (\E c \in Zombies : child' = [child EXCEPT ![c] = "reaped"]) /\ UNCHANGED handler
     \/ Alive \union Zombies = {} /\ UNCHANGED child /\ handler' = "idle"
  /\ UNCHANGED <<booted, pending, stopSent, stopped, freezes>>

\* wait(0) takes one zombie, whichever; with no child at all it is ECHILD.
RemoveZombie ==
  /\ main \notin stopped
  /\ handler = "wait"
  /\ \/ \E c \in Zombies : child' = [child EXCEPT ![c] = "reaped"]
     \/ Alive \union Zombies = {} /\ UNCHANGED child
  /\ handler' = "idle"
  /\ UNCHANGED <<booted, pending, stopSent, stopped, freezes>>

-----------------------------------------------------------------------------
(* The children and the terminal.                                          *)

Exit(c) ==
  /\ child[c] = "alive"
  /\ c \notin stopped
  /\ child' = [child EXCEPT ![c] = "zombie"]
  /\ pending' = TRUE
  /\ stopSent' = stopSent \ {c}
  /\ UNCHANGED <<booted, handler, stopped, freezes>>

\* Ctrl+Z: SIGTSTP to the foreground process group.
CtrlZ ==
  /\ freezes < MaxFreezes
  /\ stopped = {} /\ stopSent = {}
  /\ freezes' = freezes + 1
  /\ stopSent' = Alive \union {main}
  /\ UNCHANGED <<child, booted, pending, handler, stopped>>

\* A process acts on SIGTSTP; a child that stops raises SIGCHLD.
Stop(p) ==
  /\ p \in stopSent
  /\ stopSent' = stopSent \ {p}
  /\ stopped' = stopped \union {p}
  /\ pending' = (pending \/ p # main)
  /\ UNCHANGED <<child, booted, handler, freezes>>

\* fg: SIGCONT to the group cancels the stops that are still pending and
\* wakes the stopped ones; a child that continues raises SIGCHLD.
Fg ==
  /\ main \in stopped
  /\ stopped' = {}
  /\ stopSent' = {}
  /\ pending' = (pending \/ stopped # {main})
  /\ UNCHANGED <<child, booted, handler, freezes>>

-----------------------------------------------------------------------------
MainNext == Boot \/ Deliver \/ RemoveZombie \/ \E c \in Children : Fork(c)

ParentNext ==
  \/ MainNext
  \/ \E c \in Children : Exit(c)
  \/ CtrlZ \/ Fg
  \/ \E p \in AllChildren \union {main} : Stop(p)

ParentSafeSpec == ParentInit /\ [][ParentNext]_parentVars

\* The kernel runs main and delivers signals, every child but the permanent
\* one exits in the end, and the user who pressed Ctrl+Z enters fg.
ParentFairness ==
  /\ WF_parentVars(MainNext)
  /\ WF_parentVars(Fg)
  /\ \A p \in AllChildren \union {main} : WF_parentVars(Stop(p))
  /\ \A c \in Children : WF_parentVars(Exit(c))

ParentSpec == ParentSafeSpec /\ ParentFairness

-----------------------------------------------------------------------------
(* Properties.                                                             *)

ParentTypeOK ==
  /\ child \in [AllChildren -> {"none", "alive", "zombie", "reaped"}]
  /\ booted \in BOOLEAN
  /\ pending \in BOOLEAN
  /\ handler \in {"idle", "wait"}
  /\ stopSent \subseteq AllChildren \union {main}
  /\ stopped \subseteq AllChildren \union {main}
  /\ freezes \in 0 .. MaxFreezes
  /\ ~booted => \A c \in AllChildren : child[c] = "none"

\* What the handler owes: a zombie for the signal that is pending and one
\* for the wait in progress.
Owed == (IF pending THEN 1 ELSE 0) + (IF handler = "wait" THEN 1 ELSE 0)

\* As long as nobody freezes the program, the wait(0) of the handler finds a
\* zombie at once and main never blocks in it, however exits and deliveries
\* interleave; the children are those of c09 and c11, which never stop
\* themselves.
HandlerNeverBlocks ==
  freezes = 0 /\ handler = "wait" => Zombies # {}

\* The inductive invariant: before the first Ctrl+Z nothing is stopped and
\* every call the handler still owes has a zombie of its own.
CallsCovered ==
  /\ freezes = 0 => stopSent = {} /\ stopped = {} /\ Cardinality(Zombies) >= Owed

\* "don't increase zombies" (c10/main.c:31, and c11/main.c:10): when the handler
\* has nothing left to do, no zombie is left either.
NoZombieLeft ==
  freezes = 0 /\ ~pending /\ handler = "idle" => Zombies = {}

\* "freezing by Ctrl+Z and the following fg command mustn't cause the
\* deadlock" (c10/main.c:32): main goes on forking whoever is still to come.
KeepsForking == \A c \in Children : <>(child[c] # "none")

\* Exits and handlers alone never keep main from forking: it does go on as
\* long as nobody presses Ctrl+Z.
CalmKeepsForking == [](freezes = 0) => KeepsForking
=============================================================================
