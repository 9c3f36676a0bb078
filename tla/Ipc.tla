-------------------------------- MODULE Ipc ---------------------------------
(***************************************************************************)
(* c11: the life of the three System V objects of the cinema.  Each start  *)
(* of the program is a session, from whichever terminal, and sessions may  *)
(* overlap.  By default its main creates the semaphores, the queue and the *)
(* shared memory under one key, then forks sellers and clients; under the  *)
(* name of a part (argv[0]) the program does that part alone.  Ctrl+C runs *)
(* finalizer() in the SIGINT handler of every process of the session,      *)
(* wherever that process is.                                               *)
(*                                                                         *)
(* An object is identified by the session that created it; an id that was  *)
(* removed is never used again.                                            *)
(***************************************************************************)
EXTENDS Integers, FiniteSets

CONSTANTS MaxSessions,  \* bound on the number of starts
          Main,         \* the process that a start creates
          Workers       \* the sellers and clients that it forks

ASSUME IpcAssumption ==
  /\ MaxSessions \in Nat \ {0}
  /\ Main \notin Workers

Sessions == 1 .. MaxSessions

Processes == Workers \union {Main}

None == 0

Kinds == {"sem", "msg", "shm"}

VARIABLES
  ipc,       \* ipc[k]: the object of kind k that the key leads to, or None
  at,        \* at[s][p]: what process p of session s does next
  got,       \* got[s][p][k]: the id that its finalizer has looked up
  complete,  \* sessions of default_runner whose initializer has returned
  alone,     \* sessions started under the name of a part
  disturbed  \* sessions in whose time a process of another one finalized;
             \* the program does not keep this

ipcVars == <<ipc, at, got, complete, alone, disturbed>>

IpcInit ==
  /\ ipc = [k \in Kinds |-> None]
  /\ at = [s \in Sessions |-> [p \in Processes |-> "unborn"]]
  /\ got = [s \in Sessions |-> [p \in Processes |-> [k \in Kinds |-> None]]]
  /\ complete = {}
  /\ alone = {}
  /\ disturbed = {}

GoOn(s, p, from, to) == at[s][p] = from /\ at' = [at EXCEPT ![s][p] = to]

Over(s) == \A p \in Processes : at[s][p] \in {"unborn", "ended"}

Initializing == {"init_sem", "init_msg", "init_shm"}
Finalizing   == {"get_sem", "get_msg", "get_shm", "rm_shm", "rm_msg", "rm_sem"}

Finalizes(s) == \E p \in Processes : at[s][p] \in Finalizing

Others(s) == {t \in Sessions \ {s} : ~Over(t)}

-----------------------------------------------------------------------------
(* main.  A session's number is the place of its start among all starts.   *)

Fresh(s) == \A t \in 1 .. s - 1 : at[t][Main] # "unborn"

Hurried(s) == {t \in {s} : \E u \in Others(s) : Finalizes(u)}

\* default_runner().
Start(s) ==
  /\ Fresh(s)
  /\ GoOn(s, Main, "unborn", "init_sem")
  /\ disturbed' = disturbed \union Hurried(s)
  /\ UNCHANGED <<ipc, got, complete, alone>>

\* "initializer", "sellers" or "client": the last two find the objects, or
\* exit.
StartPart(s) ==
  /\ Fresh(s)
  /\ \E first \in {"init_sem", "run"} : GoOn(s, Main, "unborn", first)
  /\ alone' = alone \union {s}
  /\ disturbed' = disturbed \union Hurried(s)
  /\ UNCHANGED <<ipc, got, complete>>

\* "finalizer".  (Ctrl+C would have it begin once more, which is left out.)
StartFinalizer(s) ==
  /\ Fresh(s)
  /\ GoOn(s, Main, "unborn", "get_sem")
  /\ alone' = alone \union {s}
  /\ disturbed' = disturbed \union Hurried(s) \union Others(s)
  /\ UNCHANGED <<ipc, got, complete>>

\* Mutant: without IPC_EXCL.
CreateSemShared(s) ==
  /\ GoOn(s, Main, "init_sem", "init_msg")
  /\ ipc' = IF ipc["sem"] = None THEN [ipc EXCEPT !["sem"] = s] ELSE ipc
  /\ UNCHANGED <<got, complete, alone, disturbed>>

\* IPC_CREAT | IPC_EXCL: an object that exists is an error, and exit(1).
CreateSem(s) ==
  /\ GoOn(s, Main, "init_sem", IF ipc["sem"] = None THEN "init_msg" ELSE "ended")
  /\ ipc' = IF ipc["sem"] = None THEN [ipc EXCEPT !["sem"] = s] ELSE ipc
  /\ UNCHANGED <<got, complete, alone, disturbed>>

CreateMsg(s) ==
  /\ GoOn(s, Main, "init_msg", IF ipc["msg"] = None THEN "init_shm" ELSE "ended")
  /\ ipc' = IF ipc["msg"] = None THEN [ipc EXCEPT !["msg"] = s] ELSE ipc
  /\ UNCHANGED <<got, complete, alone, disturbed>>

\* Without IPC_EXCL: an object that exists is taken over.
CreateShm(s) ==
  /\ GoOn(s, Main, "init_shm", IF s \in alone THEN "ended" ELSE "run")
  /\ ipc' = IF ipc["shm"] = None THEN [ipc EXCEPT !["shm"] = s] ELSE ipc
  /\ complete' = IF s \in alone THEN complete ELSE complete \union {s}
  /\ UNCHANGED <<got, alone, disturbed>>

ForkWorker(s, w) ==
  /\ at[s][Main] = "run"
  /\ GoOn(s, w, "unborn", "run")
  /\ UNCHANGED <<ipc, got, complete, alone, disturbed>>

\* A client that has its ticket returns, and so do those that miss an object;
\* sellers() returns when its sellers are gone.
Leave(s, p) ==
  /\ p = Main => s \in alone /\ \A w \in Workers : at[s][w] # "run"
  /\ GoOn(s, p, "run", "ended")
  /\ UNCHANGED <<ipc, got, complete, alone, disturbed>>

-----------------------------------------------------------------------------
(* Ctrl+C, and finalizer() in every process that is in the group.          *)

CtrlC(s) ==
  /\ at[s][Main] \in Initializing \union {"run"}
  /\ at' = [at EXCEPT ![s] = [p \in Processes |->
              IF at[s][p] \in Initializing \union {"run"} THEN "get_sem" ELSE at[s][p]]]
  /\ disturbed' = disturbed \union Others(s)
  /\ UNCHANGED <<ipc, got, complete, alone>>

\* Mutant: -1 is taken for an id.
LookUpUnchecked(s, p, k, from, to) ==
  /\ GoOn(s, p, from, to)
  /\ got' = [got EXCEPT ![s][p][k] = IF ipc[k] = None THEN -1 ELSE ipc[k]]
  /\ UNCHANGED <<ipc, complete, alone, disturbed>>

LookUp(s, p, k, from, to) ==
  /\ GoOn(s, p, from, IF ipc[k] = None THEN "ended" ELSE to)
  /\ got' = [got EXCEPT ![s][p][k] = ipc[k]]
  /\ UNCHANGED <<ipc, complete, alone, disturbed>>

\* IPC_RMID of an id that is gone fails, and the result is not looked at.
Discard(s, p, k, from, to) ==
  /\ GoOn(s, p, from, to)
  /\ ipc' = IF ipc[k] = got[s][p][k] THEN [ipc EXCEPT ![k] = None] ELSE ipc
  /\ UNCHANGED <<got, complete, alone, disturbed>>

LookUpAll(s, p, next) ==
  \/ LookUp(s, p, "sem", "get_sem", "get_msg")
  \/ LookUp(s, p, "msg", "get_msg", "get_shm")
  \/ LookUp(s, p, "shm", "get_shm", next)

\* Mutants: the queue is not removed; the semaphores are removed first; the
\* handler returns.
FinalizerKeepsQueue(s, p) ==
  \/ LookUpAll(s, p, "rm_shm")
  \/ Discard(s, p, "shm", "rm_shm", "rm_sem")
  \/ Discard(s, p, "sem", "rm_sem", "ended")

FinalizerSemFirst(s, p) ==
  \/ LookUpAll(s, p, "rm_sem")
  \/ Discard(s, p, "sem", "rm_sem", "rm_msg")
  \/ Discard(s, p, "msg", "rm_msg", "rm_shm")
  \/ Discard(s, p, "shm", "rm_shm", "ended")

FinalizerReturns(s, p) ==
  \/ LookUpAll(s, p, "rm_shm")
  \/ Discard(s, p, "shm", "rm_shm", "rm_msg")
  \/ Discard(s, p, "msg", "rm_msg", "rm_sem")
  \/ Discard(s, p, "sem", "rm_sem", "run")

Finalizer(s, p) ==
  \/ LookUpAll(s, p, "rm_shm")
  \/ Discard(s, p, "shm", "rm_shm", "rm_msg")
  \/ Discard(s, p, "msg", "rm_msg", "rm_sem")
  \/ Discard(s, p, "sem", "rm_sem", "ended")

Initializer(s) == CreateSem(s) \/ CreateMsg(s) \/ CreateShm(s)

-----------------------------------------------------------------------------
IpcNext ==
  \E s \in Sessions :
    \/ Start(s) \/ StartPart(s) \/ StartFinalizer(s) \/ Initializer(s) \/ CtrlC(s)
    \/ \E w \in Workers : ForkWorker(s, w)
    \/ \E p \in Processes : Finalizer(s, p) \/ Leave(s, p)

IpcSafeSpec == IpcInit /\ [][IpcNext]_ipcVars

\* The kernel runs every process; nobody is obliged to start or to stop one.
IpcFairness ==
  \A s \in Sessions :
    WF_ipcVars(Initializer(s)) /\ \A p \in Processes : WF_ipcVars(Finalizer(s, p))

IpcSpec == IpcSafeSpec /\ IpcFairness

-----------------------------------------------------------------------------
(* Properties.                                                             *)

IpcTypeOK ==
  /\ ipc \in [Kinds -> Sessions \union {None}]
  /\ at \in [Sessions -> [Processes -> Initializing \union Finalizing \union {"unborn", "run", "ended"}]]
  /\ got \in [Sessions -> [Processes -> [Kinds -> Sessions \union {None}]]]
  /\ complete \subseteq Sessions \ alone /\ alone \subseteq Sessions /\ disturbed \subseteq Sessions

\* A session that was complete leaves nothing behind, although its processes
\* finalize at once and give up when they find an object already removed; that
\* is, unless a process of another session finalized in its time.
CompleteIsCleaned ==
  \A s \in complete \ disturbed : Over(s) => \A k \in Kinds : ipc[k] # s

\* The semaphores, created first and removed last, are a lock: while one
\* session has them, none of the other objects is left from another.
SemaphoresLock ==
  ipc["sem"] # None => \A k \in Kinds : ipc[k] \in {None, ipc["sem"]}

\* From the end of the initializer to its own Ctrl+C a session has the objects
\* it created, whatever earlier ones left and whoever else starts, initializes,
\* runs or leaves.  It needs the condition: finalizer() removes what it finds
\* under the key, so that a program "finalizer", or Ctrl+C in a client of its
\* own or in a second terminal, takes the objects of every running session.
ResourcesStay ==
  \A s \in complete \ disturbed : at[s][Main] = "run" => \A k \in Kinds : ipc[k] = s

\* "end by Ctrl+C" (main.c:1): after Ctrl+C all processes of the session end.
EndsByCtrlC ==
  \A s \in Sessions : (at[s][Main] = "get_sem") ~> Over(s)
=============================================================================
