------------------------------ MODULE IpcProofs ------------------------------
(***************************************************************************)
(* Theorems about module Ipc, for any number of starts and of workers.     *)
(***************************************************************************)
EXTENDS Ipc, TLAPS

\* The main of session s has created its object of the kind, or never will.
SemDone(s) == at[s][Main] \notin {"unborn", "init_sem"}
MsgDone(s) == at[s][Main] \notin {"unborn", "init_sem", "init_msg"}
ShmDone(s) == at[s][Main] \notin {"unborn", "init_sem", "init_msg", "init_shm"}

GotSem  == {"get_msg", "get_shm", "rm_shm", "rm_msg", "rm_sem"}
GotMsg  == {"get_shm", "rm_shm", "rm_msg", "rm_sem"}
GotShm  == {"rm_shm", "rm_msg", "rm_sem"}

\* While a session that is not disturbed lasts, no other one finalizes.
NobodyElse ==
  \A s \in Sessions \ disturbed, t \in Sessions, p, q \in Processes :
    t # s /\ at[s][p] \notin {"unborn", "ended"} => at[t][q] \notin Finalizing

\* Workers are forked by a main that runs, and nobody finalizes before it; in
\* default_runner() it runs when it is complete.
WorkersFollow ==
  \A s \in Sessions :
    /\ ~ShmDone(s) => s \notin complete /\ \A w \in Workers : at[s][w] = "unborn"
    /\ at[s][Main] = "run" => /\ s \in complete \union alone
                              /\ \A w \in Workers : at[s][w] \in {"unborn", "run", "ended"}

\* An id that is in use, or has been looked up, is not handed out again.
UsedOnce ==
  /\ ipc["sem"] # None => SemDone(ipc["sem"])
  /\ ipc["msg"] # None => MsgDone(ipc["msg"])
  /\ ipc["shm"] # None => ShmDone(ipc["shm"])

LearntBy(s, p) ==
  LET g == got[s][p]
  IN  /\ at[s][p] \in GotSem => g["sem"] # None /\ SemDone(g["sem"])
      /\ at[s][p] \in GotMsg => g["msg"] # None /\ MsgDone(g["msg"]) /\ MsgDone(g["sem"])
      /\ at[s][p] \in GotShm => /\ g["shm"] # None /\ ShmDone(g["shm"])
                                /\ ShmDone(g["msg"]) /\ ShmDone(g["sem"])

LearntOnce == \A s \in Sessions, p \in Processes : LearntBy(s, p)

\* Nothing exists without the semaphores, and they last while a main creates
\* the rest.
Locked ==
  /\ ipc["msg"] \in {None, ipc["sem"]}
  /\ ipc["shm"] \in {None, ipc["sem"]}
  /\ \A s \in Sessions : at[s][Main] \in {"init_msg", "init_shm"} => ipc["sem"] = s

\* A finalizer that has seen the present semaphores has seen the objects that
\* belong to them, and removes those before the semaphores.
LooksInOrder ==
  \A s \in Sessions, p \in Processes :
    LET g == got[s][p]
    IN  /\ at[s][p] \in GotMsg /\ g["sem"] = ipc["sem"] => g["msg"] = ipc["sem"]
        /\ at[s][p] \in GotShm /\ g["msg"] = ipc["sem"] => g["shm"] = ipc["sem"]
        /\ at[s][p] \in {"rm_msg", "rm_sem"} /\ g["shm"] = ipc["sem"] => ipc["shm"] = None
        /\ at[s][p] = "rm_sem" /\ g["msg"] = ipc["sem"] => ipc["msg"] = None

\* A finalizer that has seen any semaphores has seen those of its session, as
\* long as they are there.
KnowsOwn ==
  \A s \in Sessions, p \in Processes :
    ipc["sem"] = s /\ at[s][p] \in GotSem => got[s][p]["sem"] = s

\* What a session that is not disturbed creates stays: until its main runs ...
Created ==
  \A s \in Sessions \ disturbed :
    /\ at[s][Main] = "init_shm" => ipc["msg"] = s
    /\ at[s][Main] = "run" /\ s \notin alone => ipc["shm"] = s

\* ... and until its own finalizers remove it, the shared memory first.
Whole ==
  \A s \in complete \ disturbed : ipc["shm"] = s =>
    /\ ipc["msg"] = s
    /\ at[s][Main] # "ended"
    /\ \A p \in Processes : at[s][p] \notin {"rm_msg", "rm_sem"}

\* From then on one of its processes is on its way to the semaphores.
OnTheWay ==
  \A s \in complete \ disturbed : ipc["sem"] = s /\ ipc["shm"] # s =>
    \E p \in Processes : at[s][p] \in {"rm_msg", "rm_sem"}

IInv ==
  /\ IpcTypeOK /\ NobodyElse /\ WorkersFollow /\ UsedOnce /\ LearntOnce
  /\ Locked /\ LooksInOrder
  /\ KnowsOwn /\ Created /\ Whole /\ OnTheWay

-----------------------------------------------------------------------------
(* What a step does, point by point.                                       *)

Places == Initializing \union
            {"unborn", "run", "get_sem", "get_msg", "get_shm", "rm_shm", "rm_msg", "rm_sem", "ended"}

\* The process p of session s goes to a place, and nobody else does.
Moves(s, p, from, to) ==
  /\ at[s][p] = from /\ at'[s][p] = to
  /\ \A t \in Sessions, q \in Processes : t # s \/ q # p => at'[t][q] = at[t][q]

LEMMA GoMoves ==
  ASSUME IpcTypeOK, NEW s \in Sessions, NEW p \in Processes, NEW from, NEW to \in Places, GoOn(s, p, from, to)
  PROVE  /\ Moves(s, p, from, to)
         /\ at' \in [Sessions -> [Processes -> Places]]
<1>1. at \in [Sessions -> [Processes -> Places]]
  BY DEF IpcTypeOK, Places, Initializing, Finalizing
<1>2. at[s] \in [Processes -> Places]
  BY <1>1
<1>3. at' = [at EXCEPT ![s] = [at[s] EXCEPT ![p] = to]] /\ at[s][p] = from
  BY DEF GoOn
<1>4. [at[s] EXCEPT ![p] = to] \in [Processes -> Places]
  BY <1>2
<1>5. at' \in [Sessions -> [Processes -> Places]]
  BY <1>1, <1>3, <1>4
<1> QED
  BY <1>1, <1>2, <1>3, <1>5 DEF Moves

\* A finalizer has looked up the object of kind k, and knows nothing else
\* that is new.
Learns(s, p, k) ==
  /\ got'[s][p][k] = ipc[k]
  /\ \A t \in Sessions, q \in Processes, j \in Kinds :
       t # s \/ q # p \/ j # k => got'[t][q][j] = got[t][q][j]

LEMMA LookUpLearns ==
  ASSUME IpcTypeOK, NEW s \in Sessions, NEW p \in Processes, NEW k \in Kinds, NEW from, NEW to \in Places,
         LookUp(s, p, k, from, to)
  PROVE  /\ Learns(s, p, k)
         /\ Moves(s, p, from, IF ipc[k] = None THEN "ended" ELSE to)
         /\ UNCHANGED <<ipc, complete, alone, disturbed>>
         /\ IpcTypeOK'
<1> DEFINE Ids == Sessions \union {None}
<1>1. got \in [Sessions -> [Processes -> [Kinds -> Ids]]] /\ ipc[k] \in Ids
  BY DEF IpcTypeOK
<1>2. got[s] \in [Processes -> [Kinds -> Ids]] /\ got[s][p] \in [Kinds -> Ids]
  BY <1>1
<1>3. got' = [got EXCEPT ![s] = [got[s] EXCEPT ![p] = [got[s][p] EXCEPT ![k] = ipc[k]]]]
  BY DEF LookUp
<1>4. [got[s][p] EXCEPT ![k] = ipc[k]] \in [Kinds -> Ids]
  BY <1>1, <1>2
<1>5. [got[s] EXCEPT ![p] = [got[s][p] EXCEPT ![k] = ipc[k]]] \in [Processes -> [Kinds -> Ids]]
  BY <1>2, <1>4
<1>6. got' \in [Sessions -> [Processes -> [Kinds -> Ids]]]
  BY <1>1, <1>3, <1>5
<1>7. Learns(s, p, k)
  <2> SUFFICES ASSUME NEW t \in Sessions, NEW q \in Processes, NEW j \in Kinds
               PROVE  /\ t # s \/ q # p \/ j # k => got'[t][q][j] = got[t][q][j]
                      /\ got'[s][p][k] = ipc[k]
    BY DEF Learns
  <2>1. t # s => got'[t] = got[t]
    BY <1>1, <1>3
  <2>2. got'[s] = [got[s] EXCEPT ![p] = [got[s][p] EXCEPT ![k] = ipc[k]]]
    BY <1>1, <1>3
  <2>3. q # p => got'[s][q] = got[s][q]
    BY <1>2, <2>2
  <2>4. got'[s][p] = [got[s][p] EXCEPT ![k] = ipc[k]]
    BY <1>2, <2>2
  <2> QED
    BY <1>2, <2>1, <2>3, <2>4
<1>8. (IF ipc[k] = None THEN "ended" ELSE to) \in Places
  BY DEF Places
<1>9. GoOn(s, p, from, IF ipc[k] = None THEN "ended" ELSE to) /\ UNCHANGED <<ipc, complete, alone, disturbed>>
  BY DEF LookUp
<1>10. /\ Moves(s, p, from, IF ipc[k] = None THEN "ended" ELSE to)
       /\ at' \in [Sessions -> [Processes -> Places]]
  BY <1>8, <1>9, GoMoves
<1> QED
  BY <1>6, <1>7, <1>9, <1>10 DEF IpcTypeOK, Places, Initializing, Finalizing

\* A finalizer has removed the object of kind k, if it is still the one that
\* it looked up.
Removes(s, p, k) ==
  /\ ipc'[k] = IF ipc[k] = got[s][p][k] THEN None ELSE ipc[k]
  /\ \A j \in Kinds : j # k => ipc'[j] = ipc[j]

LEMMA RemoveRemoves ==
  ASSUME IpcTypeOK, NEW s \in Sessions, NEW p \in Processes, NEW k \in Kinds, NEW from, NEW to \in Places,
         Discard(s, p, k, from, to)
  PROVE  /\ Removes(s, p, k)
         /\ Moves(s, p, from, to)
         /\ UNCHANGED <<got, complete, alone, disturbed>>
         /\ IpcTypeOK'
<1>1. ipc' \in [Kinds -> Sessions \union {None}] /\ Removes(s, p, k)
  BY DEF IpcTypeOK, Discard, Removes
<1>2. GoOn(s, p, from, to) /\ UNCHANGED <<got, complete, alone, disturbed>>
  BY DEF Discard
<1>3. Moves(s, p, from, to) /\ at' \in [Sessions -> [Processes -> Places]]
  BY <1>2, GoMoves
<1> QED
  BY <1>1, <1>2, <1>3 DEF IpcTypeOK, Places, Initializing, Finalizing

LEMMA Members ==
  /\ Main \in Processes /\ \A w \in Workers : w \in Processes /\ w # Main
  /\ \A p \in Processes : p = Main \/ p \in Workers
  /\ {"sem", "msg", "shm"} \subseteq Kinds /\ \A k \in Kinds : k \in {"sem", "msg", "shm"}
  /\ None \notin Sessions /\ Sessions \subseteq Nat
  /\ \A s \in Sessions : 1 .. s - 1 = {t \in Sessions : t < s}
BY IpcAssumption DEF Processes, Kinds, None, Sessions

LEMMA TypeStep == IInv /\ [IpcNext]_ipcVars => IpcTypeOK'
<1> SUFFICES ASSUME IpcTypeOK, WorkersFollow, [IpcNext]_ipcVars PROVE IpcTypeOK'
  BY DEF IInv
<1> USE Members, GoMoves
<1>0. Places = Initializing \union Finalizing \union {"unborn", "run", "ended"}
  BY DEF Places, Initializing, Finalizing
<1>12. {"init_sem", "init_msg", "init_shm", "run", "get_sem", "ended"} \subseteq Places
  BY DEF Places, Initializing
<1>1. ASSUME NEW s \in Sessions, Start(s) PROVE IpcTypeOK'
  <2>1. GoOn(s, Main, "unborn", "init_sem")
    BY <1>1 DEF Start
  <2>2. at' \in [Sessions -> [Processes -> Places]]
    BY <2>1, <1>12
  <2> QED
    BY <1>0, <1>1, <2>2 DEF Start, IpcTypeOK, Hurried
<1>9. ASSUME NEW s \in Sessions, StartPart(s) PROVE IpcTypeOK'
  <2>1. PICK first \in {"init_sem", "run"} : GoOn(s, Main, "unborn", first)
    BY <1>9 DEF StartPart
  <2>2. at' \in [Sessions -> [Processes -> Places]] /\ at[s][Main] = "unborn"
    BY <2>1, <1>12 DEF Moves
  <2>3. s \notin complete
    BY <2>2 DEF WorkersFollow, ShmDone
  <2> QED
    BY <1>0, <1>9, <2>2, <2>3 DEF StartPart, IpcTypeOK, Hurried
<1>10. ASSUME NEW s \in Sessions, StartFinalizer(s) PROVE IpcTypeOK'
  <2>1. GoOn(s, Main, "unborn", "get_sem")
    BY <1>10 DEF StartFinalizer
  <2>2. at' \in [Sessions -> [Processes -> Places]] /\ at[s][Main] = "unborn"
    BY <2>1, <1>12 DEF Moves
  <2>3. s \notin complete
    BY <2>2 DEF WorkersFollow, ShmDone
  <2> QED
    BY <1>0, <1>10, <2>2, <2>3 DEF StartFinalizer, IpcTypeOK, Hurried, Others
<1>2. ASSUME NEW s \in Sessions, CreateSem(s) PROVE IpcTypeOK'
  <2> DEFINE to == IF ipc["sem"] = None THEN "init_msg" ELSE "ended"
  <2>1. to \in Places /\ GoOn(s, Main, "init_sem", to)
    BY <1>2, <1>12 DEF CreateSem
  <2>2. at' \in [Sessions -> [Processes -> Places]]
    BY <2>1
  <2> QED
    BY <1>0, <1>2, <2>2 DEF CreateSem, IpcTypeOK
<1>3. ASSUME NEW s \in Sessions, CreateMsg(s) PROVE IpcTypeOK'
  <2> DEFINE to == IF ipc["msg"] = None THEN "init_shm" ELSE "ended"
  <2>1. to \in Places /\ GoOn(s, Main, "init_msg", to)
    BY <1>3, <1>12 DEF CreateMsg
  <2>2. at' \in [Sessions -> [Processes -> Places]]
    BY <2>1
  <2> QED
    BY <1>0, <1>3, <2>2 DEF CreateMsg, IpcTypeOK
<1>4. ASSUME NEW s \in Sessions, CreateShm(s) PROVE IpcTypeOK'
  <2> DEFINE to == IF s \in alone THEN "ended" ELSE "run"
  <2>1. to \in Places /\ GoOn(s, Main, "init_shm", to)
    BY <1>4, <1>12 DEF CreateShm
  <2>2. at' \in [Sessions -> [Processes -> Places]]
    BY <2>1
  <2> QED
    BY <1>0, <1>4, <2>2 DEF CreateShm, IpcTypeOK
<1>5. ASSUME NEW s \in Sessions, CtrlC(s) PROVE IpcTypeOK'
  BY <1>5 DEF CtrlC, IpcTypeOK, Finalizing, Others
<1>6. ASSUME NEW s \in Sessions, NEW w \in Workers, ForkWorker(s, w) PROVE IpcTypeOK'
  <2>1. at' \in [Sessions -> [Processes -> Places]]
    BY <1>6 DEF ForkWorker, Places
  <2> QED
    BY <1>0, <1>6, <2>1 DEF ForkWorker, IpcTypeOK
<1>11. ASSUME NEW s \in Sessions, NEW p \in Processes, Leave(s, p) PROVE IpcTypeOK'
  <2>1. at' \in [Sessions -> [Processes -> Places]]
    BY <1>11 DEF Leave, Places
  <2> QED
    BY <1>0, <1>11, <2>1 DEF Leave, IpcTypeOK
<1>7. ASSUME NEW s \in Sessions, NEW p \in Processes, Finalizer(s, p) PROVE IpcTypeOK'
  BY <1>7, LookUpLearns, RemoveRemoves DEF Finalizer, LookUpAll, Places
<1>8. CASE UNCHANGED ipcVars
  BY <1>8 DEF ipcVars, IpcTypeOK
<1> QED
  BY <1>1, <1>2, <1>3, <1>4, <1>5, <1>6, <1>7, <1>8, <1>9, <1>10, <1>11 DEF IpcNext, Initializer

-----------------------------------------------------------------------------
(* Every step keeps the invariant.                                         *)

\* What is done stays done.
DoneStays ==
  \A t \in Sessions :
    (SemDone(t) => SemDone(t)') /\ (MsgDone(t) => MsgDone(t)') /\ (ShmDone(t) => ShmDone(t)')

LEMMA Typed ==
  ASSUME IpcTypeOK
  PROVE  /\ \A k \in Kinds : ipc[k] # None => ipc[k] \in Sessions
         /\ \A t \in Sessions, q \in Processes, k \in Kinds :
              got[t][q][k] # None => got[t][q][k] \in Sessions
BY DEF IpcTypeOK

LEMMA LearntStays ==
  ASSUME IInv, DoneStays, NEW t \in Sessions, NEW q \in Processes,
         \A k \in Kinds : got'[t][q][k] = got[t][q][k],
         at'[t][q] \in GotSem => at'[t][q] = at[t][q] \/ {at'[t][q], at[t][q]} \subseteq GotShm
  PROVE  LearntBy(t, q)'
<1>1. CASE at'[t][q] \notin GotSem
  BY <1>1 DEF LearntBy, GotSem, GotMsg, GotShm
<1>2. CASE at'[t][q] \in GotSem
  <2>1. /\ at[t][q] \in GotSem
        /\ at'[t][q] \in GotMsg <=> at[t][q] \in GotMsg
        /\ at'[t][q] \in GotShm <=> at[t][q] \in GotShm
    BY <1>2 DEF GotSem, GotMsg, GotShm
  <2>2. LearntBy(t, q)
    BY DEF IInv, LearntOnce
  <2>3. PICK sem, msg, shm : /\ got'[t][q]["sem"] = sem /\ got[t][q]["sem"] = sem
                             /\ got'[t][q]["msg"] = msg /\ got[t][q]["msg"] = msg
                             /\ got'[t][q]["shm"] = shm /\ got[t][q]["shm"] = shm
    BY Members
  <2>4. /\ sem # None => sem \in Sessions
        /\ msg # None => msg \in Sessions
        /\ shm # None => shm \in Sessions
    BY <2>3, Typed, Members DEF IInv
  <2>5. /\ at[t][q] \in GotShm => at[t][q] \in GotMsg
        /\ at[t][q] \in GotMsg => at[t][q] \in GotSem
    BY DEF GotSem, GotShm, GotMsg
  <2>6. at[t][q] \in GotSem => sem # None /\ SemDone(sem)'
    BY <2>2, <2>3, <2>4 DEF LearntBy, DoneStays
  <2>7. at[t][q] \in GotMsg => msg # None /\ MsgDone(msg)' /\ MsgDone(sem)'
    BY <2>2, <2>3, <2>4, <2>5 DEF LearntBy, DoneStays
  <2>8. at[t][q] \in GotShm => shm # None /\ ShmDone(shm)' /\ ShmDone(msg)' /\ ShmDone(sem)'
    BY <2>2, <2>3, <2>4, <2>5 DEF LearntBy, DoneStays
  <2> QED
    BY <2>1, <2>3, <2>6, <2>7, <2>8 DEF LearntBy, SemDone, MsgDone, ShmDone
<1> QED
  BY <1>1, <1>2

\* Nobody begins to last or to finalize.
LEMMA NobodyElseStays ==
  ASSUME NobodyElse, disturbed \subseteq disturbed',
         \A t \in Sessions, q \in Processes :
           /\ at'[t][q] \notin {"unborn", "ended"} =>
                \E p \in Processes : at[t][p] \notin {"unborn", "ended"}
           /\ at'[t][q] \in Finalizing => at[t][q] \in Finalizing
  PROVE  NobodyElse'
<1> SUFFICES ASSUME NEW s \in Sessions \ disturbed', NEW t \in Sessions \ {s},
                    NEW p \in Processes, NEW q \in Processes,
                    at'[s][p] \notin {"unborn", "ended"}, at'[t][q] \in Finalizing
             PROVE  FALSE
  BY DEF NobodyElse
<1>1. PICK r \in Processes : at[s][r] \notin {"unborn", "ended"}
  OBVIOUS
<1>2. at[t][q] \in Finalizing
  OBVIOUS
<1> QED
  BY <1>1, <1>2 DEF NobodyElse

\* The first step of a session, whatever part it is for.
LEMMA BirthKeeps ==
  ASSUME IInv, NEW s \in Sessions, NEW to \in {"init_sem", "run", "get_sem"},
         Moves(s, Main, "unborn", to),
         UNCHANGED <<ipc, got, complete>>,
         to = "run" => s \in alone', alone \subseteq alone',
         disturbed \subseteq disturbed', IpcTypeOK', NobodyElse'
  PROVE  IInv'
<1>1. /\ at[s][Main] = "unborn" /\ at'[s][Main] = to
      /\ ipc' = ipc /\ got' = got /\ complete' = complete
      /\ complete \subseteq Sessions \ {s}
      /\ \A q \in Workers : at[s][q] = "unborn" /\ at'[s][q] = "unborn"
      /\ \A t \in Sessions \ {s}, q \in Processes : at'[t][q] = at[t][q]
  BY Members DEF IInv, Moves, WorkersFollow, ShmDone, IpcTypeOK
<1>2. \A t \in Sessions, q \in Processes : at'[t][q] = at[t][q] \/ (t = s /\ at'[t][q] = to)
  BY <1>1, Members
<1>3. DoneStays
  BY <1>1, Members DEF SemDone, MsgDone, ShmDone, DoneStays
<1>4. WorkersFollow'
  BY <1>1, Members DEF IInv, WorkersFollow, ShmDone
<1>5. UsedOnce'
  BY <1>1, <1>3, Members, Typed DEF IInv, DoneStays, UsedOnce
<1>6. LearntOnce'
  <2> SUFFICES ASSUME NEW t \in Sessions, NEW q \in Processes PROVE LearntBy(t, q)'
    BY Zenon DEF LearntOnce
  <2>1. \A k \in Kinds : got'[t][q][k] = got[t][q][k]
    BY <1>1
  <2>2. at'[t][q] \in GotSem => at'[t][q] = at[t][q]
    BY <1>2 DEF GotSem
  <2> QED
    BY <1>3, <2>1, <2>2, LearntStays, Zenon
<1>7. Locked'
  BY <1>1, <1>2, Members DEF IInv, Locked
<1>8. LooksInOrder'
  BY <1>1, <1>2 DEF IInv, GotMsg, GotShm, LooksInOrder
<1>9. KnowsOwn'
  BY <1>1, <1>2 DEF IInv, GotSem, KnowsOwn
<1>10. Created'
  <2> SUFFICES ASSUME NEW t \in Sessions \ disturbed'
               PROVE  /\ at'[t][Main] = "init_shm" => ipc["msg"] = t
                      /\ at'[t][Main] = "run" /\ t \notin alone' => ipc["shm"] = t
    BY <1>1 DEF Created
  <2>1. CASE t = s
    BY <1>1, <2>1
  <2>2. CASE t # s
    BY <1>1, <2>2, Members DEF IInv, Created
  <2> QED
    BY <2>1, <2>2
<1>11. Whole'
  BY <1>1, Members DEF IInv, Whole
<1>12. OnTheWay'
  <2> SUFFICES ASSUME NEW t \in complete \ disturbed', ipc["sem"] = t, ipc["shm"] # t
               PROVE  \E p \in Processes : at'[t][p] \in {"rm_msg", "rm_sem"}
    BY <1>1 DEF OnTheWay
  <2>1. PICK p \in Processes : at[t][p] \in {"rm_msg", "rm_sem"}
    BY DEF IInv, OnTheWay
  <2> QED
    BY <1>1, <2>1
<1> QED
  BY <1>4, <1>5, <1>6, <1>7, <1>8, <1>9, <1>10, <1>11, <1>12 DEF IInv

LEMMA StartKeeps ==
  ASSUME IInv, NEW s \in Sessions, Start(s) \/ StartPart(s) \/ StartFinalizer(s)
  PROVE  IInv'
<1>1. PICK to \in {"init_sem", "run", "get_sem"} :
        /\ GoOn(s, Main, "unborn", to)
        /\ to = "run" => s \in alone'
        /\ to = "get_sem" => Others(s) \subseteq disturbed'
  BY DEF Start, StartPart, StartFinalizer
<1>2. /\ UNCHANGED <<ipc, got, complete>>
      /\ alone \subseteq alone' /\ disturbed \subseteq disturbed' /\ Hurried(s) \subseteq disturbed'
  BY DEF Start, StartPart, StartFinalizer
<1>3. IpcTypeOK /\ IpcTypeOK'
  BY TypeStep DEF IpcNext, IInv
<1>4. Moves(s, Main, "unborn", to)
  <2>1. to \in Places /\ Main \in Processes
    BY Members DEF Places, Initializing
  <2> QED
    BY <1>1, <1>3, <2>1, GoMoves
<1>5. \A q \in Workers : at'[s][q] = "unborn"
  BY <1>4, Members DEF IInv, Moves, WorkersFollow, ShmDone
<1>6. NobodyElse'
  <2> SUFFICES ASSUME NEW r \in Sessions \ disturbed', NEW t \in Sessions \ {r},
                      NEW p \in Processes, NEW q \in Processes,
                      at'[r][p] \notin {"unborn", "ended"}, at'[t][q] \in Finalizing
               PROVE  FALSE
    BY DEF NobodyElse
  <2>1. CASE r = s
    <3>1. at[t][q] \in Finalizing
      BY <1>4, <2>1 DEF Moves
    <3>2. t \in Others(s) /\ Finalizes(t)
      BY <2>1, <3>1 DEF Others, Finalizes, Over, Finalizing
    <3>3. s \in Hurried(s)
      BY <3>2 DEF Hurried
    <3> QED
      BY <1>2, <2>1, <3>3
  <2>2. CASE t = s
    <3>1. to = "get_sem"
      BY <1>1, <1>4, <1>5, <2>2, Members DEF Moves, Finalizing
    <3>2. r \in Others(s)
      BY <1>4, <2>2 DEF Moves, Others, Over
    <3> QED
      BY <1>1, <3>1, <3>2
  <2>3. CASE r # s /\ t # s
    <3>1. at[r][p] \notin {"unborn", "ended"} /\ at[t][q] \in Finalizing
      BY <1>4, <2>3 DEF Moves
    <3> QED
      BY <1>2, <3>1 DEF IInv, NobodyElse
  <2> QED
    BY <2>1, <2>2, <2>3
<1> QED
  BY <1>1, <1>2, <1>3, <1>4, <1>6, BirthKeeps

\* A step of main while it creates the objects: what does not depend on them.
LEMMA CreatingKeeps ==
  ASSUME IInv, NEW s \in Sessions, NEW to \in Places,
         Moves(s, Main, at[s][Main], to), at[s][Main] \in Initializing,
         UNCHANGED <<got, alone, disturbed>>,
         to \in {"init_msg", "init_shm", "run", "ended"},
         complete' = IF to = "run" THEN complete \union {s} ELSE complete,
         DoneStays
  PROVE  /\ NobodyElse' /\ WorkersFollow'
         /\ s \notin complete
         /\ \A t \in Sessions \ {s}, q \in Processes : at'[t][q] = at[t][q]
         /\ \A q \in Workers : at[s][q] = "unborn" /\ at'[s][q] = "unborn"
<1>1. s \notin complete /\ \A q \in Workers : at[s][q] = "unborn"
  BY DEF IInv, WorkersFollow, ShmDone, Initializing
<1>2. \A t \in Sessions \ {s}, q \in Processes : at'[t][q] = at[t][q]
  BY DEF Moves
<1>3. at'[s][Main] = to /\ \A q \in Workers : at'[s][q] = "unborn"
  BY <1>1, Members DEF Moves
<1>4. NobodyElse'
  <2>1. at[s][Main] \notin {"unborn", "ended"} /\ to \notin Finalizing
    BY DEF Initializing, Finalizing
  <2>2. ASSUME NEW t \in Sessions, NEW q \in Processes
        PROVE  /\ at'[t][q] \notin {"unborn", "ended"} =>
                    \E p \in Processes : at[t][p] \notin {"unborn", "ended"}
               /\ at'[t][q] \in Finalizing => at[t][q] \in Finalizing
    BY <1>2, <1>3, <2>1, Members DEF Finalizing
  <2> QED
    BY <2>2, NobodyElseStays DEF IInv
<1>5. WorkersFollow'
  BY <1>1, <1>2, <1>3, Members DEF IInv, WorkersFollow, ShmDone, Moves
<1> QED
  BY <1>1, <1>2, <1>3, <1>4, <1>5

LEMMA CreateSemKeeps ==
  ASSUME IInv, NEW s \in Sessions, CreateSem(s)
  PROVE  IInv'
<1> DEFINE to == IF ipc["sem"] = None THEN "init_msg" ELSE "ended"
<1>1. /\ IpcTypeOK
      /\ Moves(s, Main, "init_sem", to)
      /\ ipc' = IF ipc["sem"] = None THEN [ipc EXCEPT !["sem"] = s] ELSE ipc
      /\ UNCHANGED <<got, complete, alone, disturbed>>
  BY Members, GoMoves DEF IInv, CreateSem, Places, Initializing
<1>2. IpcTypeOK'
  BY <1>1, TypeStep DEF IpcNext, Initializer
<1>3. DoneStays
  BY <1>1, Members DEF Moves, SemDone, MsgDone, ShmDone, DoneStays
<1>4. /\ NobodyElse' /\ WorkersFollow'
      /\ s \notin complete
      /\ \A t \in Sessions \ {s}, q \in Processes : at'[t][q] = at[t][q]
      /\ \A q \in Workers : at[s][q] = "unborn" /\ at'[s][q] = "unborn"
  <2>1. to \in Places /\ to \in {"init_msg", "init_shm", "run", "ended"} /\ to # "run"
    BY DEF Places, Initializing
  <2>2. at[s][Main] \in Initializing /\ Moves(s, Main, at[s][Main], to)
    BY <1>1 DEF Moves, Initializing
  <2> QED
    BY <1>1, <1>3, <2>1, <2>2, CreatingKeeps
<1>7. LearntOnce'
  BY <1>1, <1>3, Members, LearntStays DEF Moves, GotSem, LearntOnce
<1>5. CASE ipc["sem"] # None
  <2>1. ipc' = ipc /\ to = "ended"
    BY <1>1, <1>5
  <2>2. UsedOnce'
    BY <1>1, <1>3, <2>1, Members, Typed DEF IInv, DoneStays, UsedOnce
  <2>3. Locked'
    BY <1>1, <2>1, Members DEF IInv, Moves, Locked
  <2>4. LooksInOrder'
    BY <1>1, <2>1, Members DEF IInv, Moves, GotMsg, GotShm, LooksInOrder
  <2>5. KnowsOwn'
    BY <1>1, <1>4, <2>1, Members DEF IInv, Moves, GotSem, KnowsOwn
  <2>6. Created'
    BY <1>1, <2>1, Members DEF IInv, Moves, Created
  <2>7. Whole'
    BY <1>1, <1>4, <2>1, Members DEF IInv, Whole, IpcTypeOK
  <2>9. OnTheWay'
    BY <1>1, <1>4, <2>1, Members DEF IInv, OnTheWay, IpcTypeOK
  <2> QED
    BY <1>2, <1>4, <1>7, <2>2, <2>3, <2>4, <2>5, <2>6, <2>7, <2>9 DEF IInv
<1>6. CASE ipc["sem"] = None
  <2>1. /\ ipc'["sem"] = s /\ ipc'["msg"] = None /\ ipc'["shm"] = None
        /\ ipc["msg"] = None /\ ipc["shm"] = None /\ to = "init_msg"
    BY <1>1, <1>6 DEF IInv, Locked, IpcTypeOK, Kinds
  <2>0. ~SemDone(s) /\ SemDone(s)' /\ s # None
    BY <1>1, <2>1, Members DEF Moves, SemDone
  <2>2. UsedOnce'
    BY <2>0, <2>1 DEF UsedOnce
  <2>3. Locked'
    BY <1>1, <1>6, <2>1, Members DEF IInv, Moves, Locked
  <2>4. LooksInOrder'
    BY <1>1, <2>1, <2>0, Members DEF IInv, Moves, GotSem, GotMsg, GotShm, LooksInOrder, LearntOnce, LearntBy, MsgDone, ShmDone, SemDone
  <2>5. KnowsOwn'
    BY <1>1, <2>1, <1>4, Members DEF IInv, Moves, GotSem, KnowsOwn
  <2>6. Created'
    BY <1>1, <1>4, <2>1, Members DEF IInv, Moves, Created
  <2>7. Whole'
    BY <1>1, <1>4, <2>1, Members DEF IInv, Whole, IpcTypeOK, Sessions
  <2>9. OnTheWay'
    BY <1>1, <1>4, <2>1 DEF OnTheWay
  <2> QED
    BY <1>2, <1>4, <1>7, <2>2, <2>3, <2>4, <2>5, <2>6, <2>7, <2>9 DEF IInv
<1> QED
  BY <1>5, <1>6

LEMMA CreateMsgKeeps ==
  ASSUME IInv, NEW s \in Sessions, CreateMsg(s)
  PROVE  IInv'
<1> DEFINE to == IF ipc["msg"] = None THEN "init_shm" ELSE "ended"
<1>1. /\ IpcTypeOK
      /\ Moves(s, Main, "init_msg", to)
      /\ ipc' = IF ipc["msg"] = None THEN [ipc EXCEPT !["msg"] = s] ELSE ipc
      /\ UNCHANGED <<got, complete, alone, disturbed>>
  BY Members, GoMoves DEF IInv, CreateMsg, Places, Initializing
<1>2. IpcTypeOK'
  BY <1>1, TypeStep DEF IpcNext, Initializer
<1>3. DoneStays
  BY <1>1, Members DEF Moves, SemDone, MsgDone, ShmDone, DoneStays
<1>4. /\ NobodyElse' /\ WorkersFollow'
      /\ s \notin complete
      /\ \A t \in Sessions \ {s}, q \in Processes : at'[t][q] = at[t][q]
      /\ \A q \in Workers : at[s][q] = "unborn" /\ at'[s][q] = "unborn"
  <2>1. to \in Places /\ to \in {"init_msg", "init_shm", "run", "ended"} /\ to # "run"
    BY DEF Places, Initializing
  <2>2. at[s][Main] \in Initializing /\ Moves(s, Main, at[s][Main], to)
    BY <1>1 DEF Moves, Initializing
  <2> QED
    BY <1>1, <1>3, <2>1, <2>2, CreatingKeeps
<1>5. LearntOnce'
  BY <1>1, <1>3, Members, LearntStays DEF Moves, GotSem, LearntOnce
<1>6. /\ ipc["sem"] = s /\ s # None /\ ipc'["sem"] = s /\ ipc'["shm"] = ipc["shm"]
      /\ ipc'["msg"] = s /\ ipc["msg"] \in {None, s} /\ ipc["shm"] = None
      /\ ~MsgDone(s) /\ MsgDone(s)' /\ SemDone(s)'
  <2>1. ipc["sem"] = s
    BY <1>1, Members DEF IInv, Locked, Moves
  <2>2. ~MsgDone(s) /\ MsgDone(s)' /\ SemDone(s)' /\ ~ShmDone(s) /\ s # None
    BY <1>1, Members DEF Moves, MsgDone, SemDone, ShmDone
  <2>3. ipc["msg"] = None /\ ipc["shm"] = None
    BY <2>1, <2>2 DEF IInv, Locked, UsedOnce
  <2> QED
    BY <1>1, <2>1, <2>2, <2>3, Members DEF IpcTypeOK
<1>7. UsedOnce'
  BY <1>3, <1>6 DEF UsedOnce
<1>8. Locked'
  BY <1>1, <1>4, <1>6, Members DEF IInv, Moves, Locked
<1>9. LooksInOrder'
  BY <1>1, <1>4, <1>6, Members DEF IInv, Moves, GotMsg, GotShm, LooksInOrder, LearntOnce, LearntBy, MsgDone
<1>10. KnowsOwn'
  BY <1>1, <1>4, <1>6, Members DEF IInv, Moves, GotSem, KnowsOwn
<1>11. Created'
  BY <1>1, <1>4, <1>6, Members DEF IInv, Moves, Created
<1>12. Whole'
  BY <1>1, <1>4, <1>6, Members DEF IInv, Whole, IpcTypeOK
<1>14. OnTheWay'
  BY <1>1, <1>4, <1>6 DEF OnTheWay
<1> QED
  BY <1>2, <1>4, <1>5, <1>7, <1>8, <1>9, <1>10, <1>11, <1>12, <1>14 DEF IInv

LEMMA CreateShmKeeps ==
  ASSUME IInv, NEW s \in Sessions, CreateShm(s)
  PROVE  IInv'
<1> DEFINE to == IF s \in alone THEN "ended" ELSE "run"
<1>1. /\ IpcTypeOK
      /\ Moves(s, Main, "init_shm", to)
      /\ ipc' = IF ipc["shm"] = None THEN [ipc EXCEPT !["shm"] = s] ELSE ipc
      /\ UNCHANGED <<got, alone, disturbed>>
      /\ complete' = IF to = "run" THEN complete \union {s} ELSE complete
  BY Members, GoMoves DEF IInv, CreateShm, Places, Initializing
<1>2. IpcTypeOK'
  BY <1>1, TypeStep DEF IpcNext, Initializer
<1>3. DoneStays
  BY <1>1, Members DEF Moves, SemDone, MsgDone, ShmDone, DoneStays
<1>4. /\ NobodyElse' /\ WorkersFollow'
      /\ s \notin complete
      /\ \A t \in Sessions \ {s}, q \in Processes : at'[t][q] = at[t][q]
      /\ \A q \in Workers : at[s][q] = "unborn" /\ at'[s][q] = "unborn"
  <2>1. at[s][Main] \in Initializing /\ Moves(s, Main, at[s][Main], to) /\ to \in Places
    BY <1>1 DEF Moves, Initializing, Places
  <2> QED
    BY <1>1, <1>3, <2>1, CreatingKeeps
<1>5. LearntOnce'
  BY <1>1, <1>3, Members, LearntStays DEF Moves, GotSem, LearntOnce
<1>6. /\ ipc["sem"] = s /\ s # None /\ ipc'["sem"] = s /\ ipc["shm"] = None
      /\ ipc'["msg"] = ipc["msg"] /\ ipc["msg"] \in {None, s} /\ ipc'["shm"] = s
      /\ ~ShmDone(s) /\ MsgDone(s)' /\ SemDone(s)' /\ ShmDone(s)'
  <2>1. ipc["sem"] = s
    BY <1>1, Members DEF IInv, Locked, Moves
  <2>2. MsgDone(s)' /\ SemDone(s)' /\ ~ShmDone(s) /\ ShmDone(s)' /\ s # None
    BY <1>1, Members DEF Moves, MsgDone, SemDone, ShmDone
  <2>3. ipc["msg"] \in {None, s} /\ ipc["shm"] = None
    BY <2>1, <2>2 DEF IInv, Locked, UsedOnce
  <2> QED
    BY <1>1, <2>1, <2>2, <2>3, Members DEF IpcTypeOK
<1>7. UsedOnce'
  BY <1>3, <1>6 DEF UsedOnce
<1>8. Locked'
  BY <1>1, <1>4, <1>6, Members DEF IInv, Moves, Locked
<1>9. LooksInOrder'
  BY <1>1, <1>4, <1>6, Members DEF IInv, Moves, GotMsg, GotShm, LooksInOrder, LearntOnce, LearntBy, ShmDone
<1>10. KnowsOwn'
  BY <1>1, <1>4, <1>6, Members DEF IInv, Moves, GotSem, KnowsOwn
<1>11. Created'
  BY <1>1, <1>4, <1>6, Members DEF IInv, Moves, Created
<1>12. Whole'
  BY <1>1, <1>4, <1>6, Members DEF IInv, Moves, Whole, Created, IpcTypeOK
<1>14. OnTheWay'
  BY <1>1, <1>4, <1>6 DEF OnTheWay
<1> QED
  BY <1>2, <1>4, <1>5, <1>7, <1>8, <1>9, <1>10, <1>11, <1>12, <1>14 DEF IInv

\* A worker begins, or a process leaves.
LEMMA ComesOrGoes ==
  ASSUME IInv, NEW s \in Sessions,
         (\E w \in Workers : ForkWorker(s, w)) \/ (\E p \in Processes : Leave(s, p))
  PROVE  IInv'
<1>1. PICK p \in Processes, from \in {"unborn", "run"} :
        /\ Moves(s, p, from, IF from = "run" THEN "ended" ELSE "run")
        /\ from = "unborn" => at[s][Main] = "run"
        /\ p = Main => from = "run" /\ s \in alone
  <2>1. ASSUME NEW w \in Workers, ForkWorker(s, w)
        PROVE  Moves(s, w, "unborn", "run") /\ at[s][Main] = "run" /\ w \in Processes /\ w # Main
    BY <2>1, Members, GoMoves DEF IInv, ForkWorker, Places
  <2>2. ASSUME NEW p \in Processes, Leave(s, p)
        PROVE  Moves(s, p, "run", "ended") /\ (p = Main => s \in alone)
    BY <2>2, Members, GoMoves DEF IInv, Leave, Places
  <2> QED
    BY <2>1, <2>2
<1>2. UNCHANGED <<ipc, got, complete, alone, disturbed>> /\ IpcTypeOK /\ IpcTypeOK'
  BY Members, TypeStep DEF ForkWorker, Leave, IpcNext, IInv
<1>3. /\ \A t \in Sessions :
           \/ at'[t][Main] = at[t][Main]
           \/ t \in alone /\ at[t][Main] = "run" /\ at'[t][Main] = "ended"
      /\ \A t \in Sessions, q \in Processes :
           \/ at'[t][q] = at[t][q]
           \/ /\ t = s /\ at[t][q] \in {"unborn", "run"}
              /\ at'[t][q] \in {"run", "ended"}
              /\ at[t][q] = "unborn" => at[s][Main] = "run" /\ Main \in Processes
      /\ \A t \in Sessions, q \in Processes : t # s \/ q # p => at'[t][q] = at[t][q]
  <2>1. /\ at[s][p] = from /\ at'[s][p] = IF from = "run" THEN "ended" ELSE "run"
        /\ \A t \in Sessions, q \in Processes : t # s \/ q # p => at'[t][q] = at[t][q]
    BY <1>1 DEF Moves
  <2>2. ASSUME NEW t \in Sessions
        PROVE  \/ at'[t][Main] = at[t][Main]
               \/ t \in alone /\ at[t][Main] = "run" /\ at'[t][Main] = "ended"
    <3>1. CASE t # s \/ p # Main
      BY <2>1, <3>1, Members
    <3>2. CASE t = s /\ p = Main
      BY <1>1, <2>1, <3>2
    <3> QED
      BY <3>1, <3>2
  <2>3. ASSUME NEW t \in Sessions, NEW q \in Processes
        PROVE  \/ at'[t][q] = at[t][q]
               \/ /\ t = s /\ at[t][q] \in {"unborn", "run"}
                  /\ at'[t][q] \in {"run", "ended"}
                  /\ at[t][q] = "unborn" => at[s][Main] = "run" /\ Main \in Processes
    <3>1. CASE t # s \/ q # p
      BY <2>1, <3>1
    <3>2. CASE t = s /\ q = p
      BY <1>1, <2>1, <3>2, Members
    <3> QED
      BY <3>1, <3>2
  <2> QED
    BY <2>1, <2>2, <2>3
<1>4. DoneStays
  BY <1>3, Zenon DEF SemDone, MsgDone, ShmDone, DoneStays
<1>5. NobodyElse'
  <2>1. ASSUME NEW t \in Sessions, NEW q \in Processes
        PROVE  /\ at'[t][q] \notin {"unborn", "ended"} =>
                    \E r \in Processes : at[t][r] \notin {"unborn", "ended"}
               /\ at'[t][q] \in Finalizing => at[t][q] \in Finalizing
    BY <1>3 DEF Finalizing
  <2> QED
    BY <1>2, <2>1, NobodyElseStays DEF IInv
<1>6. WorkersFollow'
  <2> SUFFICES ASSUME NEW t \in Sessions
               PROVE  /\ ~ShmDone(t)' => t \notin complete /\ \A q \in Workers : at'[t][q] = "unborn"
                      /\ at'[t][Main] = "run" => /\ t \in complete \union alone
                                                 /\ \A q \in Workers : at'[t][q] \in {"unborn", "run", "ended"}
    BY <1>2 DEF WorkersFollow
  <2>1. CASE t = s
    <3>1. ShmDone(s)
      BY <1>1, Members DEF ShmDone, IInv, WorkersFollow, Moves
    <3>2. \A q \in Workers : at'[s][q] \in {at[s][q], "run", "ended"}
      BY <1>3, Members
    <3> QED
      BY <1>3, <1>4, <2>1, <3>1, <3>2, Members DEF IInv, WorkersFollow, DoneStays
  <2>2. CASE t # s
    BY <1>3, <2>2, Members DEF IInv, WorkersFollow, ShmDone
  <2> QED
    BY <2>1, <2>2
<1>7. UsedOnce' /\ LearntOnce'
  <2>1. UsedOnce'
    BY <1>2, <1>4, Members, Typed DEF IInv, DoneStays, UsedOnce
  <2> QED
    BY <1>2, <1>3, <1>4, <2>1, LearntStays DEF GotSem, LearntOnce
<1>8. Locked'
  BY <1>2, <1>3 DEF IInv, Locked
<1>9. LooksInOrder'
  BY <1>2, <1>3 DEF IInv, LooksInOrder, GotMsg, GotShm
<1>10. KnowsOwn'
  BY <1>2, <1>3 DEF IInv, KnowsOwn, GotSem
<1>11. Created'
  BY <1>2, <1>3 DEF IInv, Created
<1>12. Whole'
  <2> SUFFICES ASSUME NEW t \in complete \ disturbed, ipc["shm"] = t
               PROVE  /\ ipc["msg"] = t /\ at'[t][Main] # "ended"
                      /\ \A q \in Processes : at'[t][q] \notin {"rm_msg", "rm_sem"}
    BY <1>2 DEF Whole
  <2>1. t \in Sessions /\ t \notin alone
    BY <1>2 DEF IpcTypeOK
  <2> QED
    BY <1>3, <2>1 DEF IInv, Whole
<1>14. OnTheWay'
  <2> SUFFICES ASSUME NEW t \in complete \ disturbed, ipc["sem"] = t, ipc["shm"] # t
               PROVE  \E q \in Processes : at'[t][q] \in {"rm_msg", "rm_sem"}
    BY <1>2 DEF OnTheWay
  <2>1. PICK q \in Processes : at[t][q] \in {"rm_msg", "rm_sem"}
    BY DEF IInv, OnTheWay
  <2> QED
    BY <1>2, <1>3, <2>1 DEF IpcTypeOK
<1> QED
  BY <1>2, <1>5, <1>6, <1>7, <1>8, <1>9, <1>10, <1>11, <1>12, <1>14 DEF IInv

LEMMA CtrlCKeeps ==
  ASSUME IInv, NEW s \in Sessions, CtrlC(s)
  PROVE  IInv'
<1>1. /\ IpcTypeOK
      /\ at[s][Main] \in {"init_sem", "init_msg", "init_shm", "run"}
      /\ at'[s][Main] = "get_sem"
      /\ \A q \in Processes : at'[s][q] = at[s][q] \/ at'[s][q] = "get_sem"
      /\ \A t \in Sessions \ {s}, q \in Processes : at'[t][q] = at[t][q]
      /\ UNCHANGED <<ipc, got, complete, alone>>
      /\ disturbed' = disturbed \union Others(s)
  BY Members DEF IInv, IpcTypeOK, CtrlC, Initializing, Finalizing
<1>2. IpcTypeOK'
  BY <1>1, TypeStep DEF IpcNext
<1>3. DoneStays
  BY <1>1, Members DEF SemDone, MsgDone, ShmDone, DoneStays
<1>4. NobodyElse'
  <2> SUFFICES ASSUME NEW r \in Sessions \ disturbed', NEW t \in Sessions \ {r},
                      NEW p \in Processes, NEW q \in Processes,
                      at'[r][p] \notin {"unborn", "ended"}, at'[t][q] \in Finalizing
               PROVE  FALSE
    BY DEF NobodyElse
  <2>1. CASE t = s
    <3>1. at[r][p] \notin {"unborn", "ended"}
      BY <1>1, <2>1
    <3>2. r \in Others(s)
      BY <2>1, <3>1 DEF Others, Over
    <3> QED
      BY <1>1, <3>2
  <2>2. CASE t # s
    <3>1. at[t][q] \in Finalizing
      BY <1>1, <2>2
    <3>2. \E x \in Processes : at[r][x] \notin {"unborn", "ended"}
      BY <1>1, Members
    <3> QED
      BY <1>1, <3>1, <3>2 DEF IInv, NobodyElse
  <2> QED
    BY <2>1, <2>2
<1>5. WorkersFollow'
  BY <1>1, Members DEF IInv, WorkersFollow, ShmDone
<1>6. UsedOnce'
  BY <1>1, <1>3, Members, Typed DEF IInv, DoneStays, UsedOnce
<1>7. LearntOnce'
  BY <1>1, <1>3, LearntStays DEF GotSem, LearntOnce
<1>8. Locked'
  BY <1>1, Members DEF IInv, Locked
<1>9. LooksInOrder'
  BY <1>1 DEF IInv, LooksInOrder, GotMsg, GotShm
<1>10. KnowsOwn'
  BY <1>1 DEF IInv, KnowsOwn, GotSem
<1>11. Created'
  BY <1>1, Members DEF IInv, Created
<1>12. Whole'
  <2> SUFFICES ASSUME NEW t \in complete \ disturbed', ipc["shm"] = t
               PROVE  /\ ipc["msg"] = t /\ at'[t][Main] # "ended"
                      /\ \A p \in Processes : at'[t][p] \notin {"rm_msg", "rm_sem"}
    BY <1>1 DEF Whole
  <2>1. t \in Sessions /\ ipc["msg"] = t /\ at[t][Main] # "ended"
        /\ \A p \in Processes : at[t][p] \notin {"rm_msg", "rm_sem"}
    BY <1>1 DEF IInv, Whole, IpcTypeOK
  <2>2. CASE t = s
    BY <1>1, <2>1, <2>2
  <2>3. CASE t # s
    <3>1. \A q \in Processes : at'[t][q] = at[t][q]
      BY <1>1, <2>1, <2>3
    <3>2. Main \in Processes
      BY Members
    <3> QED
      BY <2>1, <3>1, <3>2
  <2> QED
    BY <2>1, <2>2, <2>3
<1>14. OnTheWay'
  <2> SUFFICES ASSUME NEW t \in complete \ disturbed', ipc["sem"] = t, ipc["shm"] # t
               PROVE  \E p \in Processes : at'[t][p] \in {"rm_msg", "rm_sem"}
    BY <1>1 DEF OnTheWay
  <2>1. PICK p \in Processes : at[t][p] \in {"rm_msg", "rm_sem"}
    BY <1>1 DEF IInv, OnTheWay
  <2>2. at'[t][p] = at[t][p]
    BY <1>1, <2>1 DEF IInv, IpcTypeOK, CtrlC, Initializing
  <2> QED
    BY <2>1, <2>2
<1> QED
  BY <1>2, <1>4, <1>5, <1>6, <1>7, <1>8, <1>9, <1>10, <1>11, <1>12, <1>14 DEF IInv

-----------------------------------------------------------------------------
(* The finalizer.                                                          *)

\* What a step of a finalizer leaves alone, whatever it looks up or removes.
LEMMA FinalizerFrame ==
  ASSUME IInv, NEW s \in Sessions, NEW p \in Processes, NEW to,
         Moves(s, p, at[s][p], to),
         at[s][p] \in {"get_sem"} \union GotSem, to \in GotSem \union {"ended"},
         UNCHANGED <<complete, alone, disturbed>>
  PROVE  /\ DoneStays /\ NobodyElse' /\ WorkersFollow'
         /\ at[s][Main] \notin {"unborn", "init_sem", "init_msg", "init_shm", "run"}
         /\ \A t \in Sessions : at[t][Main] \in {"init_msg", "init_shm", "run"} <=>
                               at'[t][Main] \in {"init_msg", "init_shm", "run"}
         /\ \A t \in Sessions : at[t][Main] \in {"init_msg", "init_shm", "run"} => at'[t][Main] = at[t][Main]
         /\ \A t \in Sessions, q \in Processes : t # s \/ q # p => at'[t][q] = at[t][q]
<1>1. at[s][Main] \notin {"unborn", "init_sem", "init_msg", "init_shm", "run"}
  BY Members DEF IInv, WorkersFollow, ShmDone, GotSem
<1>2. \A t \in Sessions, q \in Processes : t # s \/ q # p => at'[t][q] = at[t][q]
  BY DEF Moves
<1>3. at'[s][p] = to
  BY DEF Moves
<1>4. at'[s][Main] \notin {"unborn", "init_sem", "init_msg", "init_shm", "run"}
  BY <1>1, <1>2, <1>3, Members DEF GotSem
<1>5. DoneStays
  BY <1>2, <1>4, Members DEF SemDone, MsgDone, ShmDone, DoneStays
<1>6. NobodyElse'
  <2>1. at[s][p] \in Finalizing /\ at[s][p] \notin {"unborn", "ended"}
    BY DEF GotSem, Finalizing
  <2>2. ASSUME NEW t \in Sessions, NEW q \in Processes
        PROVE  /\ at'[t][q] \notin {"unborn", "ended"} =>
                    \E r \in Processes : at[t][r] \notin {"unborn", "ended"}
               /\ at'[t][q] \in Finalizing => at[t][q] \in Finalizing
    BY <1>2, <1>3, <2>1
  <2> QED
    BY <2>2, NobodyElseStays DEF IInv
<1>7. WorkersFollow'
  BY <1>1, <1>2, <1>4, Members DEF IInv, WorkersFollow, ShmDone
<1> QED
  BY <1>1, <1>2, <1>4, <1>5, <1>6, <1>7, Members

LEMMA LookUpSemKeeps ==
  ASSUME IInv, NEW s \in Sessions, NEW p \in Processes, LookUp(s, p, "sem", "get_sem", "get_msg")
  PROVE  IInv'
<1> DEFINE to == IF ipc["sem"] = None THEN "ended" ELSE "get_msg"
<1>1. /\ Learns(s, p, "sem") /\ Moves(s, p, "get_sem", to) /\ at[s][p] = "get_sem" /\ at'[s][p] = to
      /\ UNCHANGED <<ipc, complete, alone, disturbed>> /\ IpcTypeOK /\ IpcTypeOK'
  BY LookUpLearns, Members DEF IInv, Places, Moves
<1>2. /\ DoneStays /\ NobodyElse' /\ WorkersFollow'
      /\ at[s][Main] \notin {"unborn", "init_sem", "init_msg", "init_shm", "run"}
      /\ \A t \in Sessions : at[t][Main] \in {"init_msg", "init_shm", "run"} <=>
                            at'[t][Main] \in {"init_msg", "init_shm", "run"}
      /\ \A t \in Sessions : at[t][Main] \in {"init_msg", "init_shm", "run"} => at'[t][Main] = at[t][Main]
      /\ \A t \in Sessions, q \in Processes : t # s \/ q # p => at'[t][q] = at[t][q]
  BY <1>1, FinalizerFrame DEF GotSem
<1>3. /\ got'[s][p]["sem"] = ipc["sem"]
      /\ got'[s][p]["msg"] = got[s][p]["msg"]
      /\ got'[s][p]["shm"] = got[s][p]["shm"]
      /\ \A t \in Sessions, q \in Processes, j \in Kinds : t # s \/ q # p => got'[t][q][j] = got[t][q][j]
  BY <1>1, Members DEF Learns
<1>4. UsedOnce'
  BY <1>1, <1>2, Members, Typed DEF DoneStays, IInv, UsedOnce
<1>5. LearntOnce'
  <2>1. ASSUME NEW t \in Sessions, NEW q \in Processes, t # s \/ q # p PROVE LearntBy(t, q)'
    BY <1>2, <1>3, <2>1, LearntStays
  <2>2. LearntBy(s, p)'
    BY <1>1, <1>2, <1>3, <1>4 DEF LearntBy, GotSem, GotMsg, GotShm, UsedOnce
  <2> QED
    BY <2>1, <2>2 DEF LearntOnce
<1>6. Locked'
  BY <1>1, <1>2 DEF IInv, Locked
<1>7. LooksInOrder'
  BY <1>1, <1>2, <1>3, Members DEF IInv, LooksInOrder, GotMsg, GotShm, Locked
<1>8. KnowsOwn'
  BY <1>1, <1>2, <1>3, Members DEF IInv, KnowsOwn, GotSem
<1>9. Created'
  BY <1>1, <1>2, Members DEF IInv, Created
<1>10. Whole'
  <2> SUFFICES ASSUME NEW t \in complete \ disturbed, ipc["shm"] = t
               PROVE  /\ ipc["msg"] = t /\ at'[t][Main] # "ended"
                      /\ \A q \in Processes : at'[t][q] \notin {"rm_msg", "rm_sem"}
    BY <1>1 DEF Whole
  <2>1. t \in Sessions /\ ipc["msg"] = t /\ at[t][Main] # "ended"
        /\ \A q \in Processes : at[t][q] \notin {"rm_msg", "rm_sem"}
    BY <1>1 DEF IInv, Whole, IpcTypeOK
  <2>2. ipc["sem"] = t /\ t # None
    BY <2>1, Members DEF IInv, Locked
  <2>3. at'[s][p] \notin {"rm_msg", "rm_sem", "ended"}
    BY <1>1, <2>1, <2>2
  <2> QED
    BY <1>2, <2>1, <2>3, Members
<1>12. OnTheWay'
  <2> SUFFICES ASSUME NEW t \in complete \ disturbed, ipc["sem"] = t, ipc["shm"] # t
               PROVE  \E q \in Processes : at'[t][q] \in {"rm_msg", "rm_sem"}
    BY <1>1 DEF OnTheWay
  <2>1. PICK q \in Processes : at[t][q] \in {"rm_msg", "rm_sem"}
    BY DEF IInv, OnTheWay
  <2>2. t # s \/ q # p
    BY <1>1, <2>1
  <2>3. t \in Sessions
    BY <1>1 DEF IpcTypeOK
  <2> QED
    BY <1>2, <2>1, <2>2, <2>3
<1> QED
  BY <1>1, <1>2, <1>4, <1>5, <1>6, <1>7, <1>8, <1>9, <1>10, <1>12 DEF IInv

LEMMA LookUpMsgKeeps ==
  ASSUME IInv, NEW s \in Sessions, NEW p \in Processes, LookUp(s, p, "msg", "get_msg", "get_shm")
  PROVE  IInv'
<1> DEFINE to == IF ipc["msg"] = None THEN "ended" ELSE "get_shm"
<1>1. /\ Learns(s, p, "msg") /\ Moves(s, p, "get_msg", to) /\ at[s][p] = "get_msg" /\ at'[s][p] = to
      /\ UNCHANGED <<ipc, complete, alone, disturbed>> /\ IpcTypeOK /\ IpcTypeOK'
  BY LookUpLearns, Members DEF IInv, Places, Moves
<1>2. /\ DoneStays /\ NobodyElse' /\ WorkersFollow'
      /\ at[s][Main] \notin {"unborn", "init_sem", "init_msg", "init_shm", "run"}
      /\ \A t \in Sessions : at[t][Main] \in {"init_msg", "init_shm", "run"} <=>
                            at'[t][Main] \in {"init_msg", "init_shm", "run"}
      /\ \A t \in Sessions : at[t][Main] \in {"init_msg", "init_shm", "run"} => at'[t][Main] = at[t][Main]
      /\ \A t \in Sessions, q \in Processes : t # s \/ q # p => at'[t][q] = at[t][q]
  BY <1>1, FinalizerFrame DEF GotSem
<1>3. /\ got'[s][p]["msg"] = ipc["msg"]
      /\ got'[s][p]["sem"] = got[s][p]["sem"]
      /\ got'[s][p]["shm"] = got[s][p]["shm"]
      /\ \A t \in Sessions, q \in Processes, j \in Kinds : t # s \/ q # p => got'[t][q][j] = got[t][q][j]
  BY <1>1, Members DEF Learns
<1>4. UsedOnce'
  BY <1>1, <1>2, Members, Typed DEF DoneStays, IInv, UsedOnce
<1>5. LearntOnce'
  <2>1. ASSUME NEW t \in Sessions, NEW q \in Processes, t # s \/ q # p PROVE LearntBy(t, q)'
    BY <1>2, <1>3, <2>1, LearntStays
  <2>2. PICK sem \in Sessions, msg \in Sessions \cup {None} : got[s][p]["sem"] = sem /\ ipc["msg"] = msg
    BY <1>1, Typed, Members DEF IInv, LearntOnce, LearntBy, GotSem
  <2>3. sem # None /\ SemDone(sem)
    BY <1>1, <2>2 DEF IInv, LearntOnce, LearntBy, GotSem
  <2>4. ASSUME msg # None PROVE MsgDone(sem) /\ MsgDone(msg) /\ msg \in Sessions
    <3>1. MsgDone(msg) /\ msg \in Sessions /\ ipc["sem"] = msg
      BY <1>1, <2>2, <2>4, Typed, Members DEF IInv, UsedOnce, Locked
    <3>2. at[sem][Main] = "init_msg" => ipc["sem"] = sem
      BY DEF IInv, Locked
    <3> QED
      BY <2>3, <3>1, <3>2 DEF MsgDone, SemDone
  <2>5. LearntBy(s, p)'
    <3>1. CASE msg = None
      BY <1>1, <2>2, <3>1 DEF LearntBy, GotSem, GotMsg, GotShm
    <3>2. CASE msg # None
      <4>1. SemDone(sem)' /\ MsgDone(sem)' /\ MsgDone(msg)'
        BY <1>2, <2>3, <2>4, <3>2 DEF DoneStays
      <4>2. at'[s][p] = "get_shm" /\ got'[s][p]["sem"] = sem /\ got'[s][p]["msg"] = msg
        BY <1>1, <1>3, <2>2, <3>2
      <4> QED
        BY <2>3, <3>2, <4>1, <4>2 DEF LearntBy, GotSem, GotMsg, GotShm, SemDone, MsgDone, ShmDone
    <3> QED
      BY <3>1, <3>2
  <2> QED
    BY <2>1, <2>5 DEF LearntOnce
<1>6. Locked'
  BY <1>1, <1>2 DEF IInv, Locked
<1>7. LooksInOrder'
  BY <1>1, <1>2, <1>3, Members DEF IInv, LooksInOrder, GotMsg, GotShm, Locked
<1>8. KnowsOwn'
  BY <1>1, <1>2, <1>3, Members DEF IInv, KnowsOwn, GotSem
<1>9. Created'
  BY <1>1, <1>2, Members DEF IInv, Created
<1>10. Whole'
  <2> SUFFICES ASSUME NEW t \in complete \ disturbed, ipc["shm"] = t
               PROVE  /\ ipc["msg"] = t /\ at'[t][Main] # "ended"
                      /\ \A q \in Processes : at'[t][q] \notin {"rm_msg", "rm_sem"}
    BY <1>1 DEF Whole
  <2>1. t \in Sessions /\ ipc["msg"] = t /\ at[t][Main] # "ended"
        /\ \A q \in Processes : at[t][q] \notin {"rm_msg", "rm_sem"}
    BY <1>1 DEF IInv, Whole, IpcTypeOK
  <2>2. ipc["sem"] = t /\ t # None
    BY <2>1, Members DEF IInv, Locked
  <2>3. at'[s][p] \notin {"rm_msg", "rm_sem", "ended"}
    BY <1>1, <2>1, <2>2
  <2> QED
    BY <1>2, <2>1, <2>3, Members
<1>12. OnTheWay'
  <2> SUFFICES ASSUME NEW t \in complete \ disturbed, ipc["sem"] = t, ipc["shm"] # t
               PROVE  \E q \in Processes : at'[t][q] \in {"rm_msg", "rm_sem"}
    BY <1>1 DEF OnTheWay
  <2>1. PICK q \in Processes : at[t][q] \in {"rm_msg", "rm_sem"}
    BY DEF IInv, OnTheWay
  <2>2. t # s \/ q # p
    BY <1>1, <2>1
  <2>3. t \in Sessions
    BY <1>1 DEF IpcTypeOK
  <2> QED
    BY <1>2, <2>1, <2>2, <2>3
<1> QED
  BY <1>1, <1>2, <1>4, <1>5, <1>6, <1>7, <1>8, <1>9, <1>10, <1>12 DEF IInv

LEMMA LookUpShmKeeps ==
  ASSUME IInv, NEW s \in Sessions, NEW p \in Processes, LookUp(s, p, "shm", "get_shm", "rm_shm")
  PROVE  IInv'
<1> DEFINE to == IF ipc["shm"] = None THEN "ended" ELSE "rm_shm"
<1>1. /\ Learns(s, p, "shm") /\ Moves(s, p, "get_shm", to) /\ at[s][p] = "get_shm" /\ at'[s][p] = to
      /\ UNCHANGED <<ipc, complete, alone, disturbed>> /\ IpcTypeOK /\ IpcTypeOK'
  BY LookUpLearns, Members DEF IInv, Places, Moves
<1>2. /\ DoneStays /\ NobodyElse' /\ WorkersFollow'
      /\ at[s][Main] \notin {"unborn", "init_sem", "init_msg", "init_shm", "run"}
      /\ \A t \in Sessions : at[t][Main] \in {"init_msg", "init_shm", "run"} <=>
                            at'[t][Main] \in {"init_msg", "init_shm", "run"}
      /\ \A t \in Sessions : at[t][Main] \in {"init_msg", "init_shm", "run"} => at'[t][Main] = at[t][Main]
      /\ \A t \in Sessions, q \in Processes : t # s \/ q # p => at'[t][q] = at[t][q]
  BY <1>1, FinalizerFrame DEF GotSem
<1>3. /\ got'[s][p]["shm"] = ipc["shm"]
      /\ got'[s][p]["sem"] = got[s][p]["sem"]
      /\ got'[s][p]["msg"] = got[s][p]["msg"]
      /\ \A t \in Sessions, q \in Processes, j \in Kinds : t # s \/ q # p => got'[t][q][j] = got[t][q][j]
  BY <1>1, Members DEF Learns
<1>4. UsedOnce'
  BY <1>1, <1>2, Members, Typed DEF DoneStays, IInv, UsedOnce
<1>5. LearntOnce'
  <2>1. ASSUME NEW t \in Sessions, NEW q \in Processes, t # s \/ q # p PROVE LearntBy(t, q)'
    BY <1>2, <1>3, <2>1, LearntStays
  <2>2. PICK sem \in Sessions, msg \in Sessions, shm \in Sessions \cup {None} :
          got[s][p]["sem"] = sem /\ got[s][p]["msg"] = msg /\ ipc["shm"] = shm
    BY <1>1, Typed, Members DEF IInv, LearntOnce, LearntBy, GotSem, GotMsg
  <2>3. sem # None /\ msg # None /\ SemDone(sem) /\ MsgDone(sem) /\ MsgDone(msg)
    BY <1>1, <2>2 DEF IInv, LearntOnce, LearntBy, GotSem, GotMsg
  <2>4. ASSUME shm # None PROVE ShmDone(sem) /\ ShmDone(msg) /\ ShmDone(shm) /\ shm \in Sessions
    <3>1. ShmDone(shm) /\ shm \in Sessions /\ ipc["sem"] = shm
      BY <1>1, <2>2, <2>4, Typed, Members DEF IInv, UsedOnce, Locked
    <3>2. /\ at[sem][Main] = "init_shm" => ipc["sem"] = sem
          /\ at[msg][Main] = "init_shm" => ipc["sem"] = msg
      BY DEF IInv, Locked
    <3> QED
      BY <2>3, <3>1, <3>2 DEF MsgDone, SemDone, ShmDone
  <2>5. LearntBy(s, p)'
    <3>1. CASE shm = None
      BY <1>1, <2>2, <3>1 DEF LearntBy, GotSem, GotMsg, GotShm
    <3>2. CASE shm # None
      <4>1. /\ SemDone(sem)' /\ MsgDone(sem)' /\ ShmDone(sem)'
            /\ MsgDone(msg)' /\ ShmDone(msg)' /\ ShmDone(shm)'
        BY <1>2, <2>2, <2>3, <2>4, <3>2 DEF DoneStays
      <4>2. /\ at'[s][p] = "rm_shm"
            /\ got'[s][p]["sem"] = sem /\ got'[s][p]["msg"] = msg /\ got'[s][p]["shm"] = shm
        BY <1>1, <1>3, <2>2, <3>2
      <4> QED
        BY <2>3, <3>2, <4>1, <4>2 DEF LearntBy, GotSem, GotMsg, GotShm, SemDone, MsgDone, ShmDone
    <3> QED
      BY <3>1, <3>2
  <2> QED
    BY <2>1, <2>5 DEF LearntOnce
<1>6. Locked'
  BY <1>1, <1>2 DEF IInv, Locked
<1>7. LooksInOrder'
  BY <1>1, <1>2, <1>3, Members DEF IInv, LooksInOrder, GotMsg, GotShm, Locked
<1>8. KnowsOwn'
  BY <1>1, <1>2, <1>3, Members DEF IInv, KnowsOwn, GotSem
<1>9. Created'
  BY <1>1, <1>2, Members DEF IInv, Created
<1>10. Whole'
  <2> SUFFICES ASSUME NEW t \in complete \ disturbed, ipc["shm"] = t
               PROVE  /\ ipc["msg"] = t /\ at'[t][Main] # "ended"
                      /\ \A q \in Processes : at'[t][q] \notin {"rm_msg", "rm_sem"}
    BY <1>1 DEF Whole
  <2>1. t \in Sessions /\ ipc["msg"] = t /\ at[t][Main] # "ended"
        /\ \A q \in Processes : at[t][q] \notin {"rm_msg", "rm_sem"}
    BY <1>1 DEF IInv, Whole, IpcTypeOK
  <2>2. ipc["sem"] = t /\ t # None
    BY <2>1, Members DEF IInv, Locked
  <2>3. at'[s][p] \notin {"rm_msg", "rm_sem", "ended"}
    BY <1>1, <2>1, <2>2
  <2> QED
    BY <1>2, <2>1, <2>3, Members
<1>12. OnTheWay'
  <2> SUFFICES ASSUME NEW t \in complete \ disturbed, ipc["sem"] = t, ipc["shm"] # t
               PROVE  \E q \in Processes : at'[t][q] \in {"rm_msg", "rm_sem"}
    BY <1>1 DEF OnTheWay
  <2>1. PICK q \in Processes : at[t][q] \in {"rm_msg", "rm_sem"}
    BY DEF IInv, OnTheWay
  <2>2. t # s \/ q # p
    BY <1>1, <2>1
  <2>3. t \in Sessions
    BY <1>1 DEF IpcTypeOK
  <2> QED
    BY <1>2, <2>1, <2>2, <2>3
<1> QED
  BY <1>1, <1>2, <1>4, <1>5, <1>6, <1>7, <1>8, <1>9, <1>10, <1>12 DEF IInv

LEMMA RemoveShmKeeps ==
  ASSUME IInv, NEW s \in Sessions, NEW p \in Processes, Discard(s, p, "shm", "rm_shm", "rm_msg")
  PROVE  IInv'
<1>1. /\ Removes(s, p, "shm") /\ Moves(s, p, "rm_shm", "rm_msg") /\ at[s][p] = "rm_shm" /\ at'[s][p] = "rm_msg"
      /\ UNCHANGED <<got, complete, alone, disturbed>> /\ IpcTypeOK /\ IpcTypeOK'
  BY RemoveRemoves, Members DEF IInv, Places, Moves
<1>2. /\ DoneStays /\ NobodyElse' /\ WorkersFollow'
      /\ at[s][Main] \notin {"unborn", "init_sem", "init_msg", "init_shm", "run"}
      /\ \A t \in Sessions : at[t][Main] \in {"init_msg", "init_shm", "run"} <=>
                            at'[t][Main] \in {"init_msg", "init_shm", "run"}
      /\ \A t \in Sessions : at[t][Main] \in {"init_msg", "init_shm", "run"} => at'[t][Main] = at[t][Main]
      /\ \A t \in Sessions, q \in Processes : t # s \/ q # p => at'[t][q] = at[t][q]
  BY <1>1, FinalizerFrame DEF GotSem
<1> DEFINE g == got[s][p]
<1>3. /\ ipc'["shm"] = IF ipc["shm"] = g["shm"] THEN None ELSE ipc["shm"]
      /\ ipc'["sem"] = ipc["sem"]
      /\ ipc'["msg"] = ipc["msg"]
  BY <1>1, Members DEF Removes
<1>4. g["sem"] # None /\ g["msg"] # None /\ g["shm"] # None
      /\ ShmDone(g["sem"]) /\ ShmDone(g["msg"]) /\ ShmDone(g["shm"])
  BY <1>1 DEF IInv, LearntOnce, LearntBy, GotSem, GotMsg, GotShm
<1>5. UsedOnce'
  BY <1>2, <1>3, Members, Typed DEF IInv, UsedOnce, DoneStays
<1>6. LearntOnce'
  BY <1>1, <1>2, Members, LearntStays DEF LearntOnce, GotSem, GotShm
<1>7. Locked'
  BY <1>1, <1>2, <1>3 DEF IInv, Locked
<1>8. LooksInOrder'
  BY <1>1, <1>2, <1>3, <1>4, Members DEF IInv, LooksInOrder, GotMsg, GotShm, Locked
<1>9. KnowsOwn'
  BY <1>1, <1>2, <1>3, Members DEF IInv, KnowsOwn, GotSem
<1>10. Created'
  <2> SUFFICES ASSUME NEW t \in Sessions \ disturbed, at[t][Main] = "run"
               PROVE  FALSE
    BY <1>1, <1>2, <1>3 DEF IInv, Created
  <2>1. t # s
    BY <1>2
  <2> QED
    BY <1>1, <2>1, Members DEF IInv, NobodyElse, Finalizing
<1>11. Whole'
  <2> SUFFICES ASSUME NEW t \in complete \ disturbed, ipc'["shm"] = t
               PROVE  /\ ipc'["msg"] = t /\ at'[t][Main] # "ended"
                      /\ \A q \in Processes : at'[t][q] \notin {"rm_msg", "rm_sem"}
    BY <1>1 DEF Whole
  <2>1. t \in Sessions /\ t # None /\ ipc["shm"] = t
    BY <1>1, <1>3, Members DEF IpcTypeOK
  <2>2. ipc["msg"] = t /\ at[t][Main] # "ended"
        /\ \A q \in Processes : at[t][q] \notin {"rm_msg", "rm_sem"}
    BY <1>1, <2>1 DEF IInv, Whole
  <2>3. ipc["sem"] = t
    BY <2>1 DEF IInv, Locked
  <2>4. s # t
    <3>1. g["shm"] # t
      BY <1>3, <2>1
    <3>2. s = t => g["sem"] = t
      BY <1>1, <2>3 DEF IInv, KnowsOwn, GotSem
    <3>3. g["sem"] = t => g["shm"] = t
      BY <1>1, <2>3 DEF IInv, LooksInOrder, GotMsg, GotShm
    <3> QED
      BY <3>1, <3>2, <3>3
  <2> QED
    BY <1>2, <1>3, <2>1, <2>2, <2>4, Members
<1>13. OnTheWay'
  <2> SUFFICES ASSUME NEW t \in complete \ disturbed, ipc'["sem"] = t, ipc'["shm"] # t
               PROVE  \E q \in Processes : at'[t][q] \in {"rm_msg", "rm_sem"}
    BY <1>1 DEF OnTheWay
  <2>1. t \in Sessions /\ t # None /\ ipc["sem"] = t
    BY <1>1, <1>3, Members DEF IpcTypeOK
  <2>2. CASE ipc["shm"] = t
    <3>1. at[t][Main] \notin {"unborn", "ended"} /\ t \notin disturbed
      BY <1>1, <2>1, <2>2 DEF IInv, Whole, WorkersFollow, ShmDone
    <3>2. s = t
      BY <1>1, <2>1, <3>1, Members DEF IInv, NobodyElse, Finalizing
    <3> QED
      BY <1>1, <3>2
  <2>3. CASE ipc["shm"] # t
    <3>1. PICK q \in Processes : at[t][q] \in {"rm_msg", "rm_sem"}
      BY <2>1, <2>3 DEF IInv, OnTheWay
    <3> QED
      BY <1>1, <1>2, <2>1, <3>1
  <2> QED
    BY <2>2, <2>3
<1> QED
  BY <1>1, <1>2, <1>5, <1>6, <1>7, <1>8, <1>9, <1>10, <1>11, <1>13 DEF IInv

LEMMA RemoveMsgKeeps ==
  ASSUME IInv, NEW s \in Sessions, NEW p \in Processes, Discard(s, p, "msg", "rm_msg", "rm_sem")
  PROVE  IInv'
<1>1. /\ Removes(s, p, "msg") /\ Moves(s, p, "rm_msg", "rm_sem") /\ at[s][p] = "rm_msg" /\ at'[s][p] = "rm_sem"
      /\ UNCHANGED <<got, complete, alone, disturbed>> /\ IpcTypeOK /\ IpcTypeOK'
  BY RemoveRemoves, Members DEF IInv, Places, Moves
<1>2. /\ DoneStays /\ NobodyElse' /\ WorkersFollow'
      /\ at[s][Main] \notin {"unborn", "init_sem", "init_msg", "init_shm", "run"}
      /\ \A t \in Sessions : at[t][Main] \in {"init_msg", "init_shm", "run"} <=>
                            at'[t][Main] \in {"init_msg", "init_shm", "run"}
      /\ \A t \in Sessions : at[t][Main] \in {"init_msg", "init_shm", "run"} => at'[t][Main] = at[t][Main]
      /\ \A t \in Sessions, q \in Processes : t # s \/ q # p => at'[t][q] = at[t][q]
  BY <1>1, FinalizerFrame DEF GotSem
<1> DEFINE g == got[s][p]
<1>3. /\ ipc'["msg"] = IF ipc["msg"] = g["msg"] THEN None ELSE ipc["msg"]
      /\ ipc'["sem"] = ipc["sem"]
      /\ ipc'["shm"] = ipc["shm"]
  BY <1>1, Members DEF Removes
<1>4. g["sem"] # None /\ g["msg"] # None /\ g["shm"] # None
      /\ ShmDone(g["sem"]) /\ ShmDone(g["msg"]) /\ ShmDone(g["shm"])
  BY <1>1 DEF IInv, LearntOnce, LearntBy, GotSem, GotMsg, GotShm
<1>5. UsedOnce'
  BY <1>2, <1>3, Members, Typed DEF IInv, UsedOnce, DoneStays
<1>6. LearntOnce'
  BY <1>1, <1>2, Members, LearntStays DEF LearntOnce, GotSem, GotShm
<1>7. Locked'
  BY <1>1, <1>2, <1>3 DEF IInv, Locked
<1>8. LooksInOrder'
  BY <1>1, <1>2, <1>3, <1>4, Members DEF IInv, LooksInOrder, GotMsg, GotShm, Locked
<1>9. KnowsOwn'
  BY <1>1, <1>2, <1>3, Members DEF IInv, KnowsOwn, GotSem
<1>10. Created'
  BY <1>1, <1>2, <1>3, <1>4 DEF IInv, Created, ShmDone
<1>11. Whole'
  <2> SUFFICES ASSUME NEW t \in complete \ disturbed, ipc'["shm"] = t
               PROVE  /\ ipc'["msg"] = t /\ at'[t][Main] # "ended"
                      /\ \A q \in Processes : at'[t][q] \notin {"rm_msg", "rm_sem"}
    BY <1>1 DEF Whole
  <2>1. t \in Sessions /\ t # None /\ ipc["shm"] = t
    BY <1>1, <1>3, Members DEF IpcTypeOK
  <2>2. ipc["msg"] = t /\ at[t][Main] # "ended"
        /\ \A q \in Processes : at[t][q] \notin {"rm_msg", "rm_sem"}
    BY <1>1, <2>1 DEF IInv, Whole
  <2>3. ipc["sem"] = t
    BY <2>1 DEF IInv, Locked
  <2>4. s # t
    BY <1>1, <2>2
  <2>5. g["msg"] # t
    <3>1. g["msg"] = t => g["shm"] = t /\ ipc["shm"] = None
      BY <1>1, <2>3 DEF IInv, LooksInOrder, GotShm
    <3> QED
      BY <2>1, <3>1
  <2> QED
    BY <1>2, <1>3, <2>1, <2>2, <2>4, <2>5, Members
<1>13. OnTheWay'
  <2> SUFFICES ASSUME NEW t \in complete \ disturbed, ipc'["sem"] = t, ipc'["shm"] # t
               PROVE  \E q \in Processes : at'[t][q] \in {"rm_msg", "rm_sem"}
    BY <1>1 DEF OnTheWay
  <2>1. t \in Sessions /\ t # None /\ ipc["sem"] = t
    BY <1>1, <1>3, Members DEF IpcTypeOK
  <2>2. PICK q \in Processes : at[t][q] \in {"rm_msg", "rm_sem"}
    BY <1>3, <2>1 DEF IInv, OnTheWay
  <2> QED
    BY <1>1, <1>2, <2>1, <2>2
<1> QED
  BY <1>1, <1>2, <1>5, <1>6, <1>7, <1>8, <1>9, <1>10, <1>11, <1>13 DEF IInv

LEMMA RemoveSemKeeps ==
  ASSUME IInv, NEW s \in Sessions, NEW p \in Processes, Discard(s, p, "sem", "rm_sem", "ended")
  PROVE  IInv'
<1>1. /\ Removes(s, p, "sem") /\ Moves(s, p, "rm_sem", "ended") /\ at[s][p] = "rm_sem" /\ at'[s][p] = "ended"
      /\ UNCHANGED <<got, complete, alone, disturbed>> /\ IpcTypeOK /\ IpcTypeOK'
  BY RemoveRemoves, Members DEF IInv, Places, Moves
<1>2. /\ DoneStays /\ NobodyElse' /\ WorkersFollow'
      /\ at[s][Main] \notin {"unborn", "init_sem", "init_msg", "init_shm", "run"}
      /\ \A t \in Sessions : at[t][Main] \in {"init_msg", "init_shm", "run"} <=>
                            at'[t][Main] \in {"init_msg", "init_shm", "run"}
      /\ \A t \in Sessions : at[t][Main] \in {"init_msg", "init_shm", "run"} => at'[t][Main] = at[t][Main]
      /\ \A t \in Sessions, q \in Processes : t # s \/ q # p => at'[t][q] = at[t][q]
  BY <1>1, FinalizerFrame DEF GotSem
<1> DEFINE g == got[s][p]
<1>3. /\ ipc'["sem"] = IF ipc["sem"] = g["sem"] THEN None ELSE ipc["sem"]
      /\ ipc'["msg"] = ipc["msg"]
      /\ ipc'["shm"] = ipc["shm"]
  BY <1>1, Members DEF Removes
<1>4. g["sem"] # None /\ g["msg"] # None /\ g["shm"] # None
      /\ ShmDone(g["sem"]) /\ ShmDone(g["msg"]) /\ ShmDone(g["shm"])
  BY <1>1 DEF IInv, LearntOnce, LearntBy, GotSem, GotMsg, GotShm
<1>5. UsedOnce'
  BY <1>2, <1>3, Members, Typed DEF IInv, UsedOnce, DoneStays
<1>6. LearntOnce'
  BY <1>1, <1>2, Members, LearntStays DEF LearntOnce, GotSem, GotShm
<1>14. ipc["sem"] = g["sem"] => ipc["msg"] = None /\ ipc["shm"] = None
  BY <1>1 DEF IInv, LooksInOrder, GotMsg, GotShm
<1>7. Locked'
  BY <1>1, <1>2, <1>3, <1>4, <1>14 DEF IInv, Locked, ShmDone
<1>8. LooksInOrder'
  <2>1. CASE ipc["sem"] = g["sem"]
    <3>1. ipc'["sem"] = None
      BY <1>3, <2>1
    <3>2. \A t \in Sessions, q \in Processes :
            /\ at'[t][q] \in GotMsg => got[t][q]["sem"] # None
            /\ at'[t][q] \in GotShm => got[t][q]["msg"] # None /\ got[t][q]["shm"] # None
      BY <1>1, <1>6 DEF LearntOnce, LearntBy, GotSem, GotMsg, GotShm
    <3> QED
      BY <1>1, <3>1, <3>2 DEF LooksInOrder, GotShm, GotMsg
  <2>2. CASE ipc["sem"] # g["sem"]
    <3>1. ipc'["sem"] = ipc["sem"] /\ ipc'["msg"] = ipc["msg"] /\ ipc'["shm"] = ipc["shm"]
      BY <1>3, <2>2
    <3>2. \A t \in Sessions, q \in Processes : at'[t][q] = at[t][q] \/ at'[t][q] = "ended"
      BY <1>1, <1>2
    <3> QED
      BY <1>1, <3>1, <3>2 DEF IInv, LooksInOrder, GotMsg, GotShm
  <2> QED
    BY <2>1, <2>2
<1>9. KnowsOwn'
  BY <1>1, <1>2, <1>3, Members DEF IInv, KnowsOwn, GotSem
<1>10. Created'
  BY <1>1, <1>2, <1>3, <1>4 DEF IInv, Created, ShmDone
<1>11. Whole'
  <2> SUFFICES ASSUME NEW t \in complete \ disturbed, ipc'["shm"] = t
               PROVE  /\ ipc'["msg"] = t /\ at'[t][Main] # "ended"
                      /\ \A q \in Processes : at'[t][q] \notin {"rm_msg", "rm_sem"}
    BY <1>1 DEF Whole
  <2>1. t \in Sessions /\ t # None /\ ipc["shm"] = t
    BY <1>1, <1>3, Members DEF IpcTypeOK
  <2>2. ipc["msg"] = t /\ at[t][Main] # "ended"
        /\ \A q \in Processes : at[t][q] \notin {"rm_msg", "rm_sem"}
    BY <1>1, <2>1 DEF IInv, Whole
  <2>3. ipc["sem"] = t
    BY <2>1 DEF IInv, Locked
  <2>4. s # t
    BY <1>1, <2>2
  <2> QED
    BY <1>2, <1>3, <2>1, <2>2, <2>4, Members
<1>13. OnTheWay'
  <2> SUFFICES ASSUME NEW t \in complete \ disturbed, ipc'["sem"] = t, ipc'["shm"] # t
               PROVE  \E q \in Processes : at'[t][q] \in {"rm_msg", "rm_sem"}
    BY <1>1 DEF OnTheWay
  <2>1. t \in Sessions /\ t # None /\ ipc["sem"] = t
    BY <1>1, <1>3, Members DEF IpcTypeOK
  <2>2. PICK q \in Processes : at[t][q] \in {"rm_msg", "rm_sem"}
    BY <1>3, <2>1 DEF IInv, OnTheWay
  <2>3. t # s \/ q # p
    <3>1. s = t => g["sem"] = t
      BY <1>1, <2>1 DEF IInv, KnowsOwn, GotSem
    <3>2. g["sem"] # t
      BY <1>3, <2>1
    <3> QED
      BY <3>1, <3>2
  <2> QED
    BY <1>2, <2>1, <2>2, <2>3
<1> QED
  BY <1>1, <1>2, <1>5, <1>6, <1>7, <1>8, <1>9, <1>10, <1>11, <1>13 DEF IInv

LEMMA StutterKeeps == IInv /\ UNCHANGED ipcVars => IInv'
<1> SUFFICES ASSUME IInv, UNCHANGED ipcVars PROVE IInv'
  OBVIOUS
<1>1. IpcTypeOK' /\ NobodyElse' /\ WorkersFollow' /\ Locked' /\ LooksInOrder'
  BY DEF IInv, ipcVars, IpcTypeOK, NobodyElse, WorkersFollow, ShmDone, Locked, LooksInOrder
<1>2. UsedOnce' /\ LearntOnce'
  BY DEF IInv, ipcVars, UsedOnce, LearntOnce, LearntBy, SemDone, MsgDone, ShmDone
<1>3. KnowsOwn' /\ Created' /\ Whole' /\ OnTheWay'
  BY DEF IInv, ipcVars, KnowsOwn, Created, Whole, OnTheWay
<1> QED
  BY <1>1, <1>2, <1>3 DEF IInv

LEMMA InitIInv == IpcInit => IInv
<1> SUFFICES ASSUME IpcInit PROVE IInv
  OBVIOUS
<1>1. /\ \A t \in Sessions, q \in Processes : at[t][q] = "unborn"
      /\ complete = {} /\ ipc["sem"] = None /\ ipc["msg"] = None /\ ipc["shm"] = None
  BY Members DEF IpcInit
<1>2. IpcTypeOK
  BY DEF IpcInit, IpcTypeOK
<1>3. NobodyElse /\ WorkersFollow
  BY <1>1, Members DEF NobodyElse, WorkersFollow, Finalizing
<1>4. UsedOnce /\ LearntOnce
  BY <1>1 DEF UsedOnce, LearntOnce, LearntBy, GotSem, GotMsg, GotShm
<1>5. Locked /\ LooksInOrder
  BY <1>1, Members DEF Locked, LooksInOrder, GotMsg, GotShm
<1>6. KnowsOwn /\ Created /\ Whole /\ OnTheWay
  BY <1>1, Members DEF KnowsOwn, Created, Whole, OnTheWay, GotSem
<1> QED
  BY <1>2, <1>3, <1>4, <1>5, <1>6 DEF IInv

LEMMA NextKeeps == IInv /\ [IpcNext]_ipcVars => IInv'
<1> SUFFICES ASSUME IInv, [IpcNext]_ipcVars PROVE IInv'
  OBVIOUS
<1>1. ASSUME NEW s \in Sessions, Initializer(s) PROVE IInv'
  BY <1>1, CreateSemKeeps, CreateMsgKeeps, CreateShmKeeps DEF Initializer
<1>2. ASSUME NEW s \in Sessions, NEW p \in Processes, Finalizer(s, p) PROVE IInv'
  BY <1>2, LookUpSemKeeps, LookUpMsgKeeps, LookUpShmKeeps, RemoveSemKeeps, RemoveMsgKeeps, RemoveShmKeeps
  DEF Finalizer, LookUpAll
<1> QED
  BY <1>1, <1>2, StartKeeps, CtrlCKeeps, ComesOrGoes, StutterKeeps DEF IpcNext

-----------------------------------------------------------------------------
(* The theorems.                                                           *)

LEMMA Invariant == IpcSafeSpec => []IInv
BY InitIInv, NextKeeps, PTL DEF IpcSafeSpec

\* The state of the objects, of the sessions and of what was looked up is well
\* typed; in particular a finalizer never goes on with -1 for an id.
THEOREM TypeCorrect == IpcSafeSpec => []IpcTypeOK
<1>1. IInv => IpcTypeOK
  BY DEF IInv
<1> QED
  BY <1>1, Invariant, PTL

\* The semaphores are a lock: nothing else exists that is not of their session
\* (initializer() creates them first, finalizer() removes them last).
THEOREM SemaphoresLockAlways == IpcSafeSpec => []SemaphoresLock
<1>1. IInv => SemaphoresLock
  BY Members DEF IInv, Locked, SemaphoresLock
<1> QED
  BY <1>1, Invariant, PTL

\* Sessions may overlap, and be started for a part of the program alone: a
\* complete one has all of its objects until its own Ctrl+C, unless a process
\* of another session finalized in its time.
THEOREM ResourcesStayAlways == IpcSafeSpec => []ResourcesStay
<1>1. IInv => ResourcesStay
  <2> SUFFICES ASSUME IInv, NEW s \in complete \ disturbed, at[s][Main] = "run"
               PROVE  \A k \in Kinds : ipc[k] = s
    BY DEF ResourcesStay
  <2>1. s \in Sessions \ alone /\ s # None
    BY Members DEF IInv, IpcTypeOK
  <2>2. ipc["shm"] = s
    BY <2>1 DEF IInv, Created
  <2>3. ipc["sem"] = s /\ ipc["msg"] = s
    BY <2>1, <2>2 DEF IInv, Locked, Whole
  <2> QED
    BY <2>2, <2>3, Members
<1> QED
  BY <1>1, Invariant, PTL

\* Under the same condition its objects are all gone when its last process has
\* ended, in whatever order
\* the finalizers ran and whichever of them gave up (finalizer() exits at the
\* first object that is missing).
THEOREM CompleteIsCleanedAlways == IpcSafeSpec => []CompleteIsCleaned
<1>1. IInv => CompleteIsCleaned
  <2> SUFFICES ASSUME IInv, NEW s \in complete \ disturbed, Over(s), NEW k \in Kinds, ipc[k] = s
               PROVE  FALSE
    BY DEF CompleteIsCleaned
  <2>1. s \in Sessions /\ s # None
    BY Members DEF IInv, IpcTypeOK
  <2>2. ipc["sem"] = s
    BY <2>1, Members DEF IInv, Locked
  <2>3. at[s][Main] = "ended"
    BY <2>1, Members DEF IInv, WorkersFollow, ShmDone, Over
  <2>4. ipc["shm"] # s
    BY <2>3 DEF IInv, Whole
  <2> QED
    BY <2>2, <2>4 DEF IInv, OnTheWay, Over
<1> QED
  BY <1>1, Invariant, PTL
=============================================================================
