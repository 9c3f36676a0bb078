-------------------------------- MODULE Shell --------------------------------
(***************************************************************************)
(* p05, the shell: calculator.c, RPN.c and arithm_func.c.  Process 1 reads *)
(* lines; the machine that runs a parsed line forks programs and bracketed *)
(* lines.  A child whose program cannot be executed returns into the code  *)
(* that it was forked from, and so becomes a second shell.                 *)
(*                                                                         *)
(* What flows through a pipe is left out; who holds its ends is not.       *)
(* A child sets up its descriptors in the step of its fork, and so does a  *)
(* parent that does not wait: nobody else sees their tables.               *)
(* fork, pipe and dup2 are assumed to succeed.                             *)
(***************************************************************************)
EXTENDS ShellParser

CONSTANTS
  Lines,      \* the lines that may be typed
  MaxLines,   \* a bound: how many are typed
  MaxProcs    \* a bound: processes at the same time

\* Programs: "ls" ends by itself, "cat" when its input has ended, "yes" never,
\* and "nosuch" cannot be executed.
Programs == {"ls", "cat", "yes", "nosuch"}
Unknown == {"nosuch"}

Pids == 1 .. MaxProcs
Main == 1

VARIABLES
  proc,      \* proc[p]: process p
  typed,     \* the lines read so far, by any shell
  line,      \* the last one that Main has read
  ran,       \* <<job, status>> of the pipelines that Main has run of it
  aborted,   \* has a line of a shell ended with an error of the machine?
  spotless   \* have all pipelines of all lines of Main been run to the end?

vars == <<proc, typed, line, ran, aborted, spotless>>

NoProcess ==
  [state |-> "none", parent |-> 0, fds |-> <<>>, prog |-> "", status |-> 0,
   brackets |-> FALSE, code |-> <<>>, base |-> 0, size |-> 0, pos |-> 0, stack |-> <<>>,
   awaits |-> [pid |-> 0, in |-> 0, out |-> 0]]

Terminal == <<"terminal", 0>>

Init ==
  /\ proc = [p \in Pids |->
       IF p = Main
       THEN [NoProcess EXCEPT !.state = "prompt", !.fds = [d \in 0 .. 2 |-> Terminal]]
       ELSE NoProcess]
  /\ typed = <<>>
  /\ line = <<>>
  /\ ran = <<>>
  /\ aborted = FALSE
  /\ spotless = TRUE

-----------------------------------------------------------------------------
(* Processes.                                                              *)

Dead == {"exited", "killed"}
Holders(file) == {p \in Pids : \E d \in DOMAIN proc[p].fds : proc[p].fds[d] = file}
Free == {p \in Pids \ {Main} : proc[p].state = "none"}
Children(p) == {c \in Pids : proc[c].parent = p}
PipesInUse == PipesIn(UNION {{proc[p].fds[d] : d \in DOMAIN proc[p].fds} : p \in Pids})

Close(fds, gone) == [d \in DOMAIN fds \ gone |-> fds[d]]

\* update_fd: dup2 and close.
update_fd(fds, oldfd, newfd) ==
  IF oldfd = newfd THEN fds ELSE Close([fds EXCEPT ![newfd] = fds[oldfd]], {oldfd})

\* Process p ends.  Its children go to init, which reaps the dead ones.
Ends(p, how, status) ==
  proc' = [q \in Pids |->
    CASE q = p /\ proc[p].parent # 0 ->
           [NoProcess EXCEPT !.state = how, !.status = status, !.parent = proc[p].parent]
      [] q = p /\ proc[p].parent = 0 -> NoProcess
      [] q # p /\ proc[q].parent = p ->
           IF proc[q].state \in Dead THEN NoProcess ELSE [proc[q] EXCEPT !.parent = 0]
      [] OTHER -> proc[q]]

Become(p, r) == proc' = [proc EXCEPT ![p] = r]

-----------------------------------------------------------------------------
(* main and compute_expression.                                            *)

\* Bound: MaxLines lines are read.
ReadLine(p, l) ==
  /\ proc[p].state = "prompt"
  /\ Len(typed) < MaxLines
  /\ typed' = Append(typed, l)
  /\ LET s == Parsed(l, proc[p].fds, PipesInUse)
     IN  /\ Become(p, IF s.err # "0" THEN [proc[p] EXCEPT !.fds = s.fds]
                      ELSE [proc[p] EXCEPT !.state = "run", !.fds = s.fds, !.code = s.code,
                              !.base = 0, !.size = s.occupied, !.pos = 0, !.stack = <<>>])
         /\ spotless' = (spotless /\ (p = Main => s.err = "0"))
  /\ IF p = Main THEN line' = l /\ ran' = <<>> ELSE UNCHANGED <<line, ran>>
  /\ UNCHANGED aborted

\* "q", or the end of the input.
Quit(p) ==
  /\ proc[p].state = "prompt"
  /\ Ends(p, "exited", 0)
  /\ UNCHANGED <<typed, line, ran, aborted, spotless>>

Jobs == {ran[k][1] : k \in DOMAIN ran}

\* The machine has come to the end of its program.
Finish(p) ==
  /\ proc[p].state = "run"
  /\ proc[p].pos >= proc[p].size
  /\ IF proc[p].brackets THEN Ends(p, "exited", 0)
     ELSE Become(p, [proc[p] EXCEPT !.state = "all"])
  /\ spotless' = (spotless /\ (p = Main => Jobs = DOMAIN line))
  /\ UNCHANGED <<typed, line, ran, aborted>>

\* Mutant: wait is called once, and not in a loop.
WaitAllOnce(p) ==
  /\ proc[p].state = "all"
  /\ \E c \in Children(p) \cup {0} :
       /\ IF c = 0 THEN Children(p) = {} ELSE proc[c].state \in Dead
       /\ proc' = [q \in Pids |->
            CASE q = p -> [proc[p] EXCEPT !.state = "prompt", !.code = <<>>, !.stack = <<>>,
                                          !.size = 0, !.pos = 0]
              [] q # p /\ q = c -> NoProcess
              [] OTHER -> proc[q]]
  /\ UNCHANGED <<typed, line, ran, aborted, spotless>>

\* while (wait(NULL) > 1): until there are no children.
WaitAll(p) ==
  /\ proc[p].state = "all"
  /\ \/ /\ Children(p) = {}
        /\ Become(p, [proc[p] EXCEPT !.state = "prompt", !.code = <<>>, !.stack = <<>>,
                                     !.size = 0, !.pos = 0])
     \/ \E c \in Children(p) :
          /\ proc[c].state \in Dead
          /\ proc' = [proc EXCEPT ![c] = NoProcess]
  /\ UNCHANGED <<typed, line, ran, aborted, spotless>>

-----------------------------------------------------------------------------
(* RPN_compute.  Offsets in elements count from the start of the program   *)
(* that the process runs, which within brackets is not the whole one.      *)

At(p) == proc[p].base + proc[p].pos
Running(p) ==
  proc[p].state = "run" /\ proc[p].pos < proc[p].size /\ At(p) \in DOMAIN proc[p].code
Element(p) == proc[p].code[At(p)]
Function(p) == Element(p).f
Behind(p) == proc[p].pos + Header + Element(p).size

Stack(p) == proc[p].stack
Depth(p) == Len(Stack(p))
Kinds(p, n) == [k \in 1 .. n |-> Stack(p)[Depth(p) - n + k][1]]
Popped(p, n) == SubSeq(Stack(p), 1, Depth(p) - n)

\* A handler has returned an error.  In brackets its code is not looked at.
Fails(p) ==
  /\ IF proc[p].brackets THEN Ends(p, "exited", 0)
     ELSE Become(p, [proc[p] EXCEPT !.state = "prompt", !.code = <<>>, !.stack = <<>>,
                                    !.size = 0, !.pos = 0])
  /\ aborted' = (aborted \/ ~proc[p].brackets)
  /\ spotless' = (spotless /\ p # Main)
  /\ UNCHANGED <<typed, line, ran>>

PushElement(p) ==
  /\ Running(p)
  /\ \/ /\ Function(p) \in {"prog2stack", "chg_in_stream", "chg_out_stream"}
        /\ LET kind == IF Function(p) = "prog2stack" THEN "name" ELSE "desc"
           IN  Become(p, [proc[p] EXCEPT !.stack = Append(@, <<kind, Element(p).data>>),
                                         !.pos = Behind(p)])
     \/ /\ Function(p) = "br_wrapper"
        /\ Become(p, [proc[p] EXCEPT !.pos = Behind(p)])
  /\ UNCHANGED <<typed, line, ran, aborted, spotless>>

\* Mutant: the two operators are mixed up.
SkipsSwapped(f, status) == IF f = "logic_and" THEN status = 0 ELSE status # 0

\* Does the operator skip the pipeline behind it?
Skips(f, status) == IF f = "logic_and" THEN status # 0 ELSE status = 0

\* What is popped must be a status: the rest is larger than an int.
Logic(p) ==
  /\ Running(p)
  /\ Function(p) \in {"logic_and", "logic_or"}
  /\ IF Depth(p) = 0 \/ Kinds(p, 1) # <<"status">> THEN Fails(p)
     ELSE /\ Become(p, [proc[p] EXCEPT
               !.stack = Popped(p, 1),
               !.pos = IF Skips(Function(p), Stack(p)[Depth(p)][2]) THEN Element(p).data
                       ELSE Behind(p)])
          /\ UNCHANGED <<typed, line, ran, aborted, spotless>>

-----------------------------------------------------------------------------
(* The four functions that execute something.                              *)

Blocking == {"execute", "execute_brackets"}
OfBrackets == {"execute_brackets", "execute_brackets_nonblock"}
Executing == Blocking \cup OfBrackets \cup {"execute_nonblock"}

\* What is popped: descriptors, and below them a name unless for brackets.
Operands(f) == IF f \in OfBrackets THEN <<"desc", "desc">> ELSE <<"name", "desc", "desc">>

Fits(p) ==
  /\ Depth(p) >= Len(Operands(Function(p)))
  /\ Kinds(p, Len(Operands(Function(p)))) = Operands(Function(p))

\* Where the brackets that the element names start.
Wrapper(p) == proc[p].base + Element(p).data
Readable(p) == Function(p) \in OfBrackets => Wrapper(p) \in DOMAIN proc[p].code

\* The pops come to the bottom of the stack before they meet anything wrong.
Underflow(p) ==
  LET n == Depth(p)
  IN  /\ n < Len(Operands(Function(p)))
      /\ Kinds(p, n) = SubSeq(Operands(Function(p)), Len(Operands(Function(p))) - n + 1,
                              Len(Operands(Function(p))))

ExecuteFails(p) ==
  /\ Running(p)
  /\ Function(p) \in Executing
  /\ Underflow(p)
  /\ Fails(p)

\* The child of p with descriptors in and out.  Where its program cannot be
\* executed it goes on as the shell, or ends as the brackets, that it is in.
Child(p, in, out) ==
  LET fds == update_fd(update_fd(proc[p].fds, out, 1), in, 0)
      name == Stack(p)[Depth(p) - 2][2]
      born == [NoProcess EXCEPT !.parent = p, !.fds = fds]
  IN  CASE Function(p) \in OfBrackets ->
             [born EXCEPT !.state = "run", !.brackets = TRUE, !.code = proc[p].code,
                          !.base = Wrapper(p) + Header, !.size = proc[p].code[Wrapper(p)].size]
        [] Function(p) \notin OfBrackets /\ name \notin Unknown ->
             [born EXCEPT !.state = "program", !.prog = name]
        [] Function(p) \notin OfBrackets /\ name \in Unknown /\ ~proc[p].brackets ->
             [born EXCEPT !.state = "prompt"]
        [] OTHER -> [NoProcess EXCEPT !.state = "exited", !.parent = p]

\* Mutant: the end that the child reads from stays open in the parent.
OwnOut(in, out) == {d \in {out} : d # 1}

\* Mutant: the end that the child writes to stays open in the parent.
OwnIn(in, out) == {d \in {in} : d # 0}

\* Mutant: the parent closes its own standard streams, too.
OwnBoth(in, out) == {in, out}

\* Descriptors of a pipe or a file, which the parent closes.
Own(in, out) == {d \in {in} : d # 0} \cup {d \in {out} : d # 1}

\* Bound: a process that is not in use takes the child.
Execute(p) ==
  /\ Running(p)
  /\ Function(p) \in Executing
  /\ Fits(p)
  /\ Readable(p)
  /\ Free # {}
  /\ LET c == Min(Free)
         in == Stack(p)[Depth(p)][2]
         out == Stack(p)[Depth(p) - 1][2]
         popped == [proc[p] EXCEPT !.stack = Popped(p, Len(Operands(Function(p))))]
         parent == IF Function(p) \in Blocking
                   THEN [popped EXCEPT !.state = "wait",
                                       !.awaits = [pid |-> c, in |-> in, out |-> out]]
                   ELSE [popped EXCEPT !.fds = Close(@, Own(in, out)), !.pos = Behind(p)]
     IN  proc' = [proc EXCEPT ![c] = Child(p, in, out), ![p] = parent]
  /\ UNCHANGED <<typed, line, ran, aborted, spotless>>

\* waitpid until WIFEXITED: for a child that was killed the second call fails
\* and changes nothing, and the loop has no end.
WaitPid(p) ==
  LET c == proc[p].awaits.pid
      woken == [proc[p] EXCEPT !.state = "run", !.awaits = NoProcess.awaits,
                  !.stack = Append(@, <<"status", proc[c].status>>),
                  !.fds = Close(@, Own(proc[p].awaits.in, proc[p].awaits.out)),
                  !.pos = Behind(p)]
  IN  /\ proc[p].state = "wait"
      /\ proc[c].state \in Dead
      /\ proc' = [proc EXCEPT ![c] = NoProcess,
                    ![p] = IF proc[c].state = "exited" THEN woken
                           ELSE [proc[p] EXCEPT !.state = "loop", !.awaits = NoProcess.awaits]]
      /\ ran' = IF p = Main /\ proc[c].state = "exited"
                THEN Append(ran, <<Element(p).job, proc[c].status>>) ELSE ran
      /\ UNCHANGED <<typed, line, aborted, spotless>>

\* What the machine finds is no element, or its operands are of another kind:
\* what happens then is up to the memory, and the process may be killed.
Wild(p) ==
  /\ proc[p].state = "run"
  /\ proc[p].pos < proc[p].size
  /\ \/ ~Running(p)
     \/ /\ Running(p)
        /\ \/ Function(p) = "wild"
           \/ Function(p) \in Executing /\ ~Fits(p) /\ ~Underflow(p)
           \/ Function(p) \in Executing /\ Fits(p) /\ ~Readable(p)
  /\ \/ Become(p, [proc[p] EXCEPT !.state = "wild"])
     \/ Ends(p, "killed", 0)
  /\ UNCHANGED <<typed, line, ran, aborted, spotless>>

Machine(p) ==
  \/ Finish(p)
  \/ WaitAll(p)
  \/ PushElement(p)
  \/ Logic(p)
  \/ ExecuteFails(p)
  \/ Execute(p)
  \/ WaitPid(p)
  \/ Wild(p)

-----------------------------------------------------------------------------
(* The programs.                                                           *)

InputEnds(p) ==
  \A n \in PipesIn({proc[p].fds[0]}) : Holders(WriteEnd(n)) = {}

ProgramEnds(p) ==
  /\ proc[p].state = "program"
  /\ \/ proc[p].prog = "ls" /\ \E status \in 0 .. 1 : Ends(p, "exited", status)
     \/ proc[p].prog = "cat" /\ InputEnds(p) /\ Ends(p, "exited", 0)
  /\ UNCHANGED <<typed, line, ran, aborted, spotless>>

\* A program is killed by a signal: by SIGPIPE when nobody reads what it
\* writes, by a mistake of its own, or by somebody.
ProgramKilled(p) ==
  /\ proc[p].state = "program"
  /\ Ends(p, "killed", 0)
  /\ UNCHANGED <<typed, line, ran, aborted, spotless>>

Next ==
  \E p \in Pids :
    \/ \E l \in Lines : ReadLine(p, l)
    \/ Quit(p)
    \/ Machine(p)
    \/ ProgramEnds(p)
    \/ ProgramKilled(p)

\* The kernel runs every process.  Nobody has to type anything, and nothing
\* has to be killed.
Fairness == \A p \in Pids : WF_vars(Machine(p)) /\ WF_vars(ProgramEnds(p))

Spec == Init /\ [][Next]_vars /\ Fairness
-----------------------------------------------------------------------------
(* Kinds of lines.                                                         *)

Stages(l) == UNION {Range(l[k].stages) : k \in DOMAIN l}
Brackets(l) == {s \in Stages(l) : s.prog = "("}
LastOf(l, k) == l[k].stages[Len(l[k].stages)]

\* Two operators, the second of which needs the status of a pipeline that
\* the first one may skip.
Chained(l) == \E k \in 2 .. Len(l) - 1 : l[k].op \in Logical /\ l[k + 1].op \in Logical

\* Operators whose jump comes out wrong because of brackets.
Jumpy(l) ==
  \/ \E k \in 2 .. Len(l) : l[k].op \in Logical /\ LastOf(l, k - 1).prog = "("
  \/ \E s \in Brackets(l) : \E k \in DOMAIN s.list : s.list[k].op \in Logical

Nested(l) == \E s \in Brackets(l) : Brackets(s.list) # {}

\* Pipes or files that are opened for a command within brackets.
Opens(l) ==
  \/ \E k \in DOMAIN l : Len(l[k].stages) > 1
  \/ \E s \in Stages(l) : s.in # "" \/ s.out # ""
OpensInside(l) == \E s \in Brackets(l) : Opens(s.list)

\* A redirection that a pipe takes the place of, or the other way round.
Displaced(l) ==
  \E k \in DOMAIN l : \E n \in DOMAIN l[k].stages :
    \/ n < Len(l[k].stages) /\ l[k].stages[n].out # ""
    \/ n > 1 /\ l[k].stages[n].in # ""

AllStages(l) == Stages(l) \cup UNION {Stages(s.list) : s \in Brackets(l)}

\* Each program ends by itself once its input has ended, and no input is the
\* terminal or a pipe that the shell itself holds.
Tame(l) ==
  /\ \A s \in AllStages(l) : s.prog \in {"ls", "cat", "("}
  /\ \A k \in DOMAIN l : l[k].stages[1].prog = "cat" => l[k].stages[1].in # ""
  /\ \A s \in Brackets(l) : ~Opens(s.list) /\ \A t \in Stages(s.list) : t.prog = "ls"
  /\ ~Jumpy(l)
  /\ ~Nested(l)

Typed(Kind(_)) == \E k \in DOMAIN typed : Kind(typed[k])

-----------------------------------------------------------------------------
(* Properties.                                                             *)

\* The state of each process has the right shape: descriptors 0, 1 and 2 are
\* never closed, and the stack of the machine holds what it may hold.
TypeOK ==
  /\ \A p \in Pids :
       /\ proc[p].state \in Dead \cup
            {"none", "prompt", "run", "wait", "all", "loop", "wild", "program"}
       /\ proc[p].state \notin Dead \cup {"none"} => {0, 1, 2} \subseteq DOMAIN proc[p].fds
       /\ proc[p].parent \in 0 .. MaxProcs
       /\ \A k \in DOMAIN Stack(p) : Stack(p)[k][1] \in {"name", "desc", "status"}
       /\ proc[p].state = "wait" => proc[p].awaits.pid \in Children(p)
  /\ Len(typed) <= MaxLines
  /\ aborted \in BOOLEAN
  /\ spotless \in BOOLEAN

\* The pipeline that comes next after those that have run, by what && and ||
\* mean: the operators test the status of the last pipeline that has run.
\* 0 when there is none.
NextJob(l, done) ==
  LET last == IF done = <<>> THEN 0 ELSE done[Len(done)][1]
      status == IF done = <<>> THEN 0 ELSE done[Len(done)][2]
      may == {k \in last + 1 .. Len(l) :
                CASE l[k].op = "&&" -> status = 0
                  [] l[k].op = "||" -> status # 0
                  [] OTHER -> TRUE}
  IN  IF may = {} THEN 0 ELSE Min(may)

\* Jumps over the machine's program do what the operators mean, and no line
\* ends with an error; lines are excepted in which an operator follows a
\* pipeline that another one may skip, or whose brackets break a jump.
RightOnesRun ==
  /\ ~Chained(line) /\ ~Jumpy(line) =>
       /\ proc[Main].state = "wait" => Element(Main).job = NextJob(line, ran)
       /\ proc[Main].state = "all" => NextJob(line, ran) = 0
  /\ aborted => Typed(Chained) \/ Typed(Jumpy) \/ Typed(Nested)

\* When Main prompts, nothing of an earlier line is running any more, and
\* there is no other shell.  Except after an error, which returns to the
\* prompt without wait, and after brackets, which do not wait inside.
Quiet ==
  proc[Main].state = "prompt" =>
    \/ \A p \in Pids \ {Main} : proc[p].state = "none"
    \/ aborted
    \/ Typed(OpensInside)

\* Whatever was opened for the lines so far has been closed again, if all of
\* their pipelines were run: a pipeline that is skipped keeps its pipes open.
GivenBack ==
  proc[Main].state = "prompt" /\ spotless =>
    \/ DOMAIN proc[Main].fds = 0 .. 2
    \/ Typed(Displaced)
    \/ Typed(OpensInside)

\* A program that reads from a pipe does not hold the other end itself, or it
\* would wait for its own output: although all pipes of a line are opened while
\* it is parsed, and each child inherits what its shell has open, the shell has
\* closed an end before it forks the reader.  Pipes in brackets are excepted.
NoReaderWaitsForItself ==
  \A p \in Pids :
    proc[p].state = "program" =>
      \/ \A n \in PipesIn({proc[p].fds[0]}) : p \notin Holders(WriteEnd(n))
      \/ Typed(OpensInside)

\* As long as nothing but tame lines is typed, each of them comes to an end:
\* the pipes between programs are closed in time, and every child is found
\* by one of the two kinds of wait, killed or not.  The one exception is a
\* program killed while execute waits for it: that wait never ends.
PromptReturns ==
  LET AllTame == \A k \in DOMAIN typed : Tame(typed[k])
      Forever == \E p \in Pids : proc[p].state = "loop"
  IN  (proc[Main].state = "run" /\ AllTame) ~> (proc[Main].state = "prompt" \/ Forever)
=============================================================================
