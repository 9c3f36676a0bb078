----------------------------- MODULE ShellParser -----------------------------
(***************************************************************************)
(* p05, rec_desc.c: the parser of the shell, which writes a program for    *)
(* the machine of RPN.c and opens files and pipes while it parses.         *)
(*                                                                         *)
(* A line is a sequence of pipelines [op, stages], `op' being the operator *)
(* in front ("" for the first).  A stage is [prog, list, in, out]: a       *)
(* program, or "(" and the line between the brackets, with redirections.   *)
(* The file "missing" cannot be opened, the file "denied" not created.     *)
(* Lines that are no such sentence, and programs longer than the 8192      *)
(* bytes of the machine, are refused and left out.                         *)
(*                                                                         *)
(* The program is a function from byte offsets to elements.  Each is a     *)
(* header of 16 bytes and its data: a name (short ones), a descriptor or   *)
(* an offset, 8 bytes each.                                                *)
(***************************************************************************)
EXTENDS Integers, Sequences, FiniteSets, SequencesExt, FiniteSetsExt

Header == 16
Word == 8
NoBrackets == -1                    \* (size_t)-1
Logical == {"&&", "||"}

ReadEnd(n) == <<"read", n>>
WriteEnd(n) == <<"write", n>>
PipesIn(files) == {file[2] : file \in {f \in files : f[1] \in {"read", "write"}}}

LowestFree(fds) == Min(0 .. Cardinality(DOMAIN fds) \ DOMAIN fds)

-----------------------------------------------------------------------------
(* The state of the parser: code and occupied of the machine, the table of *)
(* descriptors, pipes in use, the variables that parse_pipes and           *)
(* parse_logic hand down, and the code of the error that ended it.         *)

Start(fds, pipes) ==
  [code |-> <<>>, occupied |-> 0, fds |-> fds, pipes |-> pipes,
   infd |-> 0, outfd |-> 1, safe |-> 1, br |-> NoBrackets, err |-> "0"]

put_elem_in_RPN(s, f, size, data, job) ==
  IF s.err # "0" THEN s
  ELSE [s EXCEPT !.code = @ @@ (s.occupied :> [f |-> f, size |-> size, data |-> data, job |-> job]),
                 !.occupied = @ + Header + size]

\* An offset where an element starts gets the value as its data.  Elsewhere
\* two bytes are written at the offset and eight more behind a header, into
\* whatever lies there, and those elements cannot be told any more.
inject_value(s, value, position) ==
  LET Overwrites(o, from, to) ==
        o < to /\ from < o + Header + s.code[o].size
      hit == {o \in DOMAIN s.code :
                Overwrites(o, position, position + 2)
                  \/ Overwrites(o, position + Header, position + Header + Word)}
  IN  CASE s.err # "0" -> s
        [] s.err = "0" /\ position \in DOMAIN s.code ->
             [s EXCEPT !.code[position].data = value]
        [] OTHER ->
             [s EXCEPT !.code = [o \in DOMAIN @ |->
                IF o \in hit THEN [@[o] EXCEPT !.f = "wild"] ELSE @[o]]]

Open(s, file) == [s EXCEPT !.fds = @ @@ (LowestFree(s.fds) :> file)]

parse_input_filename(s, name) ==
  CASE name = "" \/ s.err # "0" -> s
    [] name = "missing" /\ s.err = "0" -> [s EXCEPT !.err = "E_FILE_OP"]
    [] OTHER -> [Open(s, <<"file", 0>>) EXCEPT !.infd = LowestFree(s.fds)]

\* creat, or open to append.
parse_output_filename(s, name) ==
  CASE name = "" \/ s.err # "0" -> s
    [] name = "denied" /\ s.err = "0" -> [s EXCEPT !.err = "E_FILE_OP"]
    [] OTHER -> [Open(s, <<"file", 0>>) EXCEPT !.outfd = LowestFree(s.fds)]

\* The pipeline before an operator, or the last one, is executed: by its
\* descriptors alone, or with the place of its brackets.
Execution(s, plain, brackets, job) ==
  IF s.br = NoBrackets THEN put_elem_in_RPN(s, plain, 0, 0, job)
  ELSE [put_elem_in_RPN(s, brackets, Word, s.br, job) EXCEPT !.br = NoBrackets]

Streams(s) ==
  put_elem_in_RPN(put_elem_in_RPN(s, "chg_out_stream", Word, s.outfd, 0),
                  "chg_in_stream", Word, s.infd, 0)

\* A bar: pipe(), then the stage before it writes to the pipe.
Bar(s) ==
  LET n == Min(1 .. Cardinality(s.pipes) + 1 \ s.pipes)
      r == Open(s, ReadEnd(n))
      w == Open(r, WriteEnd(n))
      piped == [w EXCEPT !.pipes = @ \cup {n}, !.outfd = LowestFree(r.fds), !.safe = LowestFree(r.fds)]
  IN  IF s.err # "0" THEN s
      ELSE [Execution(Streams(piped), "execute_nonblock", "execute_brackets_nonblock", 0)
              EXCEPT !.infd = LowestFree(s.fds)]

RECURSIVE parse_logic(_, _, _)

\* In brackets the last pipeline is always executed by `execute', whatever
\* the inner parse_logic says of its brackets.
parse_streamable_prog(s, stage) ==
  LET inside == parse_logic(put_elem_in_RPN(s, "br_wrapper", 0, 0, 0), stage.list, FALSE)
      closed == put_elem_in_RPN(inside, "execute", 0, 0, 0)
  IN  CASE s.err # "0" -> s
        [] s.err = "0" /\ stage.prog # "(" -> put_elem_in_RPN(s, "prog2stack", Word, stage.prog, 0)
        [] OTHER ->
             [closed EXCEPT !.code[s.occupied].size = closed.occupied - s.occupied - Header,
                            !.br = s.occupied,
                            !.infd = s.infd, !.outfd = s.outfd, !.safe = s.safe]

parse_redir(s, stage) ==
  parse_output_filename(parse_input_filename(parse_streamable_prog(s, stage), stage.in), stage.out)

parse_pipes(s, stages) ==
  LET first == parse_redir([s EXCEPT !.infd = 0, !.outfd = 1, !.safe = 1], stages[1])
      all == FoldLeft(LAMBDA t, stage : parse_redir(Bar(t), stage), first, Tail(stages))
  IN  Streams([all EXCEPT !.outfd = IF @ = all.safe THEN 1 ELSE @])

\* One operator and the pipeline behind it.  The target of the jump is behind
\* the execution of that pipeline, counted from the start of the program.
Operator(s, op, stages, job) ==
  LET run == Execution(s, "execute", "execute_brackets", job - 1)
      test == CASE op = "&&" -> put_elem_in_RPN(run, "logic_and", Word, 0, 0)
                [] op = "||" -> put_elem_in_RPN(run, "logic_or", Word, 0, 0)
                [] OTHER -> run
      next == parse_pipes(test, stages)
      target == next.occupied + Header
                  + (IF op = "&&" /\ s.br # NoBrackets THEN Word ELSE 0)
                  + (IF next.br # NoBrackets THEN Word ELSE 0)
  IN  IF op = ";" THEN next ELSE inject_value(next, target, s.occupied + Header)

\* Jobs are numbered outside brackets, for the properties only.
parse_logic(s, list, outside) ==
  LET Job(k) == IF outside THEN k ELSE 1
      first == parse_pipes([s EXCEPT !.br = NoBrackets], list[1].stages)
  IN  FoldLeft(LAMBDA t, k : Operator(t, list[k].op, list[k].stages, Job(k)),
               first, [k \in 1 .. Len(list) - 1 |-> k + 1])

\* compute_expression, up to the start of the machine.
Parsed(list, fds, pipes) ==
  Execution(parse_logic(Start(fds, pipes), list, TRUE), "execute", "execute_brackets", Len(list))
=============================================================================
