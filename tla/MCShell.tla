------------------------------ MODULE MCShell ------------------------------
(* Module Shell for TLC: lines of up to three pipelines.                   *)
EXTENDS Shell

run(prog) == [prog |-> prog, list |-> <<>>, in |-> "", out |-> ""]
brackets(list) == [run("(") EXCEPT !.list = list]
first(stages) == [op |-> "", stages |-> stages]
then(op, stages) == [op |-> op, stages |-> stages]

ls == run("ls")
cat == run("cat")
nosuch == run("nosuch")
yes == run("yes")

MCLines == {
  <<first(<<ls, cat, [cat EXCEPT !.out = "f"]>>), then(";", <<ls>>)>>,
  <<first(<<ls>>), then("&&", <<ls, cat>>), then(";", <<ls>>)>>,
  <<first(<<ls>>), then("||", <<brackets(<<first(<<ls>>), then(";", <<ls>>)>>)>>)>>,
  <<first(<<brackets(<<first(<<ls>>)>>), cat>>)>>,
  <<first(<<brackets(<<first(<<ls, cat>>)>>)>>)>>,
  <<first(<<nosuch, cat>>)>>,
  <<first(<<nosuch, ls>>), then(";", <<ls>>), then("&&", <<ls>>), then("||", <<ls>>)>>,
  <<first(<<ls>>), then("&&", <<ls>>), then("||", <<ls>>)>>,
  <<first(<<brackets(<<first(<<ls>>)>>)>>), then("&&", <<ls>>)>>,
  <<first(<<brackets(<<first(<<ls>>), then("&&", <<ls>>), then(";", <<nosuch>>)>>)>>)>>,
  <<first(<<brackets(<<first(<<brackets(<<first(<<ls>>)>>)>>)>>)>>)>>,
  <<first(<<[ls EXCEPT !.out = "f"], [cat EXCEPT !.in = "f"]>>)>>,
  <<first(<<yes, [cat EXCEPT !.in = "missing"]>>)>>,
  <<first(<<ls, [ls EXCEPT !.out = "denied"]>>)>>,
  <<first(<<yes, ls>>)>>}
=============================================================================
