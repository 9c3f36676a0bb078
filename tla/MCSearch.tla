------------------------------ MODULE MCSearch ------------------------------
(* Module SearchBox for TLC.                                               *)
EXTENDS SearchBox

\* a = 97, b = 98, ')' = 41, '(' = 40, ' ' = 32, and a tab = 9.  29 is the
\* code of ')' in an id, and 09 that of the tab.
MCLabel == <<83, 101>>
MCTexts == {<<>>, <<97, 32>>, <<97, 9, 41>>}

\* Two filters, the first with pages for the letter a, the second for b.
MCLetters == (0 :> <<97>>) @@ (1 :> <<98>>)

row(name, number, id, kids) == [name |-> name, number |-> number, id |-> id, kids |-> kids]

\* The names a and a tab, the same with b behind, a ( and b, with the ids
\* a_09_29, a_09b_30, a_20_28_31 and b_0.
MCsearchData ==
  (<<0, 0>> :>
     <<row(<<97, 9>>, <<50, 57>>, <<97, 95, 48, 57, 95, 50, 57>>, 0),
       row(<<97, 9, 98>>, <<51, 48>>, <<97, 95, 48, 57, 98, 95, 51, 48>>, 2),
       row(<<97, 32, 40>>, <<51, 49>>, <<97, 95, 50, 48, 95, 50, 56, 95, 51, 49>>, 0)>>) @@
  (<<1, 0>> :> <<row(<<98>>, <<48>>, <<98, 95, 48>>, 0)>>)
=============================================================================
