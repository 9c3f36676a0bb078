------------------------------ MODULE MCStack ------------------------------
(* Module Stack for TLC.  A char has three bits instead of eight, so that  *)
(* an element of four bytes is as long as one of 128 for a signed char.    *)
EXTENDS Stack

MCGarbage  == [o \in 0 .. StackSize - 1 |-> 7]
MCElements == {<<1>>, <<2>>, <<3, 1, 0>>, <<6, 5, 4, 3>>}
=============================================================================
