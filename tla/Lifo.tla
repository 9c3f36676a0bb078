-------------------------------- MODULE Lifo --------------------------------
(***************************************************************************)
(* A stack of byte strings of different lengths, as the callers of stack.c *)
(* can rely on it: what is popped are the very bytes that were pushed last *)
(* and are still there, with the length they had.                          *)
(*                                                                         *)
(* A push may be refused for want of room only, until the first pop; after *)
(* it a refusal is allowed for no reason.  A pop is refused when there is  *)
(* nothing, when the receiver is too small or when the element is longer   *)
(* than Readable, and takes nothing away then.                             *)
(***************************************************************************)
EXTENDS Integers, Sequences

CONSTANTS
  Elements,    \* the byte strings that are pushed
  Receivers,   \* the sizes of the receivers of pop
  Room,        \* how many bytes the stack has for elements
  Overhead,    \* how many of them each element takes besides its own
  Readable     \* the longest element that can be popped

VARIABLES
  items,    \* the elements, the last one on top
  used,     \* the bytes they take
  popped,   \* whether a pop has ever succeeded
  code,     \* what the last call returned
  resp      \* what the last pop that succeeded copied out

lifoVars == <<items, used, popped, code, resp>>

LifoInit == items = <<>> /\ used = 0 /\ popped = FALSE /\ code = "0" /\ resp = <<>>

Last == items[Len(items)]

Push(e) ==
  \/ /\ used + Len(e) + Overhead <= Room
     /\ items' = Append(items, e)
     /\ used' = used + Len(e) + Overhead
     /\ code' = "0"
     /\ UNCHANGED <<popped, resp>>
  \/ /\ popped \/ used + Len(e) + Overhead > Room
     /\ code' = "E_OVERFLOW"
     /\ UNCHANGED <<items, used, popped, resp>>

Pop(size_res) ==
  \/ /\ items = <<>>
     /\ code' = "E_UNDERFLOW"
     /\ UNCHANGED <<items, used, popped, resp>>
  \/ /\ items # <<>>
     /\ Len(Last) > size_res \/ Len(Last) > Readable
     /\ code' = "E_OVERFLOW"
     /\ UNCHANGED <<items, used, popped, resp>>
  \/ /\ items # <<>>
     /\ Len(Last) <= size_res /\ Len(Last) <= Readable
     /\ resp' = Last
     /\ items' = SubSeq(items, 1, Len(items) - 1)
     /\ used' = used - Overhead - Len(Last)
     /\ popped' = TRUE
     /\ code' = "0"

LifoNext ==
  \/ \E e \in Elements : Push(e)
  \/ \E size_res \in Receivers : Pop(size_res)

LifoSpec == LifoInit /\ [][LifoNext]_lifoVars
=============================================================================
