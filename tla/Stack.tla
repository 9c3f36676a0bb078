-------------------------------- MODULE Stack --------------------------------
(***************************************************************************)
(* p05, stack.c: elements of different sizes in one buffer, each followed  *)
(* by a field of two bytes that holds its size (in p03 it is one byte and  *)
(* the rest is the same).                                                  *)
(*                                                                         *)
(* stack_top is a pointer into the buffer, cur_size a counter of its own:  *)
(* stack_pop takes the size field off the pointer, but not off the counter.*)
(* The size is written as an unsigned short and read back as one signed    *)
(* char that becomes a size_t.  `at' and `popped' only serve to say in the *)
(* properties which bytes are an element and what has happened before.     *)
(***************************************************************************)
EXTENDS Integers, Sequences

CONSTANTS
  StackSize,   \* stack_size
  Half,        \* 128: the values of a signed char are -Half .. Half - 1
  SizeT,       \* 2^64: size_t counts modulo SizeT
  Garbage,     \* what the buffer holds when malloc returns it
  Elements,    \* the byte strings that the callers push
  Receivers    \* the sizes of the buffers they pop into

Byte  == 2 * Half
Bytes == 0 .. Byte - 1
Field == 2                          \* sizeof(Size_elem)

\* The largest element that p05 pushes is a call of 129 bytes, rounded up to 136
\* (rec_desc.c:43, 294): its size fits in one unsigned byte, though not
\* always in a signed one.
ASSUME StackAssumption ==
  /\ StackSize \in Nat
  /\ Half \in Nat \ {0}
  /\ SizeT \in Nat
  /\ Garbage \in [0 .. StackSize - 1 -> Bytes]
  /\ Elements \subseteq Seq(Bytes)
  /\ \A e \in Elements : Len(e) < Byte
  /\ Receivers \subseteq Nat
  /\ \A size_res \in Receivers : size_res < SizeT - Byte

VARIABLES
  data,        \* data[o]: the byte at offset o of the buffer
  stack_top,   \* the offset that stack_top points to
  cur_size,
  code,        \* what the last call returned
  resp,        \* the bytes that the last pop that returned 0 copied out
  at,          \* at[k]: the offset at which the k-th element starts
  popped       \* whether stack_pop has ever returned 0

stackVars == <<data, stack_top, cur_size, code, resp, at, popped>>

\* stack_init, when malloc succeeds.
StackInit ==
  /\ data = Garbage
  /\ stack_top = 0
  /\ cur_size = 0
  /\ code = "0"
  /\ resp = <<>>
  /\ at = <<>>
  /\ popped = FALSE

-----------------------------------------------------------------------------

\* The n bytes at offset o.
Read(o, n) == [k \in 1 .. n |-> data[o + k - 1]]

Return(c) == code' = c /\ UNCHANGED <<data, stack_top, cur_size, resp, at, popped>>

Fits(e) == cur_size + Len(e) + Field <= StackSize

\* Mutant: the pointer moves by the element alone.
AdvanceBare(n) == stack_top + n

\* Where stack_top points after a push of n bytes.
Advance(n) == stack_top + n + Field

\* An unsigned short, its low byte first; n is below Byte.
SizeField(n) == <<n, 0>>

\* The element and its size field are copied to stack_top.
Stored(e) ==
  [o \in DOMAIN data |->
     IF o < stack_top THEN data[o]
     ELSE IF o < stack_top + Len(e) THEN e[o - stack_top + 1]
     ELSE IF o < stack_top + Len(e) + Field THEN SizeField(Len(e))[o - stack_top - Len(e) + 1]
     ELSE data[o]]

stack_push(e) ==
  \/ ~Fits(e) /\ Return("E_OVERFLOW")
  \/ /\ Fits(e)
     /\ cur_size' = cur_size + Len(e) + Field
     /\ data' = Stored(e)
     /\ stack_top' = Advance(Len(e))
     /\ code' = "0"
     /\ at' = Append(at, stack_top)
     /\ UNCHANGED <<resp, popped>>

\* A negative char becomes a size_t near its upper end.
AsSizeT(c) == IF c < Half THEN c ELSE SizeT - Byte + c

\* Mutant: the byte next to stack_top, the upper one of the size field.
SizeReadUpper == AsSizeT(data[stack_top - 1])

\* *((char *)cur), the lower byte of the size field below stack_top.
SizeRead == AsSizeT(data[stack_top - Field])

\* The two tests for a pointer before the buffer, and the one for the receiver.
Underflows(size_res) ==
  stack_top >= Field => SizeRead <= size_res /\ stack_top - Field < SizeRead

Overflows(size_res) == stack_top >= Field /\ SizeRead > size_res

\* Mutant: the size field is taken off cur_size twice.
LessTwice == cur_size - SizeRead - 2 * Field

\* What is left of cur_size after a pop.
Less == cur_size - SizeRead

stack_pop(size_res) ==
  \/ Underflows(size_res) /\ Return("E_UNDERFLOW")
  \/ Overflows(size_res) /\ Return("E_OVERFLOW")
  \/ /\ ~Underflows(size_res) /\ ~Overflows(size_res)
     /\ resp' = Read(stack_top - Field - SizeRead, SizeRead)
     /\ cur_size' = Less
     /\ stack_top' = stack_top - Field - SizeRead
     /\ code' = "0"
     /\ at' = SubSeq(at, 1, Len(at) - 1)
     /\ popped' = TRUE
     /\ UNCHANGED data

StackNext ==
  \/ \E e \in Elements : stack_push(e)
  \/ \E size_res \in Receivers : stack_pop(size_res)

StackSpec == StackInit /\ [][StackNext]_stackVars
-----------------------------------------------------------------------------
(* Properties.                                                             *)

StackTypeOK ==
  /\ data \in [0 .. StackSize - 1 -> Bytes]
  /\ stack_top \in Nat
  /\ cur_size \in Nat
  /\ code \in {"0", "E_UNDERFLOW", "E_OVERFLOW"}
  /\ resp \in Seq(Bytes)
  /\ at \in Seq(Nat)
  /\ popped \in BOOLEAN

\* The frame of the k-th element ends where the next one starts, the last one
\* at stack_top; before its end lies the size field.
End(k) == IF k = Len(at) THEN stack_top ELSE at[k + 1]
Size(k) == End(k) - Field - at[k]

\* The frames lie side by side from the start of the buffer up to stack_top,
\* and the two bytes at the end of each hold the number of the bytes before:
\* what stack_pop finds below stack_top is one whole frame.
Layout ==
  /\ at = <<>> => stack_top = 0
  /\ at # <<>> => at[1] = 0
  /\ \A k \in DOMAIN at :
       /\ Size(k) \in 0 .. Byte - 1
       /\ <<data[End(k) - 2], data[End(k) - 1]>> = SizeField(Size(k))

\* Nothing is ever written behind the buffer.
InBuffer == stack_top <= StackSize

\* "E_OVERFLOW Thrown in case ov overflow of allocated memory" (stack.h:49):
\* what a push refuses would not have fitted behind stack_top.
OverflowIsReal ==
  \A e \in Elements : ~Fits(e) => stack_top + Len(e) + Field > StackSize

\* The elements that lie in the buffer, their bytes read from it.
Items == [k \in DOMAIN at |-> Read(at[k], Size(k))]

\* The bytes in the buffer are those of a stack: refusals included, with the
\* signed char for the largest element that a pop can give back.
AbstractStack == INSTANCE Lifo WITH items <- Items, used <- stack_top,
                   Room <- StackSize, Overhead <- Field, Readable <- Half - 1
ImplementsLifo == AbstractStack!LifoSpec
=============================================================================
