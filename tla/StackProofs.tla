----------------------------- MODULE StackProofs -----------------------------
(***************************************************************************)
(* Proofs about module Stack, for every size of the buffer, every width of *)
(* a char and of a size_t and all elements that fit in one unsigned byte.  *)
(*                                                                         *)
(* The inductive invariant says, besides the types and the layout of the   *)
(* frames, that no frame reaches beyond stack_top and that cur_size lies   *)
(* between stack_top and the size of the buffer.  A push then changes no   *)
(* byte of an older element, and a pop finds the size field of the last    *)
(* one, reads it as it was written or takes it for a huge one, and copies  *)
(* out the bytes that were pushed.                                         *)
(***************************************************************************)
EXTENDS Stack, SequenceTheorems, TLAPS

IInv ==
  /\ StackTypeOK
  /\ Layout
  /\ \A k \in DOMAIN at : End(k) <= stack_top
  /\ \A j, k \in DOMAIN at : j < k => End(j) <= at[k]
  /\ stack_top <= cur_size
  /\ cur_size <= StackSize
  /\ ~popped => cur_size = stack_top

LEMMA ByteFacts ==
  /\ StackSize \in Nat /\ Half \in Nat /\ Byte \in Nat /\ Half > 0
  /\ Byte = Half + Half /\ SizeT \in Nat
  /\ \A b \in Bytes : b \in Nat /\ b < Byte
BY StackAssumption DEF Byte, Bytes

LEMMA ElementFacts ==
  ASSUME NEW e \in Elements
  PROVE  /\ e \in Seq(Bytes)
         /\ Len(e) \in Nat
         /\ Len(e) < Byte
         /\ \A j \in 1 .. Len(e) : e[j] \in Bytes
BY StackAssumption

LEMMA IndexFacts ==
  ASSUME IInv
  PROVE  /\ Len(at) \in Nat
         /\ DOMAIN at = 1 .. Len(at)
         /\ at = <<>> <=> Len(at) = 0
         /\ \A k \in 1 .. Len(at) : at[k] \in Nat /\ End(k) \in Nat
         /\ stack_top \in Nat /\ cur_size \in Nat
<1>1. at \in Seq(Nat) /\ stack_top \in Nat /\ cur_size \in Nat
  BY DEF IInv, StackTypeOK
<1>2. \A k \in 1 .. Len(at) : End(k) \in Nat
  <2> SUFFICES ASSUME NEW k \in 1 .. Len(at) PROVE End(k) \in Nat
    OBVIOUS
  <2>1. k # Len(at) => k + 1 \in 1 .. Len(at)
    BY <1>1
  <2> QED
    BY <1>1, <2>1 DEF End
<1> QED
  BY <1>1, <1>2, EmptySeq

\* The offsets of a frame of s and two bytes that ends below t.
LEMMA InFrame ==
  ASSUME NEW a \in Nat, NEW s \in Nat, NEW t \in Nat, a + s + 2 <= t
  PROVE  /\ (a + s + 2) - 2 \in 0 .. t - 1
         /\ (a + s + 2) - 1 \in 0 .. t - 1
         /\ \A j \in 1 .. s : a + j - 1 \in 0 .. t - 1
OBVIOUS

\* A sequence without its last element.
LEMMA FrontFacts ==
  ASSUME NEW S, NEW s \in Seq(S), s # <<>>
  PROVE  /\ Len(s) \in Nat \ {0}
         /\ SubSeq(s, 1, Len(s) - 1) \in Seq(S)
         /\ Len(SubSeq(s, 1, Len(s) - 1)) = Len(s) - 1
         /\ DOMAIN SubSeq(s, 1, Len(s) - 1) = 1 .. Len(s) - 1
         /\ \A k \in 1 .. Len(s) - 1 : SubSeq(s, 1, Len(s) - 1)[k] = s[k]
<1>1. Len(s) \in Nat \ {0}
  BY EmptySeq
<1>2. PICK n \in Nat \ {0} : n = Len(s)
  BY <1>1
<1>3. \A k \in 1 .. n - 1 : s[k] \in S
  BY <1>2, ElementOfSeq
<1>4. /\ SubSeq(s, 1, n - 1) \in Seq(S)
      /\ Len(SubSeq(s, 1, n - 1)) = IF 1 <= n - 1 THEN (n - 1) - 1 + 1 ELSE 0
      /\ \A k \in 1 .. (n - 1) - 1 + 1 : SubSeq(s, 1, n - 1)[k] = s[1 + k - 1]
  <2>1. n - 1 \in Int /\ 1 \in Int
    OBVIOUS
  <2> QED
    BY <1>3, <2>1, SubSeqProperties
<1>5. Len(SubSeq(s, 1, n - 1)) = n - 1
  BY <1>4
<1>6. \A k \in 1 .. n - 1 : SubSeq(s, 1, n - 1)[k] = s[k]
  <2>1. \A k \in 1 .. n - 1 : k \in 1 .. (n - 1) - 1 + 1 /\ 1 + k - 1 = k
    OBVIOUS
  <2> QED
    BY <1>4, <2>1
<1>7. DOMAIN SubSeq(s, 1, n - 1) = 1 .. n - 1
  BY <1>4, <1>5, LenProperties
<1> QED
  BY <1>1, <1>2, <1>4, <1>5, <1>6, <1>7

\* Where the bytes of the k-th element lie.
LEMMA FrameFacts ==
  ASSUME IInv, NEW k \in 1 .. Len(at)
  PROVE  /\ at[k] \in Nat
         /\ Size(k) \in Nat
         /\ Size(k) < Byte
         /\ End(k) = at[k] + Size(k) + 2
         /\ End(k) <= stack_top
         /\ stack_top <= StackSize
         /\ data[End(k) - 2] = Size(k)
         /\ data[End(k) - 1] = 0
<1>1. at[k] \in Nat /\ End(k) \in Nat /\ k \in DOMAIN at /\ stack_top \in Nat /\ cur_size \in Nat
  BY IndexFacts
<1>2. Size(k) \in 0 .. Byte - 1 /\ <<data[End(k) - 2], data[End(k) - 1]>> = SizeField(Size(k))
  BY <1>1 DEF IInv, Layout
<1>3. Size(k) = End(k) - 2 - at[k]
  BY DEF Size, Field
<1>4. data[End(k) - 2] = Size(k) /\ data[End(k) - 1] = 0
  BY <1>2 DEF SizeField
<1>5. End(k) <= stack_top /\ stack_top <= StackSize
  BY <1>1, ByteFacts DEF IInv
<1>6. Size(k) \in Nat /\ Size(k) < Byte
  BY <1>2, ByteFacts
<1>7. End(k) = at[k] + Size(k) + 2
  BY <1>1, <1>3
<1> QED
  BY <1>1, <1>4, <1>5, <1>6, <1>7

\* Read gives n bytes.
LEMMA ReadFacts ==
  ASSUME IInv, NEW o \in Nat, NEW n \in Nat, o + n <= StackSize
  PROVE  /\ Read(o, n) \in Seq(Bytes)
         /\ Len(Read(o, n)) = n
         /\ \A k \in 1 .. n : Read(o, n)[k] = data[o + k - 1]
<1>1. \A k \in 1 .. n : data[o + k - 1] \in Bytes
  <2> SUFFICES ASSUME NEW k \in 1 .. n PROVE data[o + k - 1] \in Bytes
    OBVIOUS
  <2>1. o + k - 1 \in 0 .. StackSize - 1
    BY ByteFacts
  <2> QED
    BY <2>1 DEF IInv, StackTypeOK
<1>2. Read(o, n) \in [1 .. n -> Bytes]
  BY <1>1 DEF Read
<1>3. Read(o, n) \in Seq(Bytes)
  BY <1>2, SeqDef
<1>4. Len(Read(o, n)) = n
  BY <1>2, <1>3
<1> QED
  BY <1>3, <1>4 DEF Read

\* What Items is.
LEMMA ItemsFacts ==
  ASSUME IInv
  PROVE  /\ Items \in Seq(Seq(Bytes))
         /\ Len(Items) = Len(at)
         /\ Items = <<>> <=> at = <<>>
         /\ \A k \in 1 .. Len(at) : Items[k] = Read(at[k], Size(k)) /\ Len(Items[k]) = Size(k)
<1>1. \A k \in 1 .. Len(at) : Read(at[k], Size(k)) \in Seq(Bytes)
                              /\ Len(Read(at[k], Size(k))) = Size(k)
  <2> SUFFICES ASSUME NEW k \in 1 .. Len(at)
               PROVE  /\ Read(at[k], Size(k)) \in Seq(Bytes)
                      /\ Len(Read(at[k], Size(k))) = Size(k)
    OBVIOUS
  <2>1. /\ at[k] \in Nat /\ Size(k) \in Nat /\ End(k) = at[k] + Size(k) + 2
        /\ End(k) <= stack_top /\ stack_top <= StackSize
    BY FrameFacts
  <2>2. at[k] + Size(k) <= StackSize
    BY <2>1, ByteFacts, IndexFacts
  <2> QED
    BY <2>1, <2>2, ReadFacts
<1>2. Items = [k \in 1 .. Len(at) |-> Read(at[k], Size(k))]
  BY IndexFacts DEF Items
<1>3. Items \in [1 .. Len(at) -> Seq(Bytes)]
  BY <1>1, <1>2
<1>4. Items \in Seq(Seq(Bytes))
  BY <1>3, IndexFacts, SeqDef
<1>5. Len(Items) = Len(at)
  BY <1>3, <1>4, IndexFacts
<1>6. Items = <<>> <=> at = <<>>
  BY <1>4, <1>5, IndexFacts, EmptySeq
<1> QED
  BY <1>1, <1>2, <1>4, <1>5, <1>6

LEMMA InitIInv == StackInit => IInv
<1> SUFFICES ASSUME StackInit PROVE IInv
  OBVIOUS
<1>1. StackTypeOK
  <2>1. <<>> \in Seq(Bytes) /\ <<>> \in Seq(Nat)
    BY EmptySeq
  <2> QED
    BY <2>1, StackAssumption DEF StackInit, StackTypeOK
<1>2. DOMAIN at = {}
  BY DEF StackInit
<1>3. Layout
  BY <1>2 DEF StackInit, Layout
<1> QED
  BY <1>1, <1>2, <1>3, ByteFacts DEF StackInit, IInv

\* A call that is refused changes nothing but the code it returns.
LEMMA RefusalKeepsIInv ==
  ASSUME IInv, UNCHANGED <<data, stack_top, cur_size, resp, at, popped>>,
         code' \in {"0", "E_UNDERFLOW", "E_OVERFLOW"}
  PROVE  IInv' /\ Items' = Items
<1>1. StackTypeOK'
  BY DEF IInv, StackTypeOK
<1>2. Layout'
  BY DEF IInv, Layout, End, Size
<1>3. (/\ \A k \in DOMAIN at : End(k) <= stack_top
       /\ \A j, k \in DOMAIN at : j < k => End(j) <= at[k])'
  BY DEF IInv, End
<1> QED
  BY <1>1, <1>2, <1>3 DEF IInv, Items, Read, Size, End

LEMMA PushStep ==
  ASSUME IInv, NEW e \in Elements, Fits(e),
         cur_size' = cur_size + Len(e) + Field,
         data' = Stored(e),
         stack_top' = Advance(Len(e)),
         code' = "0",
         at' = Append(at, stack_top),
         UNCHANGED <<resp, popped>>
  PROVE  IInv' /\ Items' = Append(Items, e) /\ stack_top + Len(e) + Field <= StackSize
<1> DEFINE n == Len(at)
           m == Len(e)
           E(k) == IF k = n + 1 THEN stack_top' ELSE at'[k + 1]
           Z(k) == E(k) - 2 - at'[k]
<1>1. /\ n \in Nat /\ m \in Nat /\ m < Byte
      /\ stack_top \in Nat /\ cur_size \in Nat
      /\ stack_top' = stack_top + m + 2
      /\ cur_size' = cur_size + m + 2
      /\ cur_size' <= StackSize
      /\ stack_top' <= cur_size'
      /\ stack_top <= StackSize
      /\ ~popped' => cur_size' = stack_top'
  <2>1. n \in Nat /\ stack_top \in Nat /\ cur_size \in Nat /\ m \in Nat /\ m < Byte
    BY IndexFacts, ElementFacts
  <2>2. stack_top' = stack_top + m + 2 /\ cur_size' = cur_size + m + 2
    BY DEF Advance, Field
  <2>3. cur_size + m + 2 <= StackSize /\ stack_top <= cur_size /\ (~popped => cur_size = stack_top)
    BY DEF Fits, Field, IInv
  <2> HIDE DEF n, m
  <2> QED
    BY <2>1, <2>2, <2>3, ByteFacts
<1>2. /\ at' \in Seq(Nat) /\ Len(at') = n + 1 /\ DOMAIN at' = 1 .. n + 1
      /\ \A k \in 1 .. n : at'[k] = at[k]
      /\ at'[n + 1] = stack_top
      /\ at' # <<>>
  <2>1. at \in Seq(Nat) /\ stack_top \in Nat
    BY DEF IInv, StackTypeOK
  <2> QED
    BY <2>1
<1>3. /\ data' \in [0 .. StackSize - 1 -> Bytes]
      /\ \A o \in 0 .. stack_top - 1 : data'[o] = data[o]
      /\ \A j \in 1 .. m : data'[stack_top + j - 1] = e[j]
      /\ data'[stack_top + m] = m
      /\ data'[stack_top + m + 1] = 0
  <2>1. data \in [0 .. StackSize - 1 -> Bytes] /\ DOMAIN data = 0 .. StackSize - 1
    BY DEF IInv, StackTypeOK
  <2>2. /\ \A j \in 1 .. m : e[j] \in Bytes
        /\ m \in Bytes /\ 0 \in Bytes
    BY <1>1, ElementFacts, ByteFacts DEF Bytes
  <2>3. /\ DOMAIN data' = 0 .. StackSize - 1
        /\ \A o \in 0 .. StackSize - 1 :
             data'[o] = IF o < stack_top THEN data[o]
                        ELSE IF o < stack_top + m THEN e[o - stack_top + 1]
                        ELSE IF o < stack_top + m + 2 THEN <<m, 0>>[o - stack_top - m + 1]
                        ELSE data[o]
    BY <2>1 DEF Stored, SizeField, Field
  <2> HIDE DEF n, m
  <2>4. \A o \in 0 .. stack_top - 1 : data'[o] = data[o]
    BY <1>1, <2>3, ByteFacts
  <2>5. \A j \in 1 .. m : data'[stack_top + j - 1] = e[j]
    <3> SUFFICES ASSUME NEW j \in 1 .. m PROVE data'[stack_top + j - 1] = e[j]
      OBVIOUS
    <3>1. /\ stack_top + j - 1 \in 0 .. StackSize - 1
          /\ ~(stack_top + j - 1 < stack_top)
          /\ stack_top + j - 1 < stack_top + m
          /\ (stack_top + j - 1) - stack_top + 1 = j
      BY <1>1, ByteFacts
    <3> QED
      BY <2>3, <3>1
  <2>6. data'[stack_top + m] = m
    <3>1. /\ stack_top + m \in 0 .. StackSize - 1
          /\ ~(stack_top + m < stack_top) /\ ~(stack_top + m < stack_top + m)
          /\ stack_top + m < stack_top + m + 2
          /\ (stack_top + m) - stack_top - m + 1 = 1
      BY <1>1, ByteFacts
    <3> QED
      BY <2>3, <3>1
  <2>7. data'[stack_top + m + 1] = 0
    <3>1. /\ stack_top + m + 1 \in 0 .. StackSize - 1
          /\ ~(stack_top + m + 1 < stack_top) /\ ~(stack_top + m + 1 < stack_top + m)
          /\ stack_top + m + 1 < stack_top + m + 2
          /\ (stack_top + m + 1) - stack_top - m + 1 = 2
      BY <1>1, ByteFacts
    <3> QED
      BY <2>3, <3>1
  <2>8. \A o \in 0 .. StackSize - 1 : data'[o] \in Bytes
    <3> SUFFICES ASSUME NEW o \in 0 .. StackSize - 1 PROVE data'[o] \in Bytes
      OBVIOUS
    <3>1. CASE o < stack_top
      BY <2>1, <2>3, <3>1
    <3>2. CASE ~(o < stack_top) /\ o < stack_top + m
      <4>1. o - stack_top + 1 \in 1 .. m /\ o = stack_top + (o - stack_top + 1) - 1
        BY <1>1, <3>2
      <4> QED
        BY <2>2, <2>5, <4>1
    <3>3. CASE ~(o < stack_top + m) /\ o < stack_top + m + 2
      <4>1. o = stack_top + m \/ o = stack_top + m + 1
        BY <1>1, <3>3
      <4> QED
        BY <2>2, <2>6, <2>7, <4>1
    <3>4. CASE ~(o < stack_top) /\ ~(o < stack_top + m) /\ ~(o < stack_top + m + 2)
      BY <2>1, <2>3, <3>4
    <3> QED
      BY <1>1, <3>1, <3>2, <3>3, <3>4
  <2>9. data' \in [0 .. StackSize - 1 -> Bytes]
    <3>1. data' = [o \in DOMAIN data' |-> data'[o]]
      BY DEF Stored
    <3> QED
      BY <2>3, <2>8, <3>1
  <2> QED
    BY <2>4, <2>5, <2>6, <2>7, <2>9
<1>4. /\ \A k \in 1 .. n : E(k) = End(k) /\ Z(k) = Size(k)
      /\ E(n + 1) = stack_top + m + 2
      /\ Z(n + 1) = m
  <2>1. \A k \in 1 .. n : E(k) = End(k)
    <3> SUFFICES ASSUME NEW k \in 1 .. n PROVE E(k) = End(k)
      OBVIOUS
    <3>1. E(k) = at'[k + 1]
      BY <1>1
    <3>2. CASE k = n
      BY <1>2, <3>1, <3>2 DEF End
    <3>3. CASE k # n
      <4>1. k + 1 \in 1 .. n
        BY <1>1, <3>3
      <4> QED
        BY <1>2, <3>1, <3>3, <4>1 DEF End
    <3> QED
      BY <3>2, <3>3
  <2>2. \A k \in 1 .. n : Z(k) = Size(k)
    BY <1>2, <2>1 DEF Size, Field
  <2>3. E(n + 1) = stack_top + m + 2
    BY <1>1
  <2>4. Z(n + 1) = (stack_top + m + 2) - 2 - stack_top
    BY <1>2, <2>3
  <2>5. (stack_top + m + 2) - 2 - stack_top = m
    <3> HIDE DEF n, m
    <3> QED
      BY <1>1
  <2> QED
    BY <2>1, <2>2, <2>3, <2>4, <2>5
<1>4a. \A k \in 1 .. n + 1 : End(k)' = E(k) /\ Size(k)' = Z(k)
  BY <1>2 DEF End, Size, Field
<1> HIDE DEF E, Z
<1>5. StackTypeOK'
  BY <1>1, <1>2, <1>3 DEF IInv, StackTypeOK
<1>6. \A k \in 1 .. n : /\ at[k] \in Nat /\ Size(k) \in Nat /\ Size(k) < Byte
                        /\ End(k) = at[k] + Size(k) + 2 /\ End(k) <= stack_top
                        /\ data'[End(k) - 2] = Size(k) /\ data'[End(k) - 1] = 0
  <2> SUFFICES ASSUME NEW k \in 1 .. n
               PROVE  /\ at[k] \in Nat /\ Size(k) \in Nat /\ Size(k) < Byte
                      /\ End(k) = at[k] + Size(k) + 2 /\ End(k) <= stack_top
                      /\ data'[End(k) - 2] = Size(k) /\ data'[End(k) - 1] = 0
    OBVIOUS
  <2>1. /\ at[k] \in Nat /\ Size(k) \in Nat /\ Size(k) < Byte
        /\ End(k) = at[k] + Size(k) + 2 /\ End(k) <= stack_top
        /\ data[End(k) - 2] = Size(k) /\ data[End(k) - 1] = 0
    BY FrameFacts
  <2>2. End(k) - 2 \in 0 .. stack_top - 1 /\ End(k) - 1 \in 0 .. stack_top - 1
    <3>1. at[k] + Size(k) + 2 <= stack_top
      BY <2>1
    <3>2. /\ (at[k] + Size(k) + 2) - 2 \in 0 .. stack_top - 1
          /\ (at[k] + Size(k) + 2) - 1 \in 0 .. stack_top - 1
      BY <1>1, <2>1, <3>1, InFrame
    <3> QED
      BY <2>1, <3>2
  <2> QED
    BY <1>3, <2>1, <2>2
<1>7. Layout'
  <2>1. at'[1] = 0
    <3>1. CASE n = 0
      <4>1. stack_top = 0
        BY <3>1, IndexFacts DEF IInv, Layout
      <4> QED
        BY <1>2, <3>1, <4>1
    <3>2. CASE n # 0
      <4>1. 1 \in 1 .. n /\ at # <<>>
        BY <1>1, <3>2, IndexFacts
      <4> QED
        BY <1>2, <4>1 DEF IInv, Layout
    <3> QED
      BY <3>1, <3>2
  <2>2. \A k \in 1 .. n : /\ Z(k) \in 0 .. Byte - 1
                          /\ data'[E(k) - 2] = Z(k) /\ data'[E(k) - 1] = 0
    BY <1>4, <1>6, ByteFacts
  <2>3. /\ Z(n + 1) \in 0 .. Byte - 1
        /\ data'[E(n + 1) - 2] = Z(n + 1) /\ data'[E(n + 1) - 1] = 0
    <3>1. m \in 0 .. Byte - 1 /\ (stack_top + m + 2) - 2 = stack_top + m
          /\ (stack_top + m + 2) - 1 = stack_top + m + 1
      <4> HIDE DEF n, m
      <4> QED
        BY <1>1, ByteFacts
    <3> QED
      BY <1>3, <1>4, <3>1
  <2>4. \A k \in 1 .. n + 1 : k \in 1 .. n \/ k = n + 1
    BY <1>1
  <2>5. \A k \in 1 .. n + 1 : /\ Z(k) \in 0 .. Byte - 1
                              /\ data'[E(k) - 2] = Z(k) /\ data'[E(k) - 1] = 0
    BY <2>2, <2>3, <2>4
  <2>6. \A k \in 1 .. n + 1 : /\ Size(k)' \in 0 .. Byte - 1
                              /\ data'[End(k)' - 2] = Size(k)' /\ data'[End(k)' - 1] = 0
    BY <1>4a, <2>5
  <2>7. (\A k \in DOMAIN at : /\ Size(k) \in 0 .. Byte - 1
           /\ <<data[End(k) - 2], data[End(k) - 1]>> = SizeField(Size(k)))'
    BY <1>2, <2>6 DEF SizeField, Byte
  <2> QED
    BY <1>2, <2>1, <2>7 DEF Layout
<1>8. (\A k \in DOMAIN at : End(k) <= stack_top)'
  <2>1. \A k \in 1 .. n : End(k) \in Nat /\ End(k) <= stack_top
    BY <1>6, IndexFacts
  <2>2. \A k \in 1 .. n + 1 : k \in 1 .. n \/ k = n + 1
    BY <1>1
  <2>3. \A k \in 1 .. n : E(k) <= stack_top'
    <3> HIDE DEF n, m
    <3> QED
      BY <1>1, <1>4, <2>1
  <2>4. E(n + 1) <= stack_top'
    <3> HIDE DEF n, m
    <3> QED
      BY <1>1, <1>4
  <2>5. \A k \in 1 .. n + 1 : End(k)' <= stack_top'
    BY <1>4a, <2>2, <2>3, <2>4
  <2> QED
    BY <1>2, <2>5
<1>9a. (\A j, k \in DOMAIN at : j < k => End(j) <= at[k])'
  <2> SUFFICES ASSUME NEW j \in 1 .. n + 1, NEW k \in 1 .. n + 1, j < k
               PROVE  End(j)' <= at'[k]
    BY <1>2
  <2>1. j \in 1 .. n /\ End(j)' = End(j)
    <3>1. j \in 1 .. n
      <4> HIDE DEF n
      <4> QED
        BY <1>1
    <3> QED
      BY <1>4, <1>4a, <3>1
  <2>2. CASE k = n + 1
    BY <1>2, <1>6, <2>1, <2>2
  <2>3. CASE k # n + 1
    <3>1. k \in 1 .. n
      <4> HIDE DEF n
      <4> QED
        BY <1>1, <2>3
    <3> QED
      BY <1>2, <2>1, <3>1, IndexFacts DEF IInv
  <2> QED
    BY <2>2, <2>3
<1>9. IInv'
  BY <1>1, <1>2, <1>5, <1>7, <1>8, <1>9a DEF IInv
<1>10. Items' = Append(Items, e)
  <2>1. /\ Items \in Seq(Seq(Bytes)) /\ Len(Items) = n /\ e \in Seq(Bytes)
        /\ \A k \in 1 .. n : Items[k] = Read(at[k], Size(k))
    BY ItemsFacts, ElementFacts
  <2>2. /\ Append(Items, e) \in Seq(Seq(Bytes))
        /\ Len(Append(Items, e)) = n + 1
        /\ \A k \in 1 .. n : Append(Items, e)[k] = Items[k]
        /\ Append(Items, e)[n + 1] = e
    BY <2>1
  <2>3. Items' = [k \in 1 .. n + 1 |-> [j \in 1 .. Z(k) |-> data'[at'[k] + j - 1]]]
    <3>1. Items' = [k \in 1 .. n + 1 |-> [j \in 1 .. Size(k)' |-> data'[at'[k] + j - 1]]]
      BY <1>2 DEF Items, Read
    <3> QED
      BY <1>4a, <3>1
  <2>4. \A k \in 1 .. n : [j \in 1 .. Z(k) |-> data'[at'[k] + j - 1]] = Append(Items, e)[k]
    <3> SUFFICES ASSUME NEW k \in 1 .. n
                 PROVE  [j \in 1 .. Z(k) |-> data'[at'[k] + j - 1]] = Read(at[k], Size(k))
      BY <2>1, <2>2
    <3>1. \A j \in 1 .. Size(k) : at[k] + j - 1 \in 0 .. stack_top - 1
      <4>1. at[k] \in Nat /\ Size(k) \in Nat /\ at[k] + Size(k) + 2 <= stack_top
        BY <1>6
      <4> QED
        BY <1>1, <4>1, InFrame
    <3>2. \A j \in 1 .. Size(k) : data'[at[k] + j - 1] = data[at[k] + j - 1]
      BY <1>3, <3>1
    <3>3. Z(k) = Size(k) /\ at'[k] = at[k]
      BY <1>2, <1>4
    <3> QED
      BY <3>2, <3>3 DEF Read
  <2>5. [j \in 1 .. Z(n + 1) |-> data'[at'[n + 1] + j - 1]] = e
    <3>1. [j \in 1 .. m |-> data'[stack_top + j - 1]] = [j \in 1 .. m |-> e[j]]
      BY <1>3
    <3>2. e = [j \in 1 .. m |-> e[j]]
      BY <2>1
    <3> QED
      BY <1>2, <1>4, <3>1, <3>2
  <2>6. \A k \in 1 .. n + 1 : k \in 1 .. n \/ k = n + 1
    BY <1>1
  <2>7. \A k \in 1 .. n + 1 : Items'[k] = Append(Items, e)[k]
    <3>1. \A k \in 1 .. n + 1 :
            Items'[k] = [j \in 1 .. Z(k) |-> data'[at'[k] + j - 1]]
      BY <2>3
    <3>2. n + 1 \in 1 .. n + 1 /\ \A k \in 1 .. n : k \in 1 .. n + 1
      BY <1>1
    <3>3. \A k \in 1 .. n : Items'[k] = Append(Items, e)[k]
      BY <2>4, <3>1, <3>2
    <3>4. Items'[n + 1] = Append(Items, e)[n + 1]
      BY <2>2, <2>5, <3>1, <3>2
    <3> QED
      BY <2>6, <3>3, <3>4
  <2>8. Append(Items, e) = [k \in 1 .. n + 1 |-> Append(Items, e)[k]]
    <3>1. \A q \in Seq(Seq(Bytes)) : q \in [1 .. Len(q) -> Seq(Bytes)]
      BY LenProperties
    <3>2. Append(Items, e) \in [1 .. n + 1 -> Seq(Bytes)]
      BY <2>2, <3>1
    <3> QED
      BY <3>2
  <2>9. Items' = [k \in 1 .. n + 1 |-> Items'[k]]
    BY <2>3
  <2> QED
    BY <2>7, <2>8, <2>9
<1>11. stack_top + Len(e) + Field <= StackSize
  BY <1>1, ByteFacts DEF Field
<1> QED
  BY <1>9, <1>10, <1>11

\* What a pop finds: nothing, or the size of the last element as it was
\* written, or a huge one in its place.
LEMMA SizeFound ==
  ASSUME IInv, NEW size_res \in Receivers
  PROVE  /\ at = <<>> => Underflows(size_res) /\ ~Overflows(size_res)
         /\ at # <<>> =>
              /\ Len(at) \in 1 .. Len(at)
              /\ ~Underflows(size_res)
              /\ Overflows(size_res) <=> Size(Len(at)) > size_res \/ Size(Len(at)) > Half - 1
              /\ ~Overflows(size_res) => SizeRead = Size(Len(at))
<1>1. CASE at = <<>>
  <2>1. stack_top = 0
    BY <1>1 DEF IInv, Layout
  <2> QED
    BY <1>1, <2>1 DEF Underflows, Overflows, Field
<1>2. CASE at # <<>>
  <2> DEFINE n == Len(at)
             z == Size(n)
  <2>1. n \in 1 .. n /\ End(n) = stack_top
    <3>1. Len(at) \in Nat /\ Len(at) # 0
      BY <1>2, IndexFacts
    <3> QED
      BY <3>1 DEF End
  <2>2. /\ at[n] \in Nat /\ z \in Nat /\ z < Byte
        /\ stack_top = at[n] + z + 2
        /\ data[stack_top - 2] = z
    BY <2>1, FrameFacts
  <2>3. PICK a \in Nat : a = at[n]
    BY <2>2
  <2>4. stack_top \in Nat /\ stack_top >= 2 /\ stack_top - 2 = a + z
    <3> HIDE DEF z
    <3> QED
      BY <2>2, <2>3
  <2>5. SizeRead = IF z < Half THEN z ELSE SizeT - Byte + z
    BY <2>2 DEF SizeRead, AsSizeT, Field
  <2>6. size_res \in Nat /\ size_res < SizeT - Byte
    BY StackAssumption
  <2> HIDE DEF z, n
  <2>7. CASE z < Half
    <3>1. SizeRead = z /\ ~(z > Half - 1) /\ ~(stack_top - 2 < z)
      BY <2>2, <2>4, <2>5, <2>7, ByteFacts
    <3>2. Overflows(size_res) <=> z > size_res
      BY <2>4, <3>1 DEF Overflows, Field
    <3>3. ~Underflows(size_res)
      BY <2>4, <3>1 DEF Underflows, Field
    <3> QED
      BY <1>2, <2>1, <3>1, <3>2, <3>3 DEF z, n
  <2>8. CASE ~(z < Half)
    <3>1. SizeRead > size_res /\ ~(SizeRead <= size_res) /\ z > Half - 1
      BY <2>2, <2>5, <2>6, <2>8, ByteFacts
    <3>2. Overflows(size_res)
      BY <2>4, <3>1 DEF Overflows, Field
    <3>3. ~Underflows(size_res)
      BY <2>4, <3>1 DEF Underflows, Field
    <3> QED
      BY <1>2, <2>1, <3>1, <3>2, <3>3 DEF z, n
  <2> QED
    BY <2>7, <2>8
<1> QED
  BY <1>1, <1>2

LEMMA PopStep ==
  ASSUME IInv, at # <<>>,
         resp' = Read(stack_top - Field - Size(Len(at)), Size(Len(at))),
         cur_size' = cur_size - Size(Len(at)),
         stack_top' = stack_top - Field - Size(Len(at)),
         code' = "0",
         at' = SubSeq(at, 1, Len(at) - 1),
         popped' = TRUE,
         UNCHANGED data
  PROVE  /\ IInv'
         /\ Items' = SubSeq(Items, 1, Len(Items) - 1)
         /\ resp' = Items[Len(Items)]
         /\ Len(Items[Len(Items)]) = Size(Len(at))
<1> DEFINE n == Len(at)
           z == Size(n)
<1>1. /\ n \in Nat \ {0} /\ n \in 1 .. n
      /\ at[n] \in Nat /\ z \in Nat
      /\ stack_top \in Nat /\ cur_size \in Nat
      /\ stack_top = at[n] + z + 2
      /\ End(n) = stack_top
  <2>1. n \in Nat \ {0} /\ n \in 1 .. n /\ End(n) = stack_top
    <3>1. Len(at) \in Nat /\ Len(at) # 0
      BY IndexFacts
    <3> QED
      BY <3>1 DEF End
  <2>2. at[n] \in Nat /\ z \in Nat /\ End(n) = at[n] + z + 2
    BY <2>1, FrameFacts
  <2> QED
    BY <2>1, <2>2, IndexFacts
<1>2. stack_top' = at[n]
  <2>1. PICK a \in Nat : a = at[n]
    BY <1>1
  <2>2. stack_top' = stack_top - 2 - z
    BY DEF Field
  <2>3. stack_top = a + z + 2
    BY <1>1, <2>1
  <2> HIDE DEF z
  <2> QED
    BY <1>1, <2>1, <2>2, <2>3
<1>3. /\ at' \in Seq(Nat) /\ Len(at') = n - 1 /\ DOMAIN at' = 1 .. n - 1
      /\ \A k \in 1 .. n - 1 : at'[k] = at[k]
  <2>1. at \in Seq(Nat)
    BY DEF IInv, StackTypeOK
  <2> QED
    BY <2>1, FrontFacts
<1>4. \A k \in 1 .. n - 1 : k \in 1 .. n /\ End(k)' = End(k) /\ Size(k)' = Size(k)
  <2> SUFFICES ASSUME NEW k \in 1 .. n - 1
               PROVE  k \in 1 .. n /\ End(k)' = End(k) /\ Size(k)' = Size(k)
    OBVIOUS
  <2>1. k \in 1 .. n /\ k # n /\ End(k) = at[k + 1]
    BY <1>1 DEF End
  <2>2. End(k)' = IF k = n - 1 THEN stack_top' ELSE at'[k + 1]
    BY <1>3 DEF End
  <2>3. CASE k = n - 1
    <3>1. k + 1 = n
      BY <1>1, <2>3
    <3> QED
      BY <1>2, <1>3, <2>1, <2>2, <2>3, <3>1 DEF Size
  <2>4. CASE k # n - 1
    <3>1. k + 1 \in 1 .. n - 1
      BY <1>1, <2>4
    <3> QED
      BY <1>3, <2>1, <2>2, <2>4, <3>1 DEF Size
  <2> QED
    BY <2>3, <2>4
<1>5. /\ Items \in Seq(Seq(Bytes)) /\ Len(Items) = n
      /\ \A k \in 1 .. n : Items[k] = Read(at[k], Size(k)) /\ Len(Items[k]) = Size(k)
  BY ItemsFacts
<1>6. resp' = Items[n] /\ resp' \in Seq(Bytes)
  <2>1. resp' = Read(at[n], z)
    BY <1>2
  <2>2. resp' = Items[n]
    BY <1>1, <1>5, <2>1
  <2> QED
    BY <1>1, <1>5, <2>2
<1>7. cur_size' \in Nat /\ stack_top' <= cur_size' /\ cur_size' <= StackSize
  <2>1. PICK a \in Nat : a = at[n]
    BY <1>1
  <2>2. /\ stack_top = a + z + 2 /\ stack_top' = a /\ cur_size' = cur_size - z
        /\ stack_top <= cur_size /\ cur_size <= StackSize
    BY <1>1, <1>2, <2>1 DEF IInv
  <2> HIDE DEF z
  <2> QED
    BY <1>1, <2>1, <2>2, ByteFacts
<1>8. StackTypeOK'
  BY <1>1, <1>2, <1>3, <1>6, <1>7 DEF IInv, StackTypeOK
<1>9. Layout'
  <2>1. at' = <<>> => stack_top' = 0
    <3> SUFFICES ASSUME at' = <<>> PROVE stack_top' = 0
      OBVIOUS
    <3>1. n - 1 = 0
      BY <1>3, EmptySeq
    <3>2. n = 1
      BY <1>1, <3>1
    <3> QED
      BY <1>2, <3>2 DEF IInv, Layout
  <2>2. at' # <<>> => at'[1] = 0
    <3> SUFFICES ASSUME at' # <<>> PROVE at'[1] = 0
      OBVIOUS
    <3>1. 1 \in 1 .. n - 1
      BY <1>1, <1>3, EmptySeq
    <3> QED
      BY <1>3, <3>1 DEF IInv, Layout
  <2>3. \A k \in 1 .. n - 1 :
          /\ Size(k)' \in 0 .. Byte - 1
          /\ <<data'[End(k)' - 2], data'[End(k)' - 1]>> = SizeField(Size(k)')
    BY <1>4, IndexFacts DEF IInv, Layout
  <2>4. (\A k \in DOMAIN at : /\ Size(k) \in 0 .. Byte - 1
           /\ <<data[End(k) - 2], data[End(k) - 1]>> = SizeField(Size(k)))'
    BY <1>3, <2>3 DEF SizeField, Byte
  <2> QED
    BY <2>1, <2>2, <2>4 DEF Layout
<1>10. (/\ \A k \in DOMAIN at : End(k) <= stack_top
        /\ \A j, k \in DOMAIN at : j < k => End(j) <= at[k])'
  <2>1. \A k \in 1 .. n - 1 : k \in DOMAIN at /\ n \in DOMAIN at /\ k < n
    BY <1>1, <1>4, IndexFacts
  <2>2. \A k \in 1 .. n - 1 : End(k)' <= stack_top'
    BY <1>2, <1>4, <2>1 DEF IInv
  <2>3. \A j, k \in 1 .. n - 1 : j < k => End(j)' <= at'[k]
    BY <1>3, <1>4, <2>1 DEF IInv
  <2> QED
    BY <1>3, <2>2, <2>3
<1>11. Items' = SubSeq(Items, 1, Len(Items) - 1)
  <2>1. Items' = [k \in 1 .. n - 1 |-> Read(at[k], Size(k))]
    <3>1. Items' = [k \in 1 .. n - 1 |-> [j \in 1 .. Size(k)' |-> data'[at'[k] + j - 1]]]
      BY <1>3 DEF Items, Read
    <3>2. \A k \in 1 .. n - 1 :
            [j \in 1 .. Size(k)' |-> data'[at'[k] + j - 1]] = Read(at[k], Size(k))
      BY <1>3, <1>4 DEF Read
    <3> QED
      BY <3>1, <3>2
  <2> DEFINE w == SubSeq(Items, 1, Len(Items) - 1)
  <2>2. Items # <<>>
    BY ItemsFacts
  <2>3. w \in Seq(Seq(Bytes))
    BY <1>5, <2>2, FrontFacts
  <2>4. Len(w) = n - 1 /\ \A k \in 1 .. n - 1 : w[k] = Items[k]
    BY <1>5, <2>2, FrontFacts
  <2>5. w = [k \in 1 .. n - 1 |-> w[k]]
    BY <2>3, <2>4
  <2>6. \A k \in 1 .. n - 1 : w[k] = Read(at[k], Size(k))
    BY <1>1, <1>5, <2>4
  <2> HIDE DEF w
  <2>7. Items' = w
    BY <2>1, <2>5, <2>6
  <2> QED
    BY <2>7 DEF w
<1>12. IInv'
  BY <1>7, <1>8, <1>9, <1>10 DEF IInv
<1> QED
  BY <1>1, <1>5, <1>6, <1>11, <1>12

\* The actions by their cases, with the elements in place of what is read
\* from the bytes.
LEMMA PushCases ==
  ASSUME IInv, NEW e \in Elements, stack_push(e)
  PROVE  /\ IInv'
         /\ AbstractStack!Push(e)
<1>1. CASE Fits(e)
  <2>1. /\ cur_size' = cur_size + Len(e) + Field
        /\ data' = Stored(e)
        /\ stack_top' = Advance(Len(e))
        /\ code' = "0"
        /\ at' = Append(at, stack_top)
        /\ UNCHANGED <<resp, popped>>
    BY <1>1 DEF stack_push
  <2>2. IInv' /\ Items' = Append(Items, e) /\ stack_top + Len(e) + Field <= StackSize
    BY <1>1, <2>1, PushStep
  <2>3. stack_top' = stack_top + Len(e) + Field
    BY <2>1 DEF Advance
  <2> QED
    BY <2>1, <2>2, <2>3 DEF AbstractStack!Push
<1>2. CASE ~Fits(e)
  <2>1. code' = "E_OVERFLOW" /\ UNCHANGED <<data, stack_top, cur_size, resp, at, popped>>
    BY <1>2 DEF stack_push, Return
  <2>2. IInv' /\ Items' = Items
    BY <2>1, RefusalKeepsIInv
  <2>3. popped \/ stack_top + Len(e) + Field > StackSize
    <3>1. CASE popped
      BY <3>1
    <3>2. CASE ~popped
      <4>1. cur_size = stack_top
        BY <3>2 DEF IInv
      <4>2. /\ cur_size + Len(e) + 2 \in Nat
            /\ ~(cur_size + Len(e) + 2 <= StackSize)
        BY <1>2, IndexFacts, ElementFacts DEF Fits, Field
      <4> QED
        BY <4>1, <4>2, ByteFacts DEF Field
    <3> QED
      BY <3>1, <3>2
  <2> QED
    BY <2>1, <2>2, <2>3 DEF AbstractStack!Push
<1> QED
  BY <1>1, <1>2

LEMMA PopCases ==
  ASSUME IInv, NEW size_res \in Receivers, stack_pop(size_res)
  PROVE  /\ IInv'
         /\ AbstractStack!Pop(size_res)
<1>1. CASE at = <<>>
  <2>1. code' = "E_UNDERFLOW" /\ UNCHANGED <<data, stack_top, cur_size, resp, at, popped>>
    BY <1>1, SizeFound DEF stack_pop, Return
  <2>2. IInv' /\ Items' = Items
    BY <2>1, RefusalKeepsIInv
  <2>3. Items = <<>>
    BY <1>1, ItemsFacts
  <2> QED
    BY <2>1, <2>2, <2>3 DEF AbstractStack!Pop
<1>2. CASE at # <<>>
  <2> DEFINE n == Len(at)
  <2>1. /\ n \in 1 .. n
        /\ ~Underflows(size_res)
        /\ Overflows(size_res) <=> Size(n) > size_res \/ Size(n) > Half - 1
        /\ ~Overflows(size_res) => SizeRead = Size(n)
    BY <1>2, SizeFound
  <2>2. Items # <<>> /\ Len(Items) = n /\ Len(Items[n]) = Size(n)
    BY <1>2, <2>1, ItemsFacts
  <2>3. Len(AbstractStack!Last) = Size(n)
    BY <2>2 DEF AbstractStack!Last
  <2>4. CASE Overflows(size_res)
    <3>1. code' = "E_OVERFLOW" /\ UNCHANGED <<data, stack_top, cur_size, resp, at, popped>>
      BY <2>1, <2>4 DEF stack_pop, Return
    <3>2. IInv' /\ Items' = Items
      BY <3>1, RefusalKeepsIInv
    <3>3. Len(AbstractStack!Last) > size_res \/ Len(AbstractStack!Last) > Half - 1
      BY <2>1, <2>3, <2>4
    <3> QED
      BY <2>2, <3>1, <3>2, <3>3 DEF AbstractStack!Pop
  <2>5. CASE ~Overflows(size_res)
    <3>1. /\ resp' = Read(stack_top - Field - Size(n), Size(n))
          /\ cur_size' = cur_size - Size(n)
          /\ stack_top' = stack_top - Field - Size(n)
          /\ code' = "0"
          /\ at' = SubSeq(at, 1, Len(at) - 1)
          /\ popped' = TRUE
          /\ UNCHANGED data
      BY <2>1, <2>5 DEF stack_pop, Less
    <3>2. /\ IInv'
          /\ Items' = SubSeq(Items, 1, Len(Items) - 1)
          /\ resp' = Items[Len(Items)]
      BY <1>2, <3>1, PopStep
    <3>3. Len(AbstractStack!Last) <= size_res /\ Len(AbstractStack!Last) <= Half - 1
      <4>1. PICK z \in Nat : z = Size(n)
        BY <2>1, FrameFacts
      <4>2. ~(z > size_res) /\ ~(z > Half - 1)
        BY <2>1, <2>5, <4>1
      <4>3. size_res \in Nat
        BY StackAssumption
      <4>4. z <= size_res /\ z <= Half - 1
        BY <4>2, <4>3, ByteFacts
      <4> QED
        BY <2>3, <4>1, <4>4
    <3>4. resp' = AbstractStack!Last /\ stack_top' = stack_top - Field - Len(AbstractStack!Last)
      BY <2>3, <3>1, <3>2 DEF AbstractStack!Last
    <3> QED
      BY <2>2, <3>1, <3>2, <3>3, <3>4 DEF AbstractStack!Pop
  <2> QED
    BY <2>4, <2>5
<1> QED
  BY <1>1, <1>2

LEMMA StutterKeepsIInv == IInv /\ UNCHANGED stackVars => IInv' /\ Items' = Items
BY RefusalKeepsIInv DEF stackVars, IInv, StackTypeOK

LEMMA NextIInv == IInv /\ [StackNext]_stackVars => IInv'
BY PushCases, PopCases, StutterKeepsIInv DEF StackNext

\* Every state has IInv.
THEOREM Invariance == StackSpec => []IInv
BY InitIInv, NextIInv, PTL DEF StackSpec

\* The variables keep their types, for every size of the buffer and all
\* elements that fit in one unsigned byte; in particular cur_size, a size_t,
\* never goes below zero.
THEOREM TypeCorrect == StackSpec => []StackTypeOK
<1>1. IInv => StackTypeOK
  BY DEF IInv
<1> QED
  BY <1>1, Invariance, PTL

\* The frames lie side by side up to stack_top, each with its size at its end.
THEOREM LayoutKept == StackSpec => []Layout
<1>1. IInv => Layout
  BY DEF IInv
<1> QED
  BY <1>1, Invariance, PTL

\* Whatever is pushed, nothing is written behind the buffer.
THEOREM NoOverrun == StackSpec => []InBuffer
<1>1. IInv => InBuffer
  BY ByteFacts, IndexFacts DEF IInv, InBuffer
<1> QED
  BY <1>1, Invariance, PTL

\* The bytes in the buffer are those of a stack: a pop gives back the bytes
\* that were pushed last, unless their number does not fit in a signed char,
\* and before the first pop a push is refused for want of room only.
THEOREM Implements == StackSpec => ImplementsLifo
<1>1. StackInit => AbstractStack!LifoInit
  <2> SUFFICES ASSUME StackInit PROVE AbstractStack!LifoInit
    OBVIOUS
  <2>1. Items = <<>>
    BY InitIInv, ItemsFacts DEF StackInit
  <2> QED
    BY <2>1 DEF StackInit, AbstractStack!LifoInit
<1>2. IInv /\ [StackNext]_stackVars => [AbstractStack!LifoNext]_(AbstractStack!lifoVars)
  <2> SUFFICES ASSUME IInv, [StackNext]_stackVars
               PROVE  [AbstractStack!LifoNext]_(AbstractStack!lifoVars)
    OBVIOUS
  <2>1. ASSUME NEW e \in Elements, stack_push(e) PROVE AbstractStack!LifoNext
    BY <2>1, PushCases DEF AbstractStack!LifoNext
  <2>2. ASSUME NEW size_res \in Receivers, stack_pop(size_res) PROVE AbstractStack!LifoNext
    BY <2>2, PopCases DEF AbstractStack!LifoNext
  <2>3. CASE UNCHANGED stackVars
    BY <2>3, StutterKeepsIInv DEF stackVars, AbstractStack!lifoVars
  <2> QED
    BY <2>1, <2>2, <2>3 DEF StackNext
<1> QED
  BY <1>1, <1>2, Invariance, PTL DEF StackSpec, ImplementsLifo, AbstractStack!LifoSpec
=============================================================================
