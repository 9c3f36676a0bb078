---------------------------- MODULE GraphProofs ----------------------------
(***************************************************************************)
(* Theorems about module LinkedGraph, for any number of vertices and cells.*)
(***************************************************************************)
EXTENDS LinkedGraph, FiniteSetTheorems, SequenceTheorems, TLAPS

-----------------------------------------------------------------------------
(* Linked lists.                                                           *)

Heaps == [Cells -> [number : Int, next : Cells \cup {NULL}]]

\* s are the cells of the list that starts at first, in their order.
Linked(mem, s, first) ==
  /\ s \in Seq(Cells)
  /\ \A j, k \in 1 .. Len(s) : s[j] = s[k] => j = k
  /\ first = IF Len(s) = 0 THEN NULL ELSE s[1]
  /\ \A k \in 1 .. Len(s) : mem[s[k]].next = IF k = Len(s) THEN NULL ELSE s[k + 1]

\* A set of natural numbers that is not empty has a smallest element, and
\* Min returns it.
LEMMA MinOfNaturals ==
  ASSUME NEW S, S \subseteq Nat, S # {}
  PROVE  Min(S) \in S /\ \A y \in S : Min(S) <= y
<1> DEFINE R == {ss \in Nat \X Nat : ss[1] < ss[2]}
<1>1. IsWellFoundedOn(R, Nat)
  BY NatLessThanWellFounded DEF OpToRel
<1> HIDE DEF R
<1>2. PICK x \in S : \A y \in S : ~(<<y, x>> \in R)
  BY <1>1, WFMin
<1>3. ASSUME NEW y \in S PROVE x <= y
  <2>1. <<y, x>> \in Nat \X Nat /\ <<y, x>>[1] = y /\ <<y, x>>[2] = x
    OBVIOUS
  <2>2. ~(y < x)
    BY <1>2, <2>1 DEF R
  <2> QED
    BY <2>2
<1> QED
  BY <1>3 DEF Min

\* A list is no longer than the heap.
LEMMA LinkedFits ==
  ASSUME NEW mem, NEW s, NEW first, Linked(mem, s, first)
  PROVE  Cardinality(Cells) \in Nat /\ Len(s) \in Nat /\ Len(s) <= Cardinality(Cells)
<1>1. Cardinality(Cells) \in Nat /\ IsFiniteSet(Cells)
  BY BoundsAssumption, FS_CardinalityType
<1>2. Len(s) \in Nat /\ s \in [1 .. Len(s) -> Cells]
  BY DEF Linked
<1>3. s \in Injection(1 .. Len(s), Cells)
  BY <1>2 DEF Linked, Injection, IsInjective
<1>4. Cardinality(1 .. Len(s)) <= Cardinality(Cells)
  BY <1>1, <1>3, FS_Injection
<1>5. Cardinality(1 .. Len(s)) = Len(s)
  BY <1>2, FS_Interval
<1> QED
  BY <1>1, <1>2, <1>4, <1>5

\* Chain finds the cells of a list.
LEMMA ChainOfLinked ==
  ASSUME NEW mem, NEW s, NEW first, Linked(mem, s, first)
  PROVE  ChainIn(mem, first) = s
<1> DEFINE N == Cardinality(Cells)
           Follow(f, k) ==
             IF k = 0 THEN first ELSE IF f[k - 1] = NULL THEN NULL ELSE mem[f[k - 1]].next
           at == CHOOSE f : f = [k \in 0 .. N |-> Follow(f, k)]
           want == [k \in 0 .. N |-> IF k < Len(s) THEN s[k + 1] ELSE NULL]
           wrong == {k \in 0 .. N : at[k] # want[k]}
<1>1. ChainIn(mem, first) = [k \in 1 .. Cardinality({n \in 0 .. N : at[n] # NULL}) |-> at[k - 1]]
  BY DEF ChainIn
<1>2. N \in Nat /\ Len(s) \in Nat /\ Len(s) <= N
  BY LinkedFits
<1>3. s \in [1 .. Len(s) -> Cells] /\ \A k \in 1 .. Len(s) : s[k] # NULL
  BY BoundsAssumption DEF Linked
<1> HIDE DEF N
<1>4. ASSUME NEW k \in 0 .. N PROVE want[k] = Follow(want, k)
  <2>1. CASE k = 0
    BY <1>2, <2>1 DEF Linked
  <2>2. CASE k # 0
    <3>1. k - 1 \in 0 .. N /\ want[k - 1] = IF k - 1 < Len(s) THEN s[k] ELSE NULL
      BY <1>2, <2>2
    <3>2. CASE k - 1 < Len(s)
      <4>1. k \in 1 .. Len(s) /\ want[k - 1] = s[k] /\ s[k] # NULL
        BY <1>2, <1>3, <2>2, <3>1, <3>2
      <4>2. mem[s[k]].next = IF k = Len(s) THEN NULL ELSE s[k + 1]
        BY <4>1 DEF Linked
      <4>3. want[k] = IF k < Len(s) THEN s[k + 1] ELSE NULL
        OBVIOUS
      <4> HIDE DEF want
      <4> QED
        BY <1>2, <2>2, <4>1, <4>2, <4>3
    <3>3. CASE ~(k - 1 < Len(s))
      <4>1. want[k - 1] = NULL /\ want[k] = NULL
        BY <1>2, <3>1, <3>3
      <4> HIDE DEF want
      <4> QED
        BY <2>2, <4>1
    <3> QED
      BY <3>2, <3>3
  <2> QED
    BY <2>1, <2>2
<1>5. want = [k \in 0 .. N |-> Follow(want, k)]
  BY <1>4
<1>6. at = [k \in 0 .. N |-> Follow(at, k)]
  BY <1>5
<1> HIDE DEF at
<1>7. wrong = {}
  <2> SUFFICES ASSUME wrong # {} PROVE FALSE
    OBVIOUS
  <2>1. PICK k \in wrong : \A m \in wrong : k <= m
    <3>1. wrong \subseteq Nat
      BY <1>2
    <3> HIDE DEF wrong
    <3>2. Min(wrong) \in wrong /\ \A m \in wrong : Min(wrong) <= m
      BY <3>1, MinOfNaturals
    <3> QED
      BY <3>2
  <2> HIDE DEF want
  <2>2. k \in 0 .. N /\ at[k] # want[k]
    OBVIOUS
  <2>6. at[k] = Follow(at, k) /\ want[k] = Follow(want, k)
    <3> HIDE DEF Follow
    <3> QED
      BY <1>4, <1>6, <2>2
  <2>3. k # 0
    BY <2>2, <2>6
  <2>4. k - 1 \in 0 .. N /\ ~(k <= k - 1)
    BY <1>2, <2>2, <2>3
  <2>5. at[k - 1] = want[k - 1]
    BY <2>1, <2>4
  <2> HIDE DEF want, wrong
  <2> QED
    BY <2>2, <2>3, <2>5, <2>6
<1>8. \A n \in 0 .. N : at[n] = want[n]
  BY <1>7
<1>9. {n \in 0 .. N : at[n] # NULL} = 0 .. Len(s) - 1
  <2>1. \A n \in 0 .. N : at[n] # NULL <=> n < Len(s)
    BY <1>2, <1>3, <1>8
  <2> QED
    BY <1>2, <2>1
<1>10. Cardinality(0 .. Len(s) - 1) = Len(s)
  <2> DEFINE last == Len(s) - 1
  <2>1. last \in Int /\ last + 1 = Len(s) /\ (0 > last <=> Len(s) = 0)
    BY <1>2
  <2> HIDE DEF last
  <2>2. Cardinality(0 .. last) = IF 0 > last THEN 0 ELSE last - 0 + 1
    BY <2>1, FS_Interval
  <2>3. Cardinality(0 .. last) = Len(s)
    BY <1>2, <2>1, <2>2
  <2> QED
    BY <2>3 DEF last
<1>11. \A k \in 1 .. Len(s) : at[k - 1] = s[k]
  BY <1>2, <1>8
<1> HIDE DEF want, wrong, Follow
<1>12. ChainIn(mem, first) = [k \in 1 .. Len(s) |-> at[k - 1]]
  BY <1>1, <1>9, <1>10
<1>13. ChainIn(mem, first) = [k \in 1 .. Len(s) |-> s[k]]
  BY <1>11, <1>12
<1> QED
  BY <1>3, <1>13

\* A list that starts nowhere has no cells.
LEMMA EmptyList ==
  ASSUME NEW mem, NEW s, NEW first, Linked(mem, s, first)
  PROVE  /\ first = NULL <=> Len(s) = 0
         /\ first = NULL => Range(s) = {}
<1>1. s \in Seq(Cells) /\ Len(s) \in Nat /\ DOMAIN s = 1 .. Len(s)
  BY DEF Linked
<1>2. Len(s) # 0 => s[1] \in Cells
  BY <1>1
<1>3. first = NULL <=> Len(s) = 0
  BY <1>2, BoundsAssumption DEF Linked
<1>4. Len(s) = 0 => Range(s) = {}
  BY <1>1 DEF Range
<1> QED
  BY <1>3, <1>4

\* A list stays where nobody changes a pointer of it.
LEMMA LinkedStays ==
  ASSUME NEW mem, NEW mem2, NEW s, NEW first, Linked(mem, s, first),
         \A k \in 1 .. Len(s) : mem2[s[k]].next = mem[s[k]].next
  PROVE  Linked(mem2, s, first)
BY DEF Linked

\* A cell is appended.
LEMMA AppendCell ==
  ASSUME NEW mem, NEW mem2, NEW s, NEW first, Linked(mem, s, first),
         NEW new \in Cells, new \notin Range(s), mem2[new].next = NULL,
         \A k \in 1 .. Len(s) : mem2[s[k]].next = IF k = Len(s) THEN new ELSE mem[s[k]].next
  PROVE  /\ Linked(mem2, Append(s, new), IF Len(s) = 0 THEN new ELSE first)
         /\ Range(Append(s, new)) = Range(s) \cup {new}
<1>30. s \in Seq(Cells)
  BY DEF Linked
<1>31. /\ Append(s, new) \in Seq(Cells)
       /\ Len(Append(s, new)) = Len(s) + 1
       /\ \A k \in 1 .. Len(s) : Append(s, new)[k] = s[k]
       /\ Append(s, new)[Len(s) + 1] = new
  BY <1>30, AppendProperties
<1> DEFINE t == Append(s, new)
           n == Len(s)
<1>1. s \in Seq(Cells) /\ DOMAIN s = 1 .. n /\ n \in Nat
  BY DEF Linked
<1>2. t \in Seq(Cells) /\ Len(t) = n + 1
  BY <1>31
<1>20. DOMAIN t = 1 .. n + 1
  BY <1>2
<1>3. t[n + 1] = new /\ \A k \in 1 .. n : t[k] = s[k]
  BY <1>31
<1>4. /\ \A j, k \in 1 .. n : s[j] = s[k] => j = k
      /\ first = IF n = 0 THEN NULL ELSE s[1]
      /\ \A k \in 1 .. n : mem[s[k]].next = IF k = n THEN NULL ELSE s[k + 1]
      /\ \A k \in 1 .. n : mem2[s[k]].next = IF k = n THEN new ELSE mem[s[k]].next
  BY DEF Linked
<1>5. n \in Nat
  BY <1>1
<1>6. \A k \in 1 .. n : s[k] # new
  BY <1>1 DEF Range
<1> HIDE DEF t, n
<1>7. ASSUME NEW j \in 1 .. n + 1, NEW k \in 1 .. n + 1, t[j] = t[k]
      PROVE  j = k
  <2>1. (j \in 1 .. n \/ j = n + 1) /\ (k \in 1 .. n \/ k = n + 1)
    BY <1>5
  <2>2. (j \in 1 .. n => t[j] = s[j] /\ s[j] # new) /\ (k \in 1 .. n => t[k] = s[k] /\ s[k] # new)
    BY <1>3, <1>6
  <2> QED
    BY <1>3, <1>4, <1>7, <2>1, <2>2
<1>8. ASSUME NEW k \in 1 .. n + 1
      PROVE  mem2[t[k]].next = IF k = n + 1 THEN NULL ELSE t[k + 1]
  <2>1. CASE k = n + 1
    BY <1>3, <2>1
  <2>2. CASE k \in 1 .. n
    <3>1. k # n => t[k + 1] = s[k + 1]
      BY <1>3, <1>5, <2>2
    <3>2. k # n + 1 /\ t[k] = s[k] /\ (k = n => t[k + 1] = new)
      BY <1>3, <1>5, <2>2
    <3> QED
      BY <1>4, <2>2, <3>1, <3>2
  <2> QED
    BY <1>5, <2>1, <2>2
<1>9. (IF n = 0 THEN new ELSE first) = t[1]
  BY <1>3, <1>4, <1>5
<1>10. Linked(mem2, t, IF n = 0 THEN new ELSE first)
  <2>1. n + 1 # 0
    BY <1>5
  <2> QED
    BY <1>2, <1>20, <1>7, <1>8, <1>9, <2>1 DEF Linked
<1>11. Range(t) = Range(s) \cup {new}
  <2>1. Range(t) = {t[k] : k \in 1 .. n + 1} /\ Range(s) = {s[k] : k \in 1 .. n}
    BY <1>1, <1>20 DEF Range
  <2>2. \A k \in 1 .. n + 1 : k \in 1 .. n \/ k = n + 1
    BY <1>5
  <2>3. \A k \in 1 .. n : k \in 1 .. n + 1
    BY <1>5
  <2>4. n + 1 \in 1 .. n + 1
    BY <1>5
  <2> QED
    BY <1>3, <2>1, <2>2, <2>3, <2>4
<1> QED
  BY <1>10, <1>11 DEF t, n

\* What is left of a sequence without its p-th element.
Without(s, p) == [k \in 1 .. Len(s) - 1 |-> IF k < p THEN s[k] ELSE s[k + 1]]

\* A cell is taken out; the pointer to it now leads to the next one.
LEMMA RemoveCell ==
  ASSUME NEW mem, NEW mem2, NEW s, NEW first, Linked(mem, s, first),
         NEW p \in 1 .. Len(s),
         \A k \in 1 .. Len(s) : k # p =>
           mem2[s[k]].next = IF k = p - 1 THEN mem[s[p]].next ELSE mem[s[k]].next
  PROVE  /\ Linked(mem2, Without(s, p), IF p = 1 THEN mem[s[1]].next ELSE first)
         /\ Range(Without(s, p)) = Range(s) \ {s[p]}
<1> DEFINE t == Without(s, p)
           n == Len(s)
           old(k) == IF k < p THEN k ELSE k + 1
           first2 == IF p = 1 THEN mem[s[1]].next ELSE first
<1>1. s \in [1 .. n -> Cells] /\ DOMAIN s = 1 .. n
  BY DEF Linked
<1>2. n \in Nat /\ n - 1 \in Nat /\ p \in 1 .. n
  <2>1. n \in Nat /\ p \in 1 .. n
    BY DEF Linked
  <2> HIDE DEF n
  <2> QED
    BY <2>1
<1>3. /\ \A j, k \in 1 .. n : s[j] = s[k] => j = k
      /\ first = IF n = 0 THEN NULL ELSE s[1]
      /\ \A k \in 1 .. n : mem[s[k]].next = IF k = n THEN NULL ELSE s[k + 1]
      /\ \A k \in 1 .. n : k # p =>
           mem2[s[k]].next = IF k = p - 1 THEN mem[s[p]].next ELSE mem[s[k]].next
  BY DEF Linked
<1>4. t = [k \in 1 .. n - 1 |-> IF k < p THEN s[k] ELSE s[k + 1]]
  BY DEF Without
<1> HIDE DEF t, n
<1>5. \A k \in 1 .. n - 1 : /\ old(k) \in 1 .. n /\ old(k) # p /\ t[k] = s[old(k)]
                             /\ t[k] \in Cells
  BY <1>1, <1>2, <1>4
<1>6. t \in [1 .. n - 1 -> Cells]
  BY <1>4, <1>5
<1>7. t \in Seq(Cells) /\ Len(t) = n - 1 /\ DOMAIN t = 1 .. n - 1
  BY <1>2, <1>6
<1>8. \A j, k \in 1 .. n - 1 : old(j) = old(k) => j = k
  BY <1>2
<1>9. \A j, k \in 1 .. n - 1 : t[j] = t[k] => j = k
  <2> HIDE DEF old
  <2> QED
    BY <1>3, <1>5, <1>8
<1>10. ASSUME NEW k \in 1 .. n - 1
       PROVE  mem2[t[k]].next = IF k = n - 1 THEN NULL ELSE t[k + 1]
  <2>1. k \in Nat /\ k \in 1 .. n /\ k + 1 \in 1 .. n /\ k # n
    BY <1>2
  <2>2. k # n - 1 => k + 1 \in 1 .. n - 1 /\ k + 2 \in 1 .. n
    BY <1>2
  <2>3. CASE k < p - 1
    <3>1. /\ t[k] = s[k] /\ k # p /\ k # p - 1 /\ k # n - 1 /\ t[k + 1] = s[k + 1]
      BY <1>2, <1>4, <2>1, <2>2, <2>3
    <3> QED
      BY <1>3, <2>1, <3>1
  <2>4. CASE k = p - 1
    <3>1. /\ t[k] = s[k] /\ k # p /\ (p = n <=> k = n - 1)
          /\ k # n - 1 => t[k + 1] = s[p + 1]
      BY <1>2, <1>4, <2>1, <2>2, <2>4
    <3>2. mem2[s[k]].next = IF p = n THEN NULL ELSE s[p + 1]
      BY <1>2, <1>3, <2>1, <2>4, <3>1
    <3> QED
      BY <3>1, <3>2
  <2>5. CASE k > p - 1
    <3>1. /\ t[k] = s[k + 1] /\ k + 1 # p /\ k + 1 # p - 1 /\ (k + 1 = n <=> k = n - 1)
          /\ k # n - 1 => t[k + 1] = s[k + 2]
      BY <1>2, <1>4, <2>1, <2>2, <2>5
    <3>2. mem[s[k + 1]].next = IF k + 1 = n THEN NULL ELSE s[k + 2]
      <4>1. k + 1 + 1 = k + 2
        BY <2>1
      <4> QED
        BY <1>3, <2>1, <4>1
    <3> QED
      BY <1>3, <2>1, <3>1, <3>2
  <2> QED
    BY <1>2, <2>1, <2>3, <2>4, <2>5
<1>11. first2 = IF n - 1 = 0 THEN NULL ELSE t[1]
  <2>1. first = s[1] /\ mem[s[1]].next = IF 1 = n THEN NULL ELSE s[2]
    <3>1. 1 \in 1 .. n /\ 1 + 1 = 2 /\ n # 0
      BY <1>2
    <3> QED
      BY <1>3, <3>1
  <2>2. n - 1 # 0 => t[1] = IF p = 1 THEN s[2] ELSE s[1]
    BY <1>2, <1>4
  <2>3. n - 1 = 0 <=> n = 1
    BY <1>2
  <2>4. n = 1 => p = 1
    BY <1>2
  <2> QED
    BY <2>1, <2>2, <2>3, <2>4
<1> HIDE DEF first2
<1>12. Linked(mem2, t, first2)
  BY <1>7, <1>9, <1>10, <1>11 DEF Linked
<1>13. Range(t) = Range(s) \ {s[p]}
  <2>1. Range(t) = {t[k] : k \in 1 .. n - 1} /\ Range(s) = {s[k] : k \in 1 .. n}
    BY <1>1, <1>7 DEF Range
  <2>2. \A k \in 1 .. n - 1 : t[k] \in {s[j] : j \in 1 .. n} \ {s[p]}
    <3> HIDE DEF old
    <3> SUFFICES ASSUME NEW k \in 1 .. n - 1
                 PROVE  \E j \in 1 .. n : t[k] = s[j] /\ s[j] # s[p]
      OBVIOUS
    <3>1. old(k) \in 1 .. n /\ old(k) # p /\ t[k] = s[old(k)]
      BY <1>5
    <3>2. s[old(k)] # s[p]
      BY <1>2, <1>3, <3>1
    <3> QED
      BY <3>1, <3>2
  <2>3. ASSUME NEW k \in 1 .. n, k # p PROVE s[k] \in {t[j] : j \in 1 .. n - 1}
    <3>1. CASE k < p
      <4>1. k \in 1 .. n - 1 /\ t[k] = s[k]
        BY <1>2, <1>4, <3>1
      <4> QED
        BY <4>1
    <3>2. CASE k > p
      <4>1. k - 1 \in 1 .. n - 1 /\ ~(k - 1 < p) /\ k - 1 + 1 = k
        BY <1>2, <3>2
      <4>2. t[k - 1] = s[k]
        BY <1>4, <4>1
      <4> QED
        BY <4>1, <4>2
    <3> QED
      BY <1>2, <2>3, <3>1, <3>2
  <2> QED
    BY <2>1, <2>2, <2>3
<1> QED
  BY <1>12, <1>13 DEF t, first2

-----------------------------------------------------------------------------
(* All lists of a heap.                                                    *)

\* Each owner v has a list ls[v] that starts at h[v]; no two lists share a
\* cell, and together they have all cells.
Holds(mem, h, ls, cells) ==
  /\ DOMAIN ls = DOMAIN h
  /\ \A v \in DOMAIN h : Linked(mem, ls[v], h[v])
  /\ \A v, w \in DOMAIN h : v # w => Range(ls[v]) \cap Range(ls[w]) = {}
  /\ cells = UNION {Range(ls[v]) : v \in DOMAIN h}

\* One owner gets another list, made of cells that nobody else has.
LEMMA ReplaceList ==
  ASSUME NEW mem, NEW mem2, NEW h, NEW h2, NEW ls, NEW cells, NEW o, NEW t,
         Holds(mem, h, ls, cells), o \in DOMAIN h,
         DOMAIN h2 = DOMAIN h, \A v \in DOMAIN h : v # o => h2[v] = h[v],
         Linked(mem2, t, h2[o]),
         Range(t) \cap (cells \ Range(ls[o])) = {},
         \A c \in cells \ Range(ls[o]) : mem2[c].next = mem[c].next
  PROVE  Holds(mem2, h2, [ls EXCEPT ![o] = t], (cells \ Range(ls[o])) \cup Range(t))
<1> DEFINE l2 == [ls EXCEPT ![o] = t]
           kept == cells \ Range(ls[o])
<1>1. DOMAIN l2 = DOMAIN h /\ l2[o] = t /\ \A v \in DOMAIN h : v # o => l2[v] = ls[v]
  BY DEF Holds
<1> HIDE DEF l2
<1>2. \A v \in DOMAIN h : v # o => Range(ls[v]) \subseteq kept
  BY DEF Holds
<1>3. \A v \in DOMAIN h : Linked(mem2, l2[v], h2[v])
  <2> SUFFICES ASSUME NEW v \in DOMAIN h, v # o PROVE Linked(mem2, l2[v], h2[v])
    BY <1>1
  <2>1. Linked(mem, ls[v], h[v]) /\ DOMAIN ls[v] = 1 .. Len(ls[v])
    BY DEF Holds, Linked
  <2>2. \A k \in 1 .. Len(ls[v]) : ls[v][k] \in kept
    BY <1>2, <2>1 DEF Range
  <2>3. Linked(mem2, ls[v], h[v])
    BY <2>1, <2>2, LinkedStays
  <2> QED
    BY <1>1, <2>3
<1>4. \A v, w \in DOMAIN h : v # w => Range(l2[v]) \cap Range(l2[w]) = {}
  BY <1>1, <1>2 DEF Holds
<1>5. kept \cup Range(t) = UNION {Range(l2[v]) : v \in DOMAIN h}
  <2>1. ASSUME NEW c \in kept PROVE \E v \in DOMAIN h : c \in Range(l2[v])
    <3>1. PICK v \in DOMAIN h : c \in Range(ls[v])
      BY <2>1 DEF Holds
    <3> QED
      BY <1>1, <2>1, <3>1
  <2>2. ASSUME NEW v \in DOMAIN h PROVE Range(l2[v]) \subseteq kept \cup Range(t)
    BY <1>1, <1>2
  <2> HIDE DEF kept
  <2> QED
    BY <1>1, <2>1, <2>2
<1> QED
  BY <1>1, <1>3, <1>4, <1>5 DEF Holds, l2

\* The pointers outside the lists do not matter.
LEMMA HoldsStill ==
  ASSUME NEW mem, NEW mem2, NEW h, NEW ls, NEW cells, Holds(mem, h, ls, cells),
         \A c \in cells : mem2[c].next = mem[c].next
  PROVE  Holds(mem2, h, ls, cells)
<1>1. ASSUME NEW v \in DOMAIN h PROVE Linked(mem2, ls[v], h[v])
  <2>1. Linked(mem, ls[v], h[v]) /\ DOMAIN ls[v] = 1 .. Len(ls[v])
    BY DEF Holds, Linked
  <2>2. \A k \in 1 .. Len(ls[v]) : ls[v][k] \in cells
    BY <2>1 DEF Range, Holds
  <2> QED
    BY <2>1, <2>2, LinkedStays
<1> QED
  BY <1>1 DEF Holds

LEMMA NoCells ==
  ASSUME NEW mem
  PROVE  Range(<<>>) = {} /\ Linked(mem, <<>>, NULL)
<1>1. <<>> \in Seq(Cells) /\ Len(<<>>) = 0 /\ DOMAIN <<>> = {}
  OBVIOUS
<1>2. 1 .. 0 = {}
  OBVIOUS
<1> QED
  BY <1>1, <1>2 DEF Linked, Range

\* Owners of an empty list come and go, and the others may get other names.
LEMMA Rename ==
  ASSUME NEW mem, NEW h, NEW h2, NEW ls, NEW cells, NEW g, Holds(mem, h, ls, cells),
         \A v \in DOMAIN h2 : h2[v] # NULL => g[v] \in DOMAIN h /\ h2[v] = h[g[v]],
         \A v, w \in DOMAIN h2 : h2[v] # NULL /\ h2[w] # NULL /\ g[v] = g[w] => v = w,
         \A v \in DOMAIN h : h[v] # NULL => \E w \in DOMAIN h2 : h2[w] # NULL /\ g[w] = v
  PROVE  Holds(mem, h2, [v \in DOMAIN h2 |-> IF h2[v] = NULL THEN <<>> ELSE ls[g[v]]], cells)
<1> DEFINE l2 == [v \in DOMAIN h2 |-> IF h2[v] = NULL THEN <<>> ELSE ls[g[v]]]
<1>1. /\ DOMAIN l2 = DOMAIN h2
      /\ \A v \in DOMAIN h2 : h2[v] = NULL => l2[v] = <<>>
      /\ \A v \in DOMAIN h2 : h2[v] # NULL => l2[v] = ls[g[v]]
  OBVIOUS
<1> HIDE DEF l2
<1>2. /\ \A v \in DOMAIN h : Linked(mem, ls[v], h[v])
      /\ \A v, w \in DOMAIN h : v # w => Range(ls[v]) \cap Range(ls[w]) = {}
      /\ cells = UNION {Range(ls[v]) : v \in DOMAIN h}
  BY DEF Holds
<1>3. Range(<<>>) = {} /\ Linked(mem, <<>>, NULL)
  BY NoCells
<1>4. \A v \in DOMAIN h2 : Linked(mem, l2[v], h2[v])
  BY <1>1, <1>2, <1>3
<1>5. ASSUME NEW v \in DOMAIN h2, NEW w \in DOMAIN h2, v # w
      PROVE  Range(l2[v]) \cap Range(l2[w]) = {}
  <2>1. CASE h2[v] = NULL \/ h2[w] = NULL
    BY <1>1, <1>3, <2>1
  <2>2. CASE h2[v] # NULL /\ h2[w] # NULL
    BY <1>1, <1>2, <1>5, <2>2
  <2> QED
    BY <2>1, <2>2
<1>6. ASSUME NEW v \in DOMAIN h
      PROVE  \/ Range(ls[v]) = {}
             \/ \E w \in DOMAIN h2 : Range(ls[v]) = Range(l2[w])
  <2>1. CASE h[v] # NULL
    BY <1>1, <2>1
  <2>2. CASE h[v] = NULL
    BY <1>2, <2>2, EmptyList
  <2> QED
    BY <2>1, <2>2
<1>7. ASSUME NEW w \in DOMAIN h2 PROVE Range(l2[w]) \subseteq cells
  <2>1. CASE h2[w] = NULL
    BY <1>1, <1>3, <2>1
  <2>2. CASE h2[w] # NULL
    BY <1>1, <1>2, <2>2
  <2> QED
    BY <2>1, <2>2
<1>8. cells = UNION {Range(l2[w]) : w \in DOMAIN h2}
  <2>1. ASSUME NEW c \in cells PROVE \E w \in DOMAIN h2 : c \in Range(l2[w])
    <3>1. PICK v \in DOMAIN h : c \in Range(ls[v])
      BY <1>2
    <3> QED
      BY <1>6, <3>1
  <2> QED
    BY <1>7, <2>1
<1> QED
  BY <1>1, <1>4, <1>5, <1>8 DEF Holds, l2

\* Whatever pointed to the p-th cell of list s, which is that of o, now points
\* to the cell after it.
Unlinked(mem, mem2, h, h2, s, cells, o, p) ==
  /\ DOMAIN h2 = DOMAIN h
  /\ \A v \in DOMAIN h : v # o => h2[v] = h[v]
  /\ h2[o] = IF p = 1 THEN mem[s[1]].next ELSE h[o]
  /\ \A c \in cells \ {s[p]} :
       mem2[c].next = IF p > 1 /\ c = s[p - 1] THEN mem[s[p]].next ELSE mem[c].next

\* The p-th cell of a list is taken out of all lists.
LEMMA TakeOut ==
  ASSUME NEW mem, NEW mem2, NEW h, NEW h2, NEW ls, NEW cells, NEW o, NEW p,
         Holds(mem, h, ls, cells), o \in DOMAIN h, p \in 1 .. Len(ls[o]),
         Unlinked(mem, mem2, h, h2, ls[o], cells, o, p)
  PROVE  Holds(mem2, h2, [ls EXCEPT ![o] = Without(ls[o], p)], cells \ {ls[o][p]})
<1> DEFINE s == ls[o]
           t == Without(s, p)
<1>1. /\ Linked(mem, s, h[o])
      /\ \A j, k \in 1 .. Len(s) : s[j] = s[k] => j = k
      /\ DOMAIN s = 1 .. Len(s) /\ Len(s) \in Nat
      /\ Range(s) \subseteq cells
  BY DEF Holds, Linked
<1> HIDE DEF s, t
<1>2. p \in 1 .. Len(s)
  BY DEF s
<1>3. \A k \in 1 .. Len(s) : s[k] \in Range(s) /\ s[k] \in cells
  BY <1>1 DEF Range
<1>4. ASSUME NEW k \in 1 .. Len(s), k # p
      PROVE  mem2[s[k]].next = IF k = p - 1 THEN mem[s[p]].next ELSE mem[s[k]].next
  <2>1. s[k] \in cells /\ s[k] # s[p]
    BY <1>1, <1>2, <1>3, <1>4
  <2>2. mem2[s[k]].next = IF p > 1 /\ s[k] = s[p - 1] THEN mem[s[p]].next ELSE mem[s[k]].next
    BY <2>1 DEF s, Unlinked
  <2>3. p > 1 /\ s[k] = s[p - 1] <=> k = p - 1
    <3>1. p > 1 => p - 1 \in 1 .. Len(s)
      BY <1>1, <1>2
    <3>2. k = p - 1 => p > 1
      BY <1>1, <1>2
    <3> QED
      BY <1>1, <3>1, <3>2
  <2> QED
    BY <2>2, <2>3
<1>5. Linked(mem2, t, h2[o]) /\ Range(t) = Range(s) \ {s[p]}
  <2>1. h2[o] = IF p = 1 THEN mem[s[1]].next ELSE h[o]
    BY DEF s, Unlinked
  <2> DEFINE a == h[o]
             b == h2[o]
  <2>2. Linked(mem, s, a) /\ b = IF p = 1 THEN mem[s[1]].next ELSE a
    BY <1>1, <2>1
  <2>3. \A k \in 1 .. Len(s) : k # p =>
           mem2[s[k]].next = IF k = p - 1 THEN mem[s[p]].next ELSE mem[s[k]].next
    BY <1>4
  <2> HIDE DEF a, b
  <2>4. /\ Linked(mem2, Without(s, p), IF p = 1 THEN mem[s[1]].next ELSE a)
        /\ Range(Without(s, p)) = Range(s) \ {s[p]}
    BY <1>2, <2>2, <2>3, RemoveCell
  <2> QED
    BY <2>2, <2>4 DEF t, b
<1>6. \A c \in cells \ Range(s) : mem2[c].next = mem[c].next
  <2> SUFFICES ASSUME NEW c \in cells \ Range(s) PROVE mem2[c].next = mem[c].next
    OBVIOUS
  <2>1. c # s[p] /\ (p > 1 => c # s[p - 1])
    <3>1. p > 1 => p - 1 \in 1 .. Len(s)
      BY <1>1, <1>2
    <3> QED
      BY <1>2, <1>3, <3>1
  <2> QED
    BY <2>1 DEF s, Unlinked
<1>7. Holds(mem2, h2, [ls EXCEPT ![o] = t], (cells \ Range(ls[o])) \cup Range(t))
  <2>1. Range(t) \cap (cells \ Range(ls[o])) = {}
    BY <1>5 DEF s
  <2>2. \A c \in cells \ Range(ls[o]) : mem2[c].next = mem[c].next
    BY <1>6 DEF s
  <2>3. DOMAIN h2 = DOMAIN h /\ \A v \in DOMAIN h : v # o => h2[v] = h[v]
    BY DEF Unlinked
  <2> QED
    BY <1>5, <2>1, <2>2, <2>3, ReplaceList
<1>8. (cells \ Range(s)) \cup Range(t) = cells \ {s[p]}
  BY <1>1, <1>2, <1>3, <1>5
<1> QED
  BY <1>7, <1>8 DEF s, t

\* A cell is appended to a list.
LEMMA PutIn ==
  ASSUME NEW mem, NEW mem2, NEW h, NEW h2, NEW ls, NEW cells, NEW o, NEW new \in Cells,
         Holds(mem, h, ls, cells), o \in DOMAIN h, new \notin cells,
         DOMAIN h2 = DOMAIN h, \A v \in DOMAIN h : v # o => h2[v] = h[v],
         h2[o] = IF Len(ls[o]) = 0 THEN new ELSE h[o],
         mem2[new].next = NULL,
         \A c \in cells :
           mem2[c].next = IF Len(ls[o]) # 0 /\ c = ls[o][Len(ls[o])] THEN new ELSE mem[c].next
  PROVE  Holds(mem2, h2, [ls EXCEPT ![o] = Append(ls[o], new)], cells \cup {new})
<1> DEFINE s == ls[o]
           t == Append(s, new)
<1>1. /\ Linked(mem, s, h[o])
      /\ \A j, k \in 1 .. Len(s) : s[j] = s[k] => j = k
      /\ DOMAIN s = 1 .. Len(s) /\ Len(s) \in Nat
      /\ Range(s) \subseteq cells
  BY DEF Holds, Linked
<1> HIDE DEF s, t
<1>2. \A k \in 1 .. Len(s) : s[k] \in Range(s) /\ s[k] \in cells
  BY <1>1 DEF Range
<1>3. ASSUME NEW k \in 1 .. Len(s)
      PROVE  mem2[s[k]].next = IF k = Len(s) THEN new ELSE mem[s[k]].next
  <2>1. mem2[s[k]].next = IF Len(s) # 0 /\ s[k] = s[Len(s)] THEN new ELSE mem[s[k]].next
    BY <1>2 DEF s
  <2>2. Len(s) # 0 /\ Len(s) \in 1 .. Len(s)
    BY <1>1
  <2> QED
    BY <1>1, <2>1, <2>2
<1>4. new \notin Range(s)
  BY <1>1
<1>5. Linked(mem2, t, h2[o]) /\ Range(t) = Range(s) \cup {new}
  <2>1. h2[o] = IF Len(s) = 0 THEN new ELSE h[o]
    BY DEF s
  <2> DEFINE a == h[o]
             b == h2[o]
  <2>2. Linked(mem, s, a) /\ b = IF Len(s) = 0 THEN new ELSE a
    BY <1>1, <2>1
  <2>3. \A k \in 1 .. Len(s) : mem2[s[k]].next = IF k = Len(s) THEN new ELSE mem[s[k]].next
    BY <1>3
  <2> HIDE DEF a, b
  <2>4. /\ Linked(mem2, Append(s, new), IF Len(s) = 0 THEN new ELSE a)
        /\ Range(Append(s, new)) = Range(s) \cup {new}
    BY <1>4, <2>2, <2>3, AppendCell
  <2> QED
    BY <2>2, <2>4 DEF t, b
<1>6. \A c \in cells \ Range(s) : mem2[c].next = mem[c].next
  <2> SUFFICES ASSUME NEW c \in cells \ Range(s) PROVE mem2[c].next = mem[c].next
    OBVIOUS
  <2>1. Len(s) # 0 => c # s[Len(s)]
    <3>1. Len(s) # 0 => Len(s) \in 1 .. Len(s)
      BY <1>1
    <3> QED
      BY <1>2, <3>1
  <2> QED
    BY <2>1 DEF s
<1>7. Holds(mem2, h2, [ls EXCEPT ![o] = t], (cells \ Range(ls[o])) \cup Range(t))
  <2>1. Range(t) \cap (cells \ Range(ls[o])) = {}
    BY <1>5 DEF s
  <2>2. \A c \in cells \ Range(ls[o]) : mem2[c].next = mem[c].next
    BY <1>6 DEF s
  <2> QED
    BY <1>5, <2>1, <2>2, ReplaceList
<1>8. (cells \ Range(s)) \cup Range(t) = cells \cup {new}
  BY <1>1, <1>4, <1>5
<1> QED
  BY <1>7, <1>8 DEF s, t

-----------------------------------------------------------------------------
(* The numbers in a list.                                                  *)

\* The numbers in the cells of a list.
Numbers(mem, s) == [k \in 1 .. Len(s) |-> mem[s[k]].number]

\* A row of which the first n ends have been replaced by done.
Splice(done, row, n) ==
  [k \in 1 .. Len(done) + (Len(row) - n) |->
     IF k <= Len(done) THEN done[k] ELSE row[n + (k - Len(done))]]

LEMMA SeqSame ==
  ASSUME NEW s \in Seq(Int)
  PROVE  s = [k \in 1 .. Len(s) |-> s[k]]
OBVIOUS

LEMMA SpliceEnds ==
  ASSUME NEW row \in Seq(Int), NEW done \in Seq(Int)
  PROVE  Splice(<<>>, row, 0) = row /\ Splice(done, row, Len(row)) = done
<1>1. Splice(<<>>, row, 0) = row
  <2>1. Len(row) \in Nat /\ Len(<<>>) = 0
    OBVIOUS
  <2>2. Len(<<>>) + (Len(row) - 0) = Len(row)
    BY <2>1
  <2>3. \A k \in 1 .. Len(row) : ~(k <= 0) /\ 0 + (k - 0) = k
    BY <2>1
  <2>4. Splice(<<>>, row, 0) = [k \in 1 .. Len(row) |-> row[k]]
    BY <2>1, <2>2, <2>3 DEF Splice
  <2> QED
    BY <2>4, SeqSame
<1>2. Splice(done, row, Len(row)) = done
  <2>1. Len(row) \in Nat /\ Len(done) \in Nat
    OBVIOUS
  <2>2. Len(done) + (Len(row) - Len(row)) = Len(done)
    BY <2>1
  <2>3. \A k \in 1 .. Len(done) : k <= Len(done)
    OBVIOUS
  <2>4. Splice(done, row, Len(row)) = [k \in 1 .. Len(done) |-> done[k]]
    BY <2>2, <2>3 DEF Splice
  <2> QED
    BY <2>4, SeqSame
<1> QED
  BY <1>1, <1>2

\* The element behind done is the next one of the row.
LEMMA SpliceNext ==
  ASSUME NEW row \in Seq(Int), NEW done \in Seq(Int), NEW n \in 0 .. Len(row) - 1
  PROVE  /\ Len(done) + 1 \in 1 .. Len(Splice(done, row, n))
         /\ Splice(done, row, n)[Len(done) + 1] = row[n + 1]
         /\ row[n + 1] \in Int
<1> DEFINE d == Len(done)
           r == Len(row)
<1>1. d \in Nat /\ r \in Nat /\ n \in 0 .. r - 1
  OBVIOUS
<1>2. row[n + 1] \in Int
  <2>1. n + 1 \in 1 .. Len(row)
    BY <1>1
  <2> QED
    BY <2>1
<1>3. Splice(done, row, n) = [k \in 1 .. d + (r - n) |-> IF k <= d THEN done[k] ELSE row[n + (k - d)]]
  BY DEF Splice
<1> HIDE DEF d, r
<1>4. d + (r - n) \in Nat /\ d + 1 \in 1 .. d + (r - n) /\ ~(d + 1 <= d) /\ n + (d + 1 - d) = n + 1
  BY <1>1
<1>5. Len(Splice(done, row, n)) = d + (r - n)
  BY <1>3, <1>4
<1> QED
  BY <1>2, <1>3, <1>4, <1>5 DEF d

\* It is dropped.
LEMMA SpliceDrop ==
  ASSUME NEW row \in Seq(Int), NEW done \in Seq(Int), NEW n \in 0 .. Len(row) - 1
  PROVE  Without(Splice(done, row, n), Len(done) + 1) = Splice(done, row, n + 1)
<1> DEFINE d == Len(done)
           r == Len(row)
           old == [k \in 1 .. d + (r - n) |-> IF k <= d THEN done[k] ELSE row[n + (k - d)]]
           new == [k \in 1 .. d + (r - (n + 1)) |-> IF k <= d THEN done[k] ELSE row[(n + 1) + (k - d)]]
<1>1. d \in Nat /\ r \in Nat /\ n \in 0 .. r - 1
  OBVIOUS
<1>2. Splice(done, row, n) = old /\ Splice(done, row, n + 1) = new
  BY DEF Splice
<1> HIDE DEF d, r
<1>3. Len(old) = d + (r - n)
  <2>1. d + (r - n) \in Nat
    BY <1>1
  <2> QED
    BY <2>1
<1>4. d + (r - n) - 1 = d + (r - (n + 1))
  BY <1>1
<1>5. ASSUME NEW k \in 1 .. d + (r - (n + 1))
      PROVE  (IF k < d + 1 THEN old[k] ELSE old[k + 1]) = new[k]
  <2>1. k \in 1 .. d + (r - n) /\ k + 1 \in 1 .. d + (r - n) /\ (k < d + 1 <=> k <= d)
    BY <1>1
  <2>2. CASE k <= d
    <3>1. old[k] = done[k] /\ new[k] = done[k]
      BY <2>1, <2>2
    <3> HIDE DEF old, new
    <3> QED
      BY <2>1, <2>2, <3>1
  <2>3. CASE ~(k <= d)
    <3>1. ~(k + 1 <= d) /\ n + (k + 1 - d) = (n + 1) + (k - d)
      BY <1>1, <2>3
    <3>2. old[k + 1] = row[n + (k + 1 - d)]
      <4>1. k + 1 \in 1 .. d + (r - n) /\ ~(k + 1 <= d)
        BY <2>1, <3>1
      <4> HIDE DEF new
      <4> QED
        BY <1>1, <4>1
    <3>3. new[k] = row[(n + 1) + (k - d)]
      BY <2>3
    <3> HIDE DEF old, new
    <3> QED
      BY <2>1, <2>3, <3>1, <3>2, <3>3
  <2> QED
    BY <2>2, <2>3
<1> HIDE DEF old, new
<1>6. Without(old, d + 1) = [k \in 1 .. d + (r - (n + 1)) |-> IF k < d + 1 THEN old[k] ELSE old[k + 1]]
  <2>1. Without(old, d + 1) = [k \in 1 .. Len(old) - 1 |-> IF k < d + 1 THEN old[k] ELSE old[k + 1]]
    BY DEF Without
  <2> DEFINE m == Len(old) - 1
             l == d + (r - (n + 1))
  <2>2. m = l
    BY <1>1, <1>3
  <2>3. Without(old, d + 1) = [k \in 1 .. m |-> IF k < d + 1 THEN old[k] ELSE old[k + 1]]
    BY <2>1
  <2> HIDE DEF m, l
  <2>4. Without(old, d + 1) = [k \in 1 .. l |-> IF k < d + 1 THEN old[k] ELSE old[k + 1]]
    BY <2>2, <2>3
  <2> QED
    BY <2>4 DEF l
<1>7. new = [k \in 1 .. d + (r - (n + 1)) |-> new[k]]
  BY DEF new
<1> HIDE DEF new
<1>8. Without(old, d + 1) = new
  BY <1>5, <1>6, <1>7
<1> QED
  BY <1>2, <1>8 DEF d

\* It is kept, and may get another number.
LEMMA SpliceKeep ==
  ASSUME NEW row \in Seq(Int), NEW done \in Seq(Int), NEW n \in 0 .. Len(row) - 1, NEW x \in Int
  PROVE  [Splice(done, row, n) EXCEPT ![Len(done) + 1] = x] = Splice(Append(done, x), row, n + 1)
<1> DEFINE d == Len(done)
           r == Len(row)
           t == Append(done, x)
           old == [k \in 1 .. d + (r - n) |-> IF k <= d THEN done[k] ELSE row[n + (k - d)]]
           new == [k \in 1 .. d + 1 + (r - (n + 1)) |->
                     IF k <= d + 1 THEN t[k] ELSE row[(n + 1) + (k - (d + 1))]]
<1>1. d \in Nat /\ r \in Nat /\ n \in 0 .. r - 1
  OBVIOUS
<1>2. Len(t) = d + 1 /\ t[d + 1] = x /\ \A k \in 1 .. d : t[k] = done[k]
  BY AppendProperties
<1>3. Splice(done, row, n) = old /\ Splice(t, row, n + 1) = new
  BY <1>2 DEF Splice
<1> HIDE DEF d, r, t
<1>4. d + 1 + (r - (n + 1)) = d + (r - n)
  BY <1>1
<1>5. ASSUME NEW k \in 1 .. d + (r - n)
      PROVE  (IF k = d + 1 THEN x ELSE old[k]) = new[k]
  <2>1. CASE k \in 1 .. d
    <3>1. k # d + 1 /\ k <= d + 1 /\ k <= d
      BY <1>1, <2>1
    <3> QED
      BY <1>2, <1>4, <2>1, <3>1
  <2>2. CASE k = d + 1
    BY <1>1, <1>2, <1>4, <2>2
  <2>3. CASE k > d + 1
    <3>1. k # d + 1 /\ ~(k <= d + 1) /\ ~(k <= d) /\ n + (k - d) = (n + 1) + (k - (d + 1))
      BY <1>1, <2>3
    <3> QED
      BY <1>4, <3>1
  <2> QED
    BY <1>1, <2>1, <2>2, <2>3
<1>6. new = [k \in 1 .. d + (r - n) |-> new[k]]
  BY <1>4
<1> HIDE DEF new
<1>7. [old EXCEPT ![d + 1] = x] = [k \in 1 .. d + (r - n) |-> IF k = d + 1 THEN x ELSE old[k]]
  OBVIOUS
<1> HIDE DEF old
<1>8. [old EXCEPT ![d + 1] = x] = new
  BY <1>5, <1>6, <1>7
<1> QED
  BY <1>3, <1>8 DEF d, t

\* A step writes to no number of these cells.
SameNumbers(mem, mem2, cells) == \A c \in cells : mem2[c].number = mem[c].number
SameButOne(mem, mem2, s, p) ==
  \A k \in 1 .. Len(s) : k # p => mem2[s[k]].number = mem[s[k]].number

LEMMA NumbersStay ==
  ASSUME NEW mem, NEW mem2, NEW s, \A k \in 1 .. Len(s) : mem2[s[k]].number = mem[s[k]].number
  PROVE  Numbers(mem2, s) = Numbers(mem, s)
BY DEF Numbers

LEMMA NumbersWithout ==
  ASSUME NEW mem, NEW mem2, NEW s, Len(s) \in Nat, NEW p \in 1 .. Len(s),
         SameButOne(mem, mem2, s, p)
  PROVE  Numbers(mem2, Without(s, p)) = Without(Numbers(mem, s), p)
<1> DEFINE n == Len(s)
           t == Without(s, p)
<1>1. n \in Nat /\ n - 1 \in Nat /\ p \in 1 .. n
  BY DEF n
<1>2. t = [k \in 1 .. n - 1 |-> IF k < p THEN s[k] ELSE s[k + 1]]
  BY DEF Without
<1>3. Numbers(mem, s) = [k \in 1 .. n |-> mem[s[k]].number]
  BY DEF Numbers
<1>4. Without(Numbers(mem, s), p)
        = [k \in 1 .. n - 1 |-> IF k < p THEN mem[s[k]].number ELSE mem[s[k + 1]].number]
  <2>1. Len(Numbers(mem, s)) = n
    BY <1>1, <1>3
  <2>2. \A k \in 1 .. n - 1 : k \in 1 .. n /\ k + 1 \in 1 .. n
    BY <1>1
  <2> HIDE DEF n
  <2> QED
    BY <1>3, <2>1, <2>2 DEF Without
<1>5. \A k \in 1 .. n : k # p => mem2[s[k]].number = mem[s[k]].number
  BY DEF SameButOne
<1> HIDE DEF n, t
<1>6. Numbers(mem2, t) = [k \in 1 .. n - 1 |-> mem2[t[k]].number]
  <2>1. Len(t) = n - 1
    BY <1>1, <1>2
  <2> QED
    BY <2>1 DEF Numbers
<1>7. ASSUME NEW k \in 1 .. n - 1
      PROVE  mem2[t[k]].number = IF k < p THEN mem[s[k]].number ELSE mem[s[k + 1]].number
  <2>1. k \in 1 .. n /\ k + 1 \in 1 .. n /\ (k < p => k # p) /\ (~(k < p) => k + 1 # p)
    BY <1>1
  <2> QED
    BY <1>2, <1>5, <2>1
<1>8. Numbers(mem2, t) = Without(Numbers(mem, s), p)
  BY <1>4, <1>6, <1>7
<1> QED
  BY <1>8 DEF t

LEMMA NumbersAppend ==
  ASSUME NEW mem, NEW mem2, NEW T, NEW s \in Seq(T), NEW new \in T,
         \A k \in 1 .. Len(s) : mem2[s[k]].number = mem[s[k]].number
  PROVE  Numbers(mem2, Append(s, new)) = Append(Numbers(mem, s), mem2[new].number)
<1> DEFINE n == Len(s)
           t == Append(s, new)
           u == Numbers(mem, s)
           x == mem2[new].number
<1>1. n \in Nat /\ Len(t) = n + 1 /\ t[n + 1] = new /\ \A k \in 1 .. n : t[k] = s[k]
  BY AppendProperties
<1>2. u = [k \in 1 .. n |-> mem2[s[k]].number]
  BY DEF Numbers
<1>3. Numbers(mem2, t) = [k \in 1 .. n + 1 |-> mem2[t[k]].number]
  BY <1>1 DEF Numbers
<1> HIDE DEF n, t, u
<1>4. Append(u, x) = [k \in 1 .. n + 1 |-> IF k = n + 1 THEN x ELSE u[k]]
  <2>1. Len(u) = n
    BY <1>1, <1>2
  <2> QED
    BY <1>1, <1>2, <2>1
<1>5. ASSUME NEW k \in 1 .. n + 1
      PROVE  mem2[t[k]].number = IF k = n + 1 THEN x ELSE u[k]
  <2>1. k # n + 1 => k \in 1 .. n
    BY <1>1
  <2> QED
    BY <1>1, <1>2, <2>1
<1>6. Numbers(mem2, t) = Append(u, x)
  BY <1>3, <1>4, <1>5
<1> QED
  BY <1>6 DEF t, u

LEMMA NumbersWrite ==
  ASSUME NEW mem, NEW mem2, NEW s, Len(s) \in Nat, NEW p \in 1 .. Len(s), NEW x,
         mem2[s[p]].number = x, SameButOne(mem, mem2, s, p)
  PROVE  Numbers(mem2, s) = [Numbers(mem, s) EXCEPT ![p] = x]
BY DEF Numbers, SameButOne

-----------------------------------------------------------------------------
(* What the abstract operations do to a row.                               *)

Kept(row, end, n) == Abstract!Kept(row, end, n)
Moved(row, vertex) == Abstract!Moved(row, vertex)

\* The recursion has a solution, as each value only needs the one before it.
LEMMA KeptStep ==
  ASSUME NEW row \in Seq(Int), NEW end
  PROVE  /\ Kept(row, end, 0) = <<>>
         /\ \A n \in 0 .. Len(row) - 1 :
              Kept(row, end, n + 1) =
                IF row[n + 1] = end THEN Kept(row, end, n)
                                    ELSE Append(Kept(row, end, n), row[n + 1])
<1> DEFINE len == Len(row)
           Next1(f, k) == IF k = 0 THEN <<>>
                          ELSE IF row[k] = end THEN f[k - 1] ELSE Append(f[k - 1], row[k])
           Solves(f, m) == f = [k \in 0 .. m |-> Next1(f, k)]
           unsolved == {m \in 0 .. len : ~ \E f : Solves(f, m)}
           kept == CHOOSE f : f = [k \in 0 .. len |-> Next1(f, k)]
<1>1. \A n : Kept(row, end, n) = kept[n]
  BY DEF Kept, Abstract!Kept
<1>2. len \in Nat
  OBVIOUS
<1> HIDE DEF len
<1>3. ASSUME NEW f, NEW m \in Nat, Solves(f, m)
      PROVE  \E g : Solves(g, m + 1)
  <2> DEFINE g == [k \in 0 .. m + 1 |-> IF k <= m THEN f[k] ELSE Next1(f, k)]
  <2>1. \A k \in 0 .. m : f[k] = Next1(f, k)
    <3> HIDE DEF Next1
    <3> QED
      BY <1>3
  <2>2. \A k \in 0 .. m : g[k] = f[k]
    <3>1. \A k \in 0 .. m : k \in 0 .. m + 1 /\ k <= m
      OBVIOUS
    <3> HIDE DEF Next1
    <3> QED
      BY <3>1
  <2>3. g[m + 1] = Next1(f, m + 1)
    <3>1. m + 1 \in 0 .. m + 1 /\ ~(m + 1 <= m)
      OBVIOUS
    <3> HIDE DEF Next1
    <3> QED
      BY <3>1
  <2>4. DOMAIN g = 0 .. m + 1 /\ g = [k \in 0 .. m + 1 |-> g[k]]
    OBVIOUS
  <2> HIDE DEF g
  <2>5. ASSUME NEW k \in 0 .. m + 1 PROVE g[k] = Next1(g, k)
    <3>1. CASE k = 0
      <4>1. k \in 0 .. m
        BY <3>1
      <4> QED
        BY <2>1, <2>2, <3>1, <4>1
    <3>2. CASE k \in 1 .. m
      <4>1. k \in 0 .. m /\ k - 1 \in 0 .. m
        BY <3>2
      <4> QED
        BY <2>1, <2>2, <4>1
    <3>3. CASE k = m + 1
      <4>1. k - 1 = m /\ m \in 0 .. m /\ k # 0
        BY <3>3
      <4> QED
        BY <2>2, <2>3, <3>3, <4>1
    <3> QED
      BY <3>1, <3>2, <3>3
  <2>6. g = [k \in 0 .. m + 1 |-> Next1(g, k)]
    <3> HIDE DEF Next1
    <3> QED
      BY <2>4, <2>5
  <2> QED
    BY <2>6
<1>4. \E f : Solves(f, 0)
  <2> DEFINE f == [k \in 0 .. 0 |-> <<>>]
  <2>1. f = [k \in 0 .. 0 |-> Next1(f, k)]
    <3>1. \A k \in 0 .. 0 : k = 0
      OBVIOUS
    <3> QED
      BY <3>1
  <2> HIDE DEF f
  <2> QED
    BY <2>1
<1>5. unsolved = {}
  <2> SUFFICES ASSUME unsolved # {} PROVE FALSE
    OBVIOUS
  <2>1. unsolved \subseteq Nat
    BY <1>2
  <2> DEFINE m == Min(unsolved)
  <2> HIDE DEF Solves
  <2>2. m \in 0 .. len /\ ~ \E f : Solves(f, m)
    <3>1. m \in unsolved
      <4> HIDE DEF unsolved
      <4> QED
        BY <2>1, MinOfNaturals
    <3> HIDE DEF m
    <3> QED
      BY <3>1
  <2>3. \A y \in unsolved : m <= y
    <3> HIDE DEF unsolved
    <3> QED
      BY <2>1, MinOfNaturals
  <2> HIDE DEF m
  <2>4. m # 0
    BY <1>4, <2>2
  <2>5. m - 1 \in 0 .. len /\ ~(m <= m - 1) /\ m - 1 \in Nat /\ m - 1 + 1 = m
    BY <1>2, <2>2, <2>4
  <2>6. m - 1 \notin unsolved
    <3> HIDE DEF unsolved
    <3> QED
      BY <2>3, <2>5
  <2>7. \E f : Solves(f, m - 1)
    BY <2>5, <2>6
  <2> QED
    BY <1>3, <2>2, <2>5, <2>7
<1>6. \E f : Solves(f, len)
  <2>1. len \in 0 .. len
    BY <1>2
  <2> HIDE DEF Solves
  <2> QED
    BY <1>5, <2>1
<1> HIDE DEF unsolved
<1>7. kept = [k \in 0 .. len |-> Next1(kept, k)]
  <2> HIDE DEF Next1
  <2> QED
    BY <1>6
<1> HIDE DEF kept
<1>8. \A k \in 0 .. len : kept[k] = Next1(kept, k)
  <2> HIDE DEF Next1
  <2> QED
    BY <1>7
<1>9. kept[0] = <<>>
  <2>1. 0 \in 0 .. len
    BY <1>2
  <2> QED
    BY <1>8, <2>1
<1>10. ASSUME NEW n \in 0 .. len - 1
       PROVE  kept[n + 1] = IF row[n + 1] = end THEN kept[n] ELSE Append(kept[n], row[n + 1])
  <2>1. n + 1 \in 0 .. len /\ n + 1 # 0 /\ n + 1 - 1 = n
    BY <1>2
  <2> QED
    BY <1>8, <2>1
<1> QED
  BY <1>1, <1>9, <1>10 DEF len

LEMMA MovedStep ==
  ASSUME NEW s \in Seq(Int), NEW x \in Int, NEW end \in Int
  PROVE  /\ Moved(s, end) \in Seq(Int) /\ Len(Moved(s, end)) = Len(s)
         /\ Moved(Append(s, x), end) = Append(Moved(s, end), IF x > end THEN x - 1 ELSE x)
<1> DEFINE n == Len(s)
           t == Append(s, x)
           u == Moved(s, end)
           y == IF x > end THEN x - 1 ELSE x
           new(z) == IF z > end THEN z - 1 ELSE z
<1>1. n \in Nat /\ DOMAIN s = 1 .. n /\ \A k \in 1 .. n : s[k] \in Int
  OBVIOUS
<1>2. /\ t \in Seq(Int) /\ Len(t) = n + 1 /\ t[n + 1] = x /\ \A k \in 1 .. n : t[k] = s[k]
  BY AppendProperties
<1>3. DOMAIN t = 1 .. n + 1
  BY <1>1, <1>2
<1>4. u = [k \in 1 .. n |-> new(s[k])]
  BY <1>1 DEF Moved, Abstract!Moved
<1>5. Moved(t, end) = [k \in 1 .. n + 1 |-> new(t[k])]
  BY <1>3 DEF Moved, Abstract!Moved
<1>6. y = new(x) /\ \A z \in Int : new(z) \in Int
  OBVIOUS
<1> HIDE DEF n, t, u, y, new
<1>7. u \in [1 .. n -> Int]
  BY <1>1, <1>4, <1>6
<1>8. u \in Seq(Int) /\ Len(u) = n
  BY <1>1, <1>7
<1>9. /\ Append(u, y) \in Seq(Int) /\ Len(Append(u, y)) = n + 1 /\ Append(u, y)[n + 1] = y
      /\ \A k \in 1 .. n : Append(u, y)[k] = u[k]
  <2>1. y \in Int
    BY <1>6
  <2> QED
    BY <1>8, <2>1, AppendProperties
<1>10. Append(u, y) = [k \in 1 .. n + 1 |-> Append(u, y)[k]]
  <2>1. Append(u, y) = [k \in 1 .. Len(Append(u, y)) |-> Append(u, y)[k]]
    BY <1>9, SeqSame
  <2> QED
    BY <1>9, <2>1
<1>11. ASSUME NEW k \in 1 .. n + 1
       PROVE  new(t[k]) = Append(u, y)[k]
  <2>1. k = n + 1 \/ k \in 1 .. n
    BY <1>1
  <2>2. CASE k \in 1 .. n
    BY <1>2, <1>4, <1>9, <2>2
  <2> QED
    BY <1>2, <1>6, <1>9, <2>1, <2>2
<1>12. Moved(t, end) = Append(u, y)
  <2> DEFINE w == Append(u, y)
  <2>1. w = [k \in 1 .. n + 1 |-> w[k]] /\ \A k \in 1 .. n + 1 : new(t[k]) = w[k]
    BY <1>10, <1>11
  <2> HIDE DEF w
  <2>2. Moved(t, end) = w
    BY <1>5, <2>1
  <2> QED
    BY <2>2 DEF w
<1> QED
  BY <1>8, <1>12 DEF n, t, u, y

\* What a loop has made of the first n ends of a row.
Renumbered(loop, x, end) == IF loop = "remove_vertex" /\ x > end THEN x - 1 ELSE x

Done(loop, row, end, n) ==
  IF loop = "remove_vertex" THEN Moved(Kept(row, end, n), end) ELSE Kept(row, end, n)

LEMMA DoneStart ==
  ASSUME NEW loop, NEW row \in Seq(Int), NEW end \in Int
  PROVE  Kept(row, end, 0) \in Seq(Int) /\ Done(loop, row, end, 0) = <<>>
<1>1. Kept(row, end, 0) = <<>>
  BY KeptStep
<1>2. Moved(<<>>, end) = <<>>
  BY DEF Moved, Abstract!Moved
<1>3. <<>> \in Seq(Int)
  OBVIOUS
<1> QED
  BY <1>1, <1>2, <1>3 DEF Done

LEMMA DoneStep ==
  ASSUME NEW loop, NEW row \in Seq(Int), NEW end \in Int, NEW n \in 0 .. Len(row) - 1,
         Kept(row, end, n) \in Seq(Int)
  PROVE  /\ Kept(row, end, n + 1) \in Seq(Int)
         /\ Done(loop, row, end, n) \in Seq(Int)
         /\ row[n + 1] = end => Done(loop, row, end, n + 1) = Done(loop, row, end, n)
         /\ row[n + 1] # end => Done(loop, row, end, n + 1)
              = Append(Done(loop, row, end, n), Renumbered(loop, row[n + 1], end))
         /\ row[n + 1] \in Int
<1> DEFINE k == Kept(row, end, n)
           k2 == Kept(row, end, n + 1)
           x == row[n + 1]
<1>1. x \in Int
  <2>1. n + 1 \in 1 .. Len(row)
    OBVIOUS
  <2> QED
    BY <2>1
<1>2. k2 = IF x = end THEN k ELSE Append(k, x)
  BY KeptStep
<1>3. k \in Seq(Int)
  OBVIOUS
<1> HIDE DEF k, k2, x
<1>4. k2 \in Seq(Int)
  BY <1>1, <1>2, <1>3, AppendProperties
<1>5. Moved(k, end) \in Seq(Int)
  BY <1>1, <1>3, MovedStep
<1>6. x # end => Moved(k2, end) = Append(Moved(k, end), IF x > end THEN x - 1 ELSE x)
  BY <1>1, <1>2, <1>3, MovedStep
<1>7. Done(loop, row, end, n) = (IF loop = "remove_vertex" THEN Moved(k, end) ELSE k)
      /\ Done(loop, row, end, n + 1) = (IF loop = "remove_vertex" THEN Moved(k2, end) ELSE k2)
  BY DEF Done, k, k2
<1>8. Renumbered(loop, x, end) = IF loop = "remove_vertex" THEN (IF x > end THEN x - 1 ELSE x) ELSE x
  BY DEF Renumbered
<1>9. Done(loop, row, end, n) \in Seq(Int)
  BY <1>3, <1>5, <1>7
<1>10. x = end => Done(loop, row, end, n + 1) = Done(loop, row, end, n)
  BY <1>2, <1>7
<1>11. x # end => Done(loop, row, end, n + 1) = Append(Done(loop, row, end, n), Renumbered(loop, x, end))
  BY <1>2, <1>6, <1>7, <1>8
<1> QED
  BY <1>1, <1>4, <1>9, <1>10, <1>11 DEF k2, x

LEMMA DoneType ==
  ASSUME NEW loop, NEW row, NEW end \in Int, NEW n, Kept(row, end, n) \in Seq(Int)
  PROVE  Done(loop, row, end, n) \in Seq(Int)
<1>1. 0 \in Int
  OBVIOUS
<1> QED
  BY <1>1, MovedStep DEF Done

\* The loop over a list s has made done of the first n ends of the row.  It
\* stands at c, which comes behind done, with b as the cell before it.
Stage(loop, end, c, b, s, nums, row, n) ==
  LET done == Done(loop, row, end, n)
      p    == Len(done) + 1
  IN  /\ Kept(row, end, n) \in Seq(Int)
      /\ nums = Splice(done, row, n)
      /\ c = IF p <= Len(s) THEN s[p] ELSE NULL
      /\ b = IF p = 1 THEN c ELSE s[p - 1]

Scan(loop, end, c, b, s, nums, row) ==
  \E n \in 0 .. Len(row) : Stage(loop, end, c, b, s, nums, row, n)

LEMMA ScanStart ==
  ASSUME NEW loop, NEW row \in Seq(Int), NEW end \in Int, NEW s, Len(s) \in Nat,
         NEW c, c = IF Len(s) = 0 THEN NULL ELSE s[1]
  PROVE  Scan(loop, end, c, c, s, row, row)
<1>1. Kept(row, end, 0) \in Seq(Int) /\ Done(loop, row, end, 0) = <<>>
  BY DoneStart
<1>2. Len(<<>>) + 1 = 1 /\ (1 <= Len(s) <=> Len(s) # 0) /\ 0 \in 0 .. Len(row)
  OBVIOUS
<1>3. Splice(<<>>, row, 0) = row
  <2>1. <<>> \in Seq(Int)
    OBVIOUS
  <2> QED
    BY <2>1, SpliceEnds
<1>4. Stage(loop, end, c, c, s, row, row, 0)
  BY <1>1, <1>2, <1>3 DEF Stage
<1> QED
  BY <1>2, <1>4 DEF Scan

Distinct(s) == \A j, k \in 1 .. Len(s) : s[j] = s[k] => j = k

\* Where the loop is not at the end, it looks at the next end of the row.
LEMMA ScanHere ==
  ASSUME NEW loop, NEW row \in Seq(Int), NEW end \in Int, NEW c, NEW b,
         NEW s \in Seq(Cells), Distinct(s),
         NEW nums, Len(nums) = Len(s), NEW p \in 1 .. Len(s), c = s[p],
         NEW n \in 0 .. Len(row), Stage(loop, end, c, b, s, nums, row, n)
  PROVE  /\ n \in 0 .. Len(row) - 1
         /\ p = Len(Done(loop, row, end, n)) + 1
         /\ Done(loop, row, end, n) \in Seq(Int) /\ Kept(row, end, n) \in Seq(Int)
         /\ nums = Splice(Done(loop, row, end, n), row, n)
         /\ nums[p] = row[n + 1] /\ row[n + 1] \in Int
         /\ (b = c <=> p = 1) /\ (p # 1 => b = s[p - 1] /\ p - 1 \in 1 .. Len(s))
<1> DEFINE done == Done(loop, row, end, n)
           q == Len(done) + 1
           len == Len(s)
           r == Len(row)
<1>1. /\ Kept(row, end, n) \in Seq(Int)
      /\ nums = Splice(done, row, n)
      /\ c = (IF q <= len THEN s[q] ELSE NULL)
      /\ b = (IF q = 1 THEN c ELSE s[q - 1])
  BY DEF Stage
<1>2. done \in Seq(Int)
  BY <1>1, DoneType
<1>3. q - 1 \in Nat /\ q \in Nat /\ len \in Nat /\ r \in Nat /\ n \in 0 .. r /\ p \in 1 .. len
  BY <1>2
<1>4. c # NULL
  BY BoundsAssumption
<1>5. len = (q - 1) + (r - n)
  <2>1. Len(done) + (Len(row) - n) \in Nat
    BY <1>2
  <2>2. Len(Splice(done, row, n)) = Len(done) + (Len(row) - n)
    BY <2>1 DEF Splice
  <2>3. Len(done) \in Nat /\ q - 1 = Len(done) /\ Len(nums) = len
    BY <1>2
  <2> HIDE DEF done, q, len
  <2> QED
    BY <1>1, <2>2, <2>3
<1>6. \A j, k \in 1 .. len : s[j] = s[k] => j = k
  BY DEF Distinct
<1>9. c = s[p] /\ Len(nums) = len
  OBVIOUS
<1> HIDE DEF q, len, r
<1>7. q <= len /\ q \in 1 .. len /\ n \in 0 .. r - 1
  BY <1>1, <1>3, <1>4, <1>5
<1>8. p = q
  BY <1>1, <1>3, <1>6, <1>7, <1>9
<1>10. (q = 1 => b = c) /\ (q # 1 => b = s[q - 1] /\ q - 1 \in 1 .. len /\ s[q - 1] # c)
  <2>1. q # 1 => q - 1 \in 1 .. len /\ q - 1 # q
    BY <1>3, <1>7
  <2> QED
    BY <1>1, <1>6, <1>7, <2>1
<1>11. n \in 0 .. Len(row) - 1
  BY <1>7 DEF r
<1>12. nums[q] = row[n + 1] /\ row[n + 1] \in Int
  BY <1>1, <1>2, <1>11, SpliceNext DEF q
<1> HIDE DEF done
<1>13. p = Len(done) + 1
  BY <1>8 DEF q
<1>14. (b = c <=> p = 1) /\ (p # 1 => b = s[p - 1] /\ p - 1 \in 1 .. Len(s))
  BY <1>8, <1>10 DEF len
<1> QED
  BY <1>1, <1>2, <1>8, <1>11, <1>12, <1>13, <1>14 DEF done

LEMMA ScanDrop ==
  ASSUME NEW loop, NEW row \in Seq(Int), NEW end \in Int, NEW c, NEW b,
         NEW s \in Seq(Cells), Distinct(s),
         NEW nums, Len(nums) = Len(s), Scan(loop, end, c, b, s, nums, row),
         NEW p \in 1 .. Len(s), c = s[p], nums[p] = end,
         NEW c2, c2 = IF p = Len(s) THEN NULL ELSE s[p + 1],
         NEW b2, b2 = IF b = c THEN c2 ELSE b
  PROVE  Scan(loop, end, c2, b2, Without(s, p), Without(nums, p), row)
<1> DEFINE t == Without(s, p)
           len == Len(s)
<1>1. PICK n \in 0 .. Len(row) : Stage(loop, end, c, b, s, nums, row, n)
  BY DEF Scan
<1> DEFINE done == Done(loop, row, end, n)
<1>2. /\ n \in 0 .. Len(row) - 1 /\ p = Len(done) + 1
      /\ done \in Seq(Int) /\ Kept(row, end, n) \in Seq(Int)
      /\ nums = Splice(done, row, n) /\ nums[p] = row[n + 1]
      /\ (b = c <=> p = 1) /\ (p # 1 => b = s[p - 1] /\ p - 1 \in 1 .. Len(s))
  BY <1>1, ScanHere, SMTT(30)
<1>3. Kept(row, end, n + 1) \in Seq(Int) /\ Done(loop, row, end, n + 1) = done
  BY <1>2, DoneStep
<1>4. Without(nums, p) = Splice(done, row, n + 1)
  BY <1>2, SpliceDrop
<1>5. n + 1 \in 0 .. Len(row)
  BY <1>2
<1>6. len \in Nat /\ p \in 1 .. len /\ c2 = IF p = len THEN NULL ELSE s[p + 1]
  OBVIOUS
<1>7. t = [k \in 1 .. len - 1 |-> IF k < p THEN s[k] ELSE s[k + 1]]
  BY DEF Without
<1> HIDE DEF t, len, done
<1>8. Len(t) = len - 1
  <2>1. len - 1 \in Nat
    BY <1>6
  <2> QED
    BY <1>7, <2>1
<1>9. c2 = IF p <= Len(t) THEN t[p] ELSE NULL
  <2>1. CASE p = len
    <3>1. ~(p <= len - 1)
      BY <1>6, <2>1
    <3> QED
      BY <1>6, <1>8, <2>1, <3>1
  <2>2. CASE p # len
    <3>1. p <= len - 1 /\ p \in 1 .. len - 1 /\ ~(p < p)
      BY <1>6, <2>2
    <3> QED
      BY <1>6, <1>7, <1>8, <2>2, <3>1
  <2> QED
    BY <2>1, <2>2
<1>10. b2 = IF p = 1 THEN c2 ELSE t[p - 1]
  <2>1. CASE p = 1
    BY <1>2, <2>1
  <2>2. CASE p # 1
    <3>1. p - 1 \in 1 .. len - 1 /\ p - 1 < p
      BY <1>6, <2>2
    <3> QED
      BY <1>2, <1>7, <2>2, <3>1
  <2> QED
    BY <2>1, <2>2
<1>11. Stage(loop, end, c2, b2, t, Without(nums, p), row, n + 1)
  BY <1>2, <1>3, <1>4, <1>9, <1>10 DEF Stage
<1> QED
  BY <1>5, <1>11 DEF Scan, t

LEMMA ScanKeep ==
  ASSUME NEW loop, NEW row \in Seq(Int), NEW end \in Int, NEW c, NEW b,
         NEW s \in Seq(Cells), Distinct(s),
         NEW nums, Len(nums) = Len(s), Scan(loop, end, c, b, s, nums, row),
         NEW p \in 1 .. Len(s), c = s[p], nums[p] # end,
         NEW c2, c2 = IF p = Len(s) THEN NULL ELSE s[p + 1]
  PROVE  Scan(loop, end, c2, c, s, [nums EXCEPT ![p] = Renumbered(loop, nums[p], end)], row)
<1> DEFINE x == Renumbered(loop, nums[p], end)
           len == Len(s)
<1>1. PICK n \in 0 .. Len(row) : Stage(loop, end, c, b, s, nums, row, n)
  BY DEF Scan
<1> DEFINE done == Done(loop, row, end, n)
           done2 == Done(loop, row, end, n + 1)
<1>2. /\ n \in 0 .. Len(row) - 1 /\ p = Len(done) + 1
      /\ done \in Seq(Int) /\ Kept(row, end, n) \in Seq(Int)
      /\ nums = Splice(done, row, n) /\ nums[p] = row[n + 1] /\ row[n + 1] \in Int
  BY <1>1, ScanHere
<1>3. Kept(row, end, n + 1) \in Seq(Int) /\ done2 = Append(done, x)
  BY <1>2, DoneStep
<1>4. x \in Int
  BY <1>2 DEF Renumbered
<1>5. n + 1 \in 0 .. Len(row)
  BY <1>2
<1>6. len \in Nat /\ p \in 1 .. len /\ c2 = (IF p = len THEN NULL ELSE s[p + 1]) /\ c = s[p]
  OBVIOUS
<1> HIDE DEF x, len, done, done2
<1>7. [nums EXCEPT ![p] = x] = Splice(done2, row, n + 1)
  BY <1>2, <1>3, <1>4, SpliceKeep
<1>8. Len(done2) + 1 = p + 1
  BY <1>2, <1>3, <1>4
<1>9. c2 = IF p + 1 <= len THEN s[p + 1] ELSE NULL
  <2>1. p + 1 <= len <=> p # len
    BY <1>6
  <2> QED
    BY <1>6, <2>1
<1>10. c = IF p + 1 = 1 THEN c2 ELSE s[(p + 1) - 1]
  <2>1. p + 1 # 1 /\ (p + 1) - 1 = p
    BY <1>6
  <2> QED
    BY <1>6, <2>1
<1>11. Stage(loop, end, c2, c, s, [nums EXCEPT ![p] = x], row, n + 1)
  BY <1>3, <1>7, <1>8, <1>9, <1>10 DEF Stage, len, done2
<1> QED
  BY <1>5, <1>11 DEF Scan, x

LEMMA ScanEnd ==
  ASSUME NEW loop, NEW row \in Seq(Int), NEW end \in Int, NEW b,
         NEW s \in Seq(Cells), NEW nums, Len(nums) = Len(s),
         Scan(loop, end, NULL, b, s, nums, row)
  PROVE  nums = Done(loop, row, end, Len(row))
<1>1. PICK n \in 0 .. Len(row) : Stage(loop, end, NULL, b, s, nums, row, n)
  BY DEF Scan
<1> DEFINE done == Done(loop, row, end, n)
           q == Len(done) + 1
           len == Len(s)
           r == Len(row)
<1>2. Kept(row, end, n) \in Seq(Int) /\ nums = Splice(done, row, n)
      /\ NULL = (IF q <= len THEN s[q] ELSE NULL)
  BY <1>1 DEF Stage
<1>3. done \in Seq(Int)
  BY <1>2, DoneType
<1>4. q - 1 \in Nat /\ q \in Nat /\ len \in Nat /\ r \in Nat /\ n \in 0 .. r
  BY <1>3
<1>5. len = (q - 1) + (r - n)
  <2>1. Len(done) + (Len(row) - n) \in Nat
    BY <1>3
  <2>2. Len(Splice(done, row, n)) = Len(done) + (Len(row) - n)
    BY <2>1 DEF Splice
  <2> QED
    BY <1>2, <1>3, <2>2
<1>6. \A k \in 1 .. len : s[k] # NULL
  BY BoundsAssumption
<1> HIDE DEF q, len, r
<1>7. ~(q <= len)
  <2>1. q <= len => q \in 1 .. len
    BY <1>4
  <2> QED
    BY <1>2, <1>6, <2>1
<1>8. n = r
  BY <1>4, <1>5, <1>7
<1>9. n = Len(row)
  BY <1>8 DEF r
<1> QED
  BY <1>2, <1>3, <1>9, SpliceEnds

-----------------------------------------------------------------------------
(* The inductive invariant.                                                *)

\* Where the list of each vertex starts, in the middle of any loop: the loops
\* that free a list hold the rest of it in prev, and the lists before it are
\* gone.
Heads ==
  [v \in DOMAIN vertices |->
     IF \/ pc = "free_row" /\ v = arg.to
        \/ pc = "delete" /\ v = i
     THEN prev
     ELSE IF pc = "delete" /\ v < i THEN NULL ELSE vertices[v]]

\* What the variables are, whatever the lists.
Shape ==
  /\ vernum \in Nat
  /\ vertices \in [0 .. vernum - 1 -> Cells \cup {NULL}]
  /\ heap \in Heaps
  /\ live \subseteq Cells
  /\ pc \in {"idle", "append", "remove_edge", "remove_vertex", "free_row", "delete", "deleted"}
  /\ arg \in [from : Nat, to : Nat]
  /\ i \in Nat
  /\ {cur, prev} \subseteq Cells \cup {NULL}
  /\ pc \notin {"idle", "deleted"} => i \in DOMAIN vertices
  /\ pc = "free_row" => i = arg.to
  /\ pc = "append" => cur # NULL /\ prev = vertices[i]
  /\ Scanning => (prev = NULL => cur = NULL)
  /\ pc = "deleted" => vernum = 0

\* Where cur and prev stand in the list of vertex i.
At(ls) ==
  /\ pc = "append" => \E k \in 1 .. Len(ls[i]) : cur = ls[i][k]
  /\ Scanning => \/ cur = prev /\ cur = vertices[i]
                 \/ \E k \in 1 .. Len(ls[i]) : prev = ls[i][k] /\ cur = heap[prev].next

Lists == \E ls : Holds(heap, Heads, ls, live) /\ At(ls)

\* The lists of the vertices and the numbers in them.
Chains == [v \in DOMAIN vertices |-> Chain(Heads[v])]
Ends == [v \in DOMAIN vertices |-> Numbers(heap, Chains[v])]

IInv == Shape /\ Lists

-----------------------------------------------------------------------------
(* Writes to the heap and to the array.                                    *)

Records == [number : Int, next : Cells \cup {NULL}]

LEMMA CellWrite ==
  ASSUME NEW mem \in Heaps, NEW c \in Cells, NEW r \in Records
  PROVE  /\ [mem EXCEPT ![c] = r] \in Heaps
         /\ [mem EXCEPT ![c] = r][c].next = r.next
         /\ [mem EXCEPT ![c] = r][c].number = r.number
         /\ \A d \in Cells \ {c} : /\ [mem EXCEPT ![c] = r][d].next = mem[d].next
                                  /\ [mem EXCEPT ![c] = r][d].number = mem[d].number
BY DEF Heaps, Records

LEMMA PointerWrite ==
  ASSUME NEW mem \in Heaps, NEW c \in Cells, NEW x \in Cells \cup {NULL}
  PROVE  /\ [mem EXCEPT ![c].next = x] \in Heaps
         /\ [mem EXCEPT ![c].next = x][c].next = x
         /\ \A d \in Cells \ {c} : [mem EXCEPT ![c].next = x][d].next = mem[d].next
         /\ \A d \in Cells : [mem EXCEPT ![c].next = x][d].number = mem[d].number
BY DEF Heaps

LEMMA NumberWrite ==
  ASSUME NEW mem \in Heaps, NEW c \in Cells
  PROVE  /\ [mem EXCEPT ![c].number = @ - 1] \in Heaps
         /\ \A d \in Cells : [mem EXCEPT ![c].number = @ - 1][d].next = mem[d].next
         /\ \A d \in Cells \ {c} : [mem EXCEPT ![c].number = @ - 1][d].number = mem[d].number
         /\ [mem EXCEPT ![c].number = @ - 1][c].number = mem[c].number - 1
BY DEF Heaps

LEMMA CountOf ==
  ASSUME NEW n \in Nat
  PROVE  Cardinality(0 .. n - 1) = n
<1> DEFINE last == n - 1
<1>1. last \in Int /\ last + 1 = n /\ (0 > last <=> n = 0)
  OBVIOUS
<1> HIDE DEF last
<1>2. Cardinality(0 .. last) = IF 0 > last THEN 0 ELSE last - 0 + 1
  BY <1>1, FS_Interval
<1>3. Cardinality(0 .. last) = n
  BY <1>1, <1>2
<1> QED
  BY <1>3 DEF last

LEMMA BlankIsRecord == Blank \in Records /\ Blank.next = NULL
BY DEF Blank, Records

-----------------------------------------------------------------------------
(* What the variables are.                                                 *)

LEMMA ShapeInit == Init => Shape
<1> SUFFICES ASSUME Init PROVE Shape
  OBVIOUS
<1>1. PICK n \in 0 .. MaxVertices : vertices = [v \in 0 .. n - 1 |-> NULL]
  BY DEF Init
<1>2. n \in Nat
  BY BoundsAssumption
<1>3. vernum = n
  BY <1>1, <1>2, CountOf DEF vernum
<1>4. heap \in Heaps
  BY BlankIsRecord DEF Init, Heaps, Records
<1>5. arg \in [from : Nat, to : Nat]
  BY DEF Init, NoArg
<1> QED
  BY <1>1, <1>2, <1>3, <1>4, <1>5 DEF Init, Shape, Scanning

\* The array and what leads into the lists, for a step that keeps the array
\* its size.
LEMMA Array ==
  ASSUME Shape
  PROVE  /\ vernum \in Nat
         /\ DOMAIN vertices = 0 .. vernum - 1
         /\ \A v \in DOMAIN vertices : v \in Nat /\ vertices[v] \in Cells \cup {NULL}
         /\ \A c \in Cells : heap[c].next \in Cells \cup {NULL}
BY DEF Shape, Heaps

LEMMA SameSize ==
  ASSUME Shape, DOMAIN vertices' = DOMAIN vertices
  PROVE  vernum' = vernum
BY DEF vernum

LEMMA ShapeIdle ==
  ASSUME Idle
  PROVE  /\ pc' = "idle" /\ arg' \in [from : Nat, to : Nat]
         /\ i' \in Nat /\ {cur', prev'} \subseteq Cells \cup {NULL}
BY DEF Idle, NoArg

LEMMA ShapeCall ==
  ASSUME Shape, NEW loop \in {"append", "remove_edge", "free_row", "delete"},
         NEW from \in DOMAIN vertices, NEW to \in Nat,
         Call(loop, from, to), UNCHANGED <<vertices, heap, live>>,
         loop = "append" => vertices[from] # NULL, loop = "free_row" => from = to
  PROVE  Shape'
<1>1. from \in Nat /\ vertices[from] \in Cells \cup {NULL}
  BY Array
<1>2. pc' = loop /\ i' = from /\ arg' = [from |-> from, to |-> to]
      /\ cur' = vertices[from] /\ prev' = vertices[from]
  BY DEF Call
<1>3. arg' \in [from : Nat, to : Nat] /\ arg'.to = to
  BY <1>1, <1>2
<1>4. vernum' = vernum
  BY DEF vernum
<1> QED
  BY <1>1, <1>2, <1>3, <1>4 DEF Shape, Scanning

LEMMA ShapeKeeps == Shape /\ Next => Shape'
<1> SUFFICES ASSUME Shape, Next PROVE Shape'
  OBVIOUS
<1>a. /\ vernum \in Nat
      /\ DOMAIN vertices = 0 .. vernum - 1
      /\ \A v \in DOMAIN vertices : v \in Nat /\ vertices[v] \in Cells \cup {NULL}
      /\ \A c \in Cells : heap[c].next \in Cells \cup {NULL}
  BY Array
<1>1. CASE add_vertex
  <2>1. vernum' = vernum + 1
    <3>1. DOMAIN vertices' = 0 .. (vernum + 1) - 1
      BY <1>1, <1>a DEF add_vertex
    <3>2. vernum + 1 \in Nat
      BY <1>a
    <3> QED
      BY <3>1, <3>2, CountOf DEF vernum
  <2>2. vertices' \in [0 .. vernum + 1 - 1 -> Cells \cup {NULL}]
    <3>1. \A v \in 0 .. vernum : v # vernum => vertices[v] \in Cells \cup {NULL}
      BY <1>a
    <3>2. vernum + 1 - 1 = vernum
      BY <1>a
    <3> QED
      BY <1>1, <3>1, <3>2 DEF add_vertex
  <2> QED
    BY <1>1, <1>a, <2>1, <2>2 DEF Shape, add_vertex, Scanning
<1>2. ASSUME NEW from \in DOMAIN vertices, NEW to \in DOMAIN vertices, add_edge(from, to)
      PROVE  Shape'
  <2>1. CASE vertices[from] = NULL
    <3>1. PICK new \in Free : /\ malloc(new, to, heap)
                              /\ vertices' = [vertices EXCEPT ![from] = new]
      BY <1>2, <2>1 DEF add_edge
    <3>2. UNCHANGED <<pc, arg, i, cur, prev>> /\ pc = "idle"
      BY <1>2, <2>1 DEF add_edge
    <3>3. new \in Cells
      BY DEF Free
    <3>4. heap' \in Heaps
      <4>1. [number |-> to, next |-> NULL] \in Records
        BY <1>a DEF Records
      <4> QED
        BY <3>1, <3>3, <4>1, CellWrite DEF malloc, Shape
    <3>5. vertices' \in [0 .. vernum - 1 -> Cells \cup {NULL}] /\ vernum' = vernum
      BY <3>1, <3>3 DEF Shape, vernum
    <3>6. live' \subseteq Cells
      BY <3>1, <3>3 DEF Shape, malloc
    <3> QED
      BY <3>2, <3>4, <3>5, <3>6 DEF Shape, Scanning
  <2>2. CASE vertices[from] # NULL
    BY <1>2, <2>2, <1>a, ShapeCall DEF add_edge
  <2> QED
    BY <2>1, <2>2
<1>3. ASSUME NEW from \in DOMAIN vertices, NEW to \in DOMAIN vertices, remove_edge(from, to)
      PROVE  Shape'
  BY <1>3, <1>a, ShapeCall DEF remove_edge
<1>4. ASSUME NEW vertex \in DOMAIN vertices, remove_vertex(vertex)
      PROVE  Shape'
  BY <1>4, <1>a, ShapeCall DEF remove_vertex
<1>5. CASE AppendStep
  <2>1. cur \in Cells /\ pc = "append"
    BY <1>5 DEF AppendStep, Shape
  <2>2. CASE heap[cur].next # NULL
    <3>1. cur' = heap[cur].next /\ UNCHANGED <<vertices, heap, live, pc, arg, i, prev>>
      BY <1>5, <2>2 DEF AppendStep
    <3>2. vernum' = vernum /\ cur' \in Cells
      BY <1>a, <2>1, <2>2, <3>1 DEF vernum
    <3> QED
      BY <2>1, <3>1, <3>2, BoundsAssumption DEF Shape, Scanning
  <2>3. CASE heap[cur].next = NULL
    <3>1. PICK new \in Free : malloc(new, arg.to, [heap EXCEPT ![cur].next = new])
      BY <1>5, <2>3 DEF AppendStep
    <3>2. new \in Cells
      BY DEF Free
    <3>3. heap' \in Heaps
      <4>1. [number |-> arg.to, next |-> NULL] \in Records
        BY DEF Records, Shape
      <4>2. [heap EXCEPT ![cur].next = new] \in Heaps
        BY <2>1, <3>2, PointerWrite DEF Shape
      <4> QED
        BY <3>1, <3>2, <4>1, <4>2, CellWrite DEF malloc
    <3>4. live' \subseteq Cells
      BY <3>1, <3>2 DEF Shape, malloc
    <3>5. Idle /\ vertices' = vertices /\ vernum' = vernum
      BY <1>5, <2>3 DEF AppendStep, vernum
    <3> QED
      BY <3>3, <3>4, <3>5, ShapeIdle DEF Shape, Scanning
  <2> QED
    BY <2>2, <2>3
<1>6. CASE FreeRow
  <2>1. pc = "free_row" /\ i = arg.to /\ i \in DOMAIN vertices
    BY <1>6 DEF FreeRow, Shape
  <2>2. CASE prev # NULL
    <3>1. prev \in Cells /\ prev' = heap[prev].next /\ free(prev)
          /\ UNCHANGED <<vertices, pc, arg, i, cur>>
      BY <1>6, <2>2 DEF FreeRow, Shape
    <3>2. heap' \in Heaps /\ live' \subseteq Cells /\ prev' \in Cells \cup {NULL}
      BY <1>a, <3>1, BlankIsRecord, CellWrite DEF free, Shape
    <3>3. vernum' = vernum
      BY <3>1 DEF vernum
    <3> QED
      BY <2>1, <3>1, <3>2, <3>3 DEF Shape, Scanning
  <2>3. CASE prev = NULL
    <3>1. /\ vertices' = [v \in 0 .. vernum - 2 |-> vertices[IF v < arg.to THEN v ELSE v + 1]]
          /\ StartRow("remove_vertex", 0, vertices')
          /\ UNCHANGED <<heap, live>>
      BY <1>6, <2>3 DEF FreeRow
    <3>2. vernum' = vernum - 1 /\ vernum - 1 \in Nat
      <4>1. vernum - 1 \in Nat /\ vernum - 2 = (vernum - 1) - 1
        BY <1>a, <2>1
      <4> QED
        BY <3>1, <4>1, CountOf DEF vernum
    <3>3. vertices' \in [0 .. vernum' - 1 -> Cells \cup {NULL}]
      <4>1. vernum' - 1 = vernum - 2
        BY <1>a, <3>2
      <4>2. \A v \in 0 .. vernum - 2 : vertices[IF v < arg.to THEN v ELSE v + 1] \in Cells \cup {NULL}
        BY <1>a, <2>1
      <4> QED
        BY <3>1, <4>1, <4>2
    <3>4. CASE 0 \in DOMAIN vertices'
      <4>1. /\ pc' = "remove_vertex" /\ i' = 0 /\ cur' = vertices'[0] /\ prev' = vertices'[0]
            /\ arg' = arg
        BY <3>1, <3>4 DEF StartRow
      <4>2. vertices'[0] \in Cells \cup {NULL}
        BY <3>3, <3>4
      <4> QED
        BY <3>1, <3>2, <3>3, <3>4, <4>1, <4>2 DEF Shape, Scanning
    <3>5. CASE 0 \notin DOMAIN vertices'
      BY <3>1, <3>2, <3>3, <3>5, ShapeIdle DEF StartRow, Shape, Scanning
    <3> QED
      BY <3>4, <3>5
  <2> QED
    BY <2>2, <2>3
<1>7. CASE UnlinkFirst
  <2>1. /\ Scanning /\ cur \in Cells /\ i \in DOMAIN vertices
        /\ cur' = heap[cur].next /\ prev' = cur' /\ free(cur)
        /\ vertices' = [vertices EXCEPT ![i] = cur']
        /\ UNCHANGED <<pc, arg, i>>
    BY <1>7 DEF UnlinkFirst, Shape, Scanning
  <2>2. heap' \in Heaps /\ live' \subseteq Cells /\ cur' \in Cells \cup {NULL}
    BY <1>a, <2>1, BlankIsRecord, CellWrite DEF free, Shape
  <2>3. vertices' \in [0 .. vernum - 1 -> Cells \cup {NULL}] /\ vernum' = vernum
    BY <2>1, <2>2 DEF Shape, vernum
  <2> QED
    BY <2>1, <2>2, <2>3 DEF Shape, Scanning
<1>8. CASE UnlinkLater
  <2>1. /\ Scanning /\ cur \in Cells /\ prev \in Cells /\ i \in DOMAIN vertices
        /\ heap' = [heap EXCEPT ![prev].next = heap[cur].next, ![cur] = Blank]
        /\ live' = live \ {cur}
        /\ cur' = heap'[prev].next
        /\ UNCHANGED <<vertices, pc, arg, i, prev>>
    BY <1>8 DEF UnlinkLater, Shape, Scanning
  <2>2. heap' \in Heaps
    <3> DEFINE mem == [heap EXCEPT ![prev].next = heap[cur].next]
    <3>1. mem \in Heaps
      BY <1>a, <2>1, PointerWrite DEF Shape
    <3>2. heap' = [mem EXCEPT ![cur] = Blank]
      BY <2>1
    <3>3. cur \in Cells
      BY <2>1
    <3> HIDE DEF mem
    <3> QED
      BY <3>1, <3>2, <3>3, BlankIsRecord, CellWrite
  <2>3. live' \subseteq Cells /\ cur' \in Cells \cup {NULL} /\ vernum' = vernum
    BY <2>1, <2>2 DEF Shape, Heaps, vernum
  <2>4. prev # NULL /\ Scanning /\ i \in DOMAIN vertices /\ UNCHANGED <<vertices, pc, arg, i, prev>>
    BY <2>1, BoundsAssumption
  <2> QED
    BY <2>2, <2>3, <2>4 DEF Shape, Scanning
<1>9. CASE Keep
  <2>1. /\ Scanning /\ cur \in Cells
        /\ prev' = cur /\ cur' = heap[cur].next
        /\ UNCHANGED <<vertices, live, pc, arg, i>>
    BY <1>9 DEF Keep, Shape
  <2>2. heap' \in Heaps
    <3>1. [heap EXCEPT ![cur].number = @ - 1] \in Heaps
      BY <2>1, NumberWrite DEF Shape
    <3> QED
      BY <1>9, <3>1 DEF Keep, Shape
  <2>3. cur' \in Cells \cup {NULL} /\ vernum' = vernum
    BY <1>a, <2>1 DEF vernum
  <2>4. cur # NULL
    BY <2>1, BoundsAssumption
  <2> QED
    BY <2>1, <2>2, <2>3, <2>4 DEF Shape, Scanning
<1>10. CASE RowEnds
  <2>1. Scanning /\ UNCHANGED <<vertices, heap, live>> /\ vernum' = vernum
    BY <1>10 DEF RowEnds, vernum
  <2>2. CASE pc = "remove_edge" \/ i + 1 \notin DOMAIN vertices
    <3>1. Idle
      BY <1>10, <2>2 DEF RowEnds, StartRow
    <3> QED
      BY <2>1, <3>1, ShapeIdle DEF Shape, Scanning
  <2>3. CASE pc # "remove_edge" /\ i + 1 \in DOMAIN vertices
    <3>1. /\ pc' = "remove_vertex" /\ i' = i + 1 /\ arg' = arg
          /\ cur' = vertices[i + 1] /\ prev' = vertices[i + 1]
      BY <1>10, <2>3 DEF RowEnds, StartRow
    <3>2. i + 1 \in Nat /\ vertices[i + 1] \in Cells \cup {NULL}
      BY <1>a, <2>3
    <3> QED
      BY <2>1, <2>3, <3>1, <3>2 DEF Shape, Scanning
  <2> QED
    BY <2>2, <2>3
<1>11. CASE delete_graph
  <2>1. 0 \in DOMAIN vertices /\ Call("delete", 0, 0) /\ UNCHANGED <<vertices, heap, live>>
    BY <1>11, <1>a DEF delete_graph
  <2> QED
    BY <2>1, ShapeCall
<1>12. CASE DeleteStep
  <2>1. pc = "delete" /\ i \in DOMAIN vertices
    BY <1>12 DEF DeleteStep, Shape
  <2>2. CASE prev # NULL
    <3>1. prev \in Cells /\ prev' = heap[prev].next /\ free(prev)
          /\ UNCHANGED <<vertices, pc, arg, i, cur>>
      BY <1>12, <2>2 DEF DeleteStep, Shape
    <3>2. heap' \in Heaps /\ live' \subseteq Cells /\ prev' \in Cells \cup {NULL}
      BY <1>a, <3>1, BlankIsRecord, CellWrite DEF free, Shape
    <3>3. vernum' = vernum
      BY <3>1 DEF vernum
    <3> QED
      BY <2>1, <3>1, <3>2, <3>3 DEF Shape, Scanning
  <2>3. CASE prev = NULL /\ i + 1 < vernum
    <3>1. i + 1 \in DOMAIN vertices
      BY <1>a, <2>1, <2>3
    <3>2. /\ pc' = "delete" /\ i' = i + 1 /\ arg' = arg
          /\ cur' = vertices[i + 1] /\ prev' = vertices[i + 1]
          /\ UNCHANGED <<vertices, heap, live>>
      BY <1>12, <2>3, <3>1 DEF DeleteStep, StartRow
    <3>3. i + 1 \in Nat /\ vertices[i + 1] \in Cells \cup {NULL} /\ vernum' = vernum
      BY <1>a, <3>1, <3>2 DEF vernum
    <3> QED
      BY <3>1, <3>2, <3>3 DEF Shape, Scanning
  <2>4. CASE prev = NULL /\ ~(i + 1 < vernum)
    <3>1. /\ pc' = "deleted" /\ vertices' = <<>> /\ cur' = NULL
          /\ UNCHANGED <<heap, live, arg, i, prev>>
      BY <1>12, <2>4 DEF DeleteStep
    <3>2. DOMAIN vertices' = 0 .. 0 - 1 /\ vertices' \in [0 .. 0 - 1 -> Cells \cup {NULL}]
      BY <3>1
    <3>3. vernum' = 0
      BY <3>2, CountOf DEF vernum
    <3> QED
      BY <3>1, <3>2, <3>3 DEF Shape, Scanning
  <2> QED
    BY <2>2, <2>3, <2>4
<1> QED
  BY <1>1, <1>2, <1>3, <1>4, <1>5, <1>6, <1>7, <1>8, <1>9, <1>10, <1>11, <1>12 DEF Next

-----------------------------------------------------------------------------
(* The lists.                                                              *)

LEMMA HeadsOf ==
  /\ DOMAIN Heads = DOMAIN vertices
  /\ pc \notin {"free_row", "delete"} => \A v \in DOMAIN vertices : Heads[v] = vertices[v]
BY DEF Heads

\* What a cell of a list is, and where the list starts.
LEMMA CellsOfList ==
  ASSUME NEW mem, NEW s, NEW first, NEW cells, Linked(mem, s, first), Range(s) \subseteq cells
  PROVE  /\ Len(s) \in Nat
         /\ first = NULL <=> Len(s) = 0
         /\ Len(s) # 0 => first = s[1]
         /\ \A k \in 1 .. Len(s) : s[k] \in cells /\ s[k] \in Cells /\ s[k] # NULL
<1>1. s \in Seq(Cells) /\ DOMAIN s = 1 .. Len(s) /\ Len(s) \in Nat
  BY DEF Linked
<1>2. first = NULL <=> Len(s) = 0
  BY EmptyList
<1>3. ASSUME NEW k \in 1 .. Len(s)
      PROVE  s[k] \in cells /\ s[k] \in Cells /\ s[k] # NULL
  <2>1. s[k] \in Cells
    BY <1>1
  <2>2. s[k] \in cells
    BY <1>1 DEF Range
  <2> QED
    BY <2>1, <2>2, BoundsAssumption
<1> QED
  BY <1>1, <1>2, <1>3 DEF Linked

LEMMA CellsOf ==
  ASSUME NEW mem, NEW h, NEW ls, NEW cells, NEW v, Holds(mem, h, ls, cells), v \in DOMAIN h
  PROVE  /\ Linked(mem, ls[v], h[v]) /\ Range(ls[v]) \subseteq cells
         /\ Len(ls[v]) \in Nat
         /\ h[v] = NULL <=> Len(ls[v]) = 0
         /\ Len(ls[v]) # 0 => h[v] = ls[v][1]
         /\ \A k \in 1 .. Len(ls[v]) : /\ ls[v][k] \in cells /\ ls[v][k] \in Cells
                                       /\ ls[v][k] # NULL
<1>1. Linked(mem, ls[v], h[v]) /\ Range(ls[v]) \subseteq cells
  BY DEF Holds
<1> QED
  BY <1>1, CellsOfList

LEMMA Found ==
  ASSUME NEW mem, NEW h, NEW ls, NEW cells, Holds(mem, h, ls, cells)
  PROVE  \A v \in DOMAIN h : ChainIn(mem, h[v]) = ls[v]
BY ChainOfLinked DEF Holds

\* A step changes the numbers of one row.
RowBecomes(v, nums) == Ends' = [Ends EXCEPT ![v] = nums]

Replaced(ls, m, o, t) == \A v \in DOMAIN vertices : m[v] = IF v = o THEN t ELSE ls[v]

\* A step that gives one vertex another list and writes to no number in the
\* lists of the others.
LEMMA OneRow ==
  ASSUME NEW ls, NEW m, NEW o \in DOMAIN vertices, NEW t, DOMAIN vertices' = DOMAIN vertices,
         Holds(heap, Heads, ls, live), Holds(heap', Heads', m, live'),
         Replaced(ls, m, o, t), SameNumbers(heap, heap', live \ Range(ls[o]))
  PROVE  /\ Chains[o] = ls[o] /\ Ends[o] = Numbers(heap, ls[o])
         /\ Chains'[o] = t
         /\ RowBecomes(o, Numbers(heap', t))
<1>1. DOMAIN Heads = DOMAIN vertices /\ DOMAIN Heads' = DOMAIN vertices
  BY DEF Heads
<1>2. \A v \in DOMAIN vertices : Chains[v] = ls[v]
  BY <1>1, Found DEF Chains, Chain
<1>3. \A v \in DOMAIN vertices : Chains'[v] = m[v]
  <2> DEFINE h2 == Heads'
             mem2 == heap'
  <2>1. \A v \in DOMAIN vertices : Chains'[v] = ChainIn(mem2, h2[v])
    BY DEF Chains, Chain
  <2>2. DOMAIN h2 = DOMAIN vertices /\ Holds(mem2, h2, m, live')
    BY <1>1
  <2> HIDE DEF h2, mem2
  <2> QED
    BY <2>1, <2>2, Found
<1>4. /\ Ends = [v \in DOMAIN vertices |-> Numbers(heap, ls[v])]
      /\ Ends' = [v \in DOMAIN vertices |-> Numbers(heap', m[v])]
  BY <1>2, <1>3 DEF Ends
<1>7. \A v \in DOMAIN vertices : m[v] = IF v = o THEN t ELSE ls[v]
  BY DEF Replaced
<1>5. ASSUME NEW v \in DOMAIN vertices, v # o
      PROVE  Numbers(heap', ls[v]) = Numbers(heap, ls[v])
  <2>1. Linked(heap, ls[v], Heads[v]) /\ Range(ls[v]) \subseteq live
        /\ Range(ls[v]) \cap Range(ls[o]) = {}
    BY <1>1, <1>5 DEF Holds
  <2>2. \A k \in 1 .. Len(ls[v]) : ls[v][k] \in Range(ls[v])
    BY <2>1 DEF Linked, Range
  <2> DEFINE mem2 == heap'
             s == ls[v]
  <2>3. \A k \in 1 .. Len(s) : mem2[s[k]].number = heap[s[k]].number
    BY <2>1, <2>2 DEF SameNumbers
  <2> HIDE DEF mem2, s
  <2>4. Numbers(mem2, s) = Numbers(heap, s)
    BY <2>3, NumbersStay
  <2> QED
    BY <2>4 DEF mem2, s
<1>6. RowBecomes(o, Numbers(heap', t))
  BY <1>4, <1>5, <1>7 DEF RowBecomes
<1> QED
  BY <1>2, <1>3, <1>4, <1>6, <1>7

LEMMA ListsInit == Init => Lists
<1> SUFFICES ASSUME Init PROVE Lists
  OBVIOUS
<1> DEFINE ls == [v \in DOMAIN vertices |-> <<>>]
<1>1. pc = "idle" /\ live = {} /\ \A v \in DOMAIN vertices : vertices[v] = NULL
  BY DEF Init
<1>2. DOMAIN ls = DOMAIN Heads /\ \A v \in DOMAIN Heads : ls[v] = <<>> /\ Heads[v] = NULL
  BY <1>1, HeadsOf
<1>3. At(ls)
  BY <1>1 DEF At, Scanning
<1> HIDE DEF ls
<1>4. Holds(heap, Heads, ls, live)
  BY <1>1, <1>2, NoCells DEF Holds
<1> QED
  BY <1>3, <1>4 DEF Lists

LEMMA ListsAddVertex ==
  ASSUME IInv, add_vertex
  PROVE  Lists'
<1>1. PICK ls : Holds(heap, Heads, ls, live)
  BY DEF IInv, Lists
<1>2. pc = "idle" /\ pc' = "idle" /\ UNCHANGED <<heap, live>>
      /\ vertices' = [v \in 0 .. vernum |-> IF v = vernum THEN NULL ELSE vertices[v]]
  BY DEF add_vertex
<1>3. DOMAIN vertices = 0 .. vernum - 1 /\ vernum \in Nat
  BY Array DEF IInv
<1>4. /\ DOMAIN Heads = 0 .. vernum - 1 /\ DOMAIN Heads' = 0 .. vernum
      /\ \A v \in DOMAIN Heads' : Heads'[v] = IF v = vernum THEN NULL ELSE Heads[v]
  BY <1>2, <1>3 DEF Heads
<1> DEFINE h == Heads
           h2 == Heads'
           g == [v \in DOMAIN h2 |-> v]
           l2 == [v \in DOMAIN h2 |-> IF h2[v] = NULL THEN <<>> ELSE ls[g[v]]]
<1>5. \A v \in DOMAIN h2 : g[v] = v
  OBVIOUS
<1> HIDE DEF g
<1>6. \A v \in DOMAIN h2 : h2[v] # NULL => g[v] \in DOMAIN h /\ h2[v] = h[g[v]]
  BY <1>3, <1>4, <1>5
<1>7. \A v \in DOMAIN h : h[v] # NULL => \E w \in DOMAIN h2 : h2[w] # NULL /\ g[w] = v
  BY <1>3, <1>4, <1>5
<1>8. Holds(heap, h, ls, live)
  BY <1>1
<1> HIDE DEF h, h2
<1>9. Holds(heap, h2, l2, live)
  BY <1>5, <1>6, <1>7, <1>8, Rename
<1> HIDE DEF l2
<1>10. PICK m : Holds(heap', Heads', m, live')
  BY <1>2, <1>9 DEF h2
<1>11. At(m)'
  BY <1>2 DEF At, Scanning
<1> QED
  BY <1>10, <1>11 DEF Lists

\* A call starts at the beginning of a list.
LEMMA ListsCall ==
  ASSUME IInv, NEW loop \in {"append", "remove_edge", "free_row", "delete"},
         NEW from \in DOMAIN vertices, NEW to \in Nat,
         Call(loop, from, to), UNCHANGED <<vertices, heap, live>>,
         loop = "append" => vertices[from] # NULL, loop = "free_row" => from = to,
         loop = "delete" => from = 0
  PROVE  Lists' /\ Heads' = Heads
<1>1. PICK ls : Holds(heap, Heads, ls, live)
  BY DEF IInv, Lists
<1>2. /\ pc = "idle" /\ pc' = loop /\ i' = from /\ arg' = [from |-> from, to |-> to]
      /\ cur' = vertices[from] /\ prev' = vertices[from]
  BY DEF Call
<1>3. \A v \in DOMAIN vertices : v \in Nat
  BY Array DEF IInv
<1>4. Heads' = Heads
  <2>1. arg'.to = to
    BY <1>2
  <2>2. \A v \in DOMAIN vertices : ~(v < 0)
    BY <1>3
  <2>3. /\ loop = "free_row" => prev' = vertices[arg'.to]
        /\ loop = "delete" => prev' = vertices[i'] /\ i' = 0
    BY <1>2, <2>1
  <2> DEFINE first(v) ==
        IF \/ pc' = "free_row" /\ v = arg'.to
           \/ pc' = "delete" /\ v = i'
        THEN prev'
        ELSE IF pc' = "delete" /\ v < i' THEN NULL ELSE vertices[v]
  <2>4. Heads' = [v \in DOMAIN vertices |-> vertices[v]]
    <3>1. \A v \in DOMAIN vertices : first(v) = vertices[v]
      BY <1>2, <2>2, <2>3
    <3>2. Heads' = [v \in DOMAIN vertices |-> first(v)]
      BY DEF Heads
    <3> HIDE DEF first
    <3> QED
      BY <3>1, <3>2
  <2>5. Heads = [v \in DOMAIN vertices |-> vertices[v]]
    BY <1>2 DEF Heads
  <2> QED
    BY <2>4, <2>5
<1>5. At(ls)'
  <2>1. loop = "append" => 1 \in 1 .. Len(ls[from]) /\ vertices[from] = ls[from][1]
    <3>1. Heads[from] = vertices[from] /\ from \in DOMAIN Heads
      BY <1>2, HeadsOf
    <3> QED
      BY <1>1, <3>1, CellsOf
  <2> QED
    BY <1>2, <2>1 DEF At, Scanning
<1> QED
  BY <1>1, <1>4, <1>5 DEF Lists

\* The first edge of a vertex.
LEMMA ListsFirstEdge ==
  ASSUME IInv, NEW from \in DOMAIN vertices, NEW to \in DOMAIN vertices, NEW new \in Free,
         vertices[from] = NULL, malloc(new, to, heap),
         vertices' = [vertices EXCEPT ![from] = new], pc = "idle", pc' = "idle"
  PROVE  Lists' /\ RowBecomes(from, Append(Ends[from], to))
<1>1. PICK ls : Holds(heap, Heads, ls, live)
  BY DEF IInv, Lists
<1>2. new \in Cells /\ new \notin live /\ live' = live \cup {new} /\ live \subseteq Cells
  BY DEF Free, malloc, IInv, Shape
<1>3. /\ heap'[new].next = NULL /\ heap'[new].number = to
      /\ \A c \in live : heap'[c].next = heap[c].next /\ heap'[c].number = heap[c].number
  <2>1. [number |-> to, next |-> NULL] \in Records
    BY Array DEF IInv, Records
  <2> QED
    BY <1>2, <2>1, CellWrite DEF malloc, IInv, Shape
<1>4. /\ DOMAIN Heads = DOMAIN vertices /\ DOMAIN Heads' = DOMAIN vertices
      /\ \A v \in DOMAIN vertices : v # from => Heads'[v] = Heads[v]
      /\ Heads[from] = NULL /\ Heads'[from] = new
  BY DEF Heads
<1>5. Len(ls[from]) = 0
  BY <1>1, <1>4, CellsOf
<1> DEFINE h == Heads
           h2 == Heads'
           mem2 == heap'
           s == ls[from]
           t == Append(s, new)
           l2 == [ls EXCEPT ![from] = t]
<1>6. Holds(heap, h, ls, live)
  BY <1>1
<1>7. /\ from \in DOMAIN h /\ DOMAIN h2 = DOMAIN h
      /\ \A v \in DOMAIN h : v # from => h2[v] = h[v]
      /\ h2[from] = IF Len(ls[from]) = 0 THEN new ELSE h[from]
      /\ mem2[new].next = NULL
      /\ \A c \in live : mem2[c].next = IF Len(ls[from]) # 0 /\ c = ls[from][Len(ls[from])]
                                        THEN new ELSE heap[c].next
  BY <1>3, <1>4, <1>5
<1> HIDE DEF h, h2, mem2
<1>8. Holds(mem2, h2, l2, live \cup {new})
  BY <1>2, <1>6, <1>7, PutIn
<1>9. Replaced(ls, l2, from, t)
  BY <1>1, <1>4 DEF Holds, Replaced
<1> HIDE DEF l2, t
<1>10. PICK m : m = l2 /\ Holds(heap', Heads', m, live')
  BY <1>2, <1>8 DEF h2, mem2
<1>11. At(m)'
  BY DEF At, Scanning
<1>12. Ends[from] = Numbers(heap, s) /\ RowBecomes(from, Numbers(heap', t))
  <2>1. DOMAIN vertices' = DOMAIN vertices
    OBVIOUS
  <2>2. SameNumbers(heap, heap', live \ Range(ls[from]))
    BY <1>3 DEF SameNumbers
  <2>3. Replaced(ls, m, from, t)
    BY <1>9, <1>10
  <2>4. from \in DOMAIN vertices /\ Holds(heap, Heads, ls, live) /\ Holds(heap', Heads', m, live')
    BY <1>1, <1>10
  <2> QED
    BY ONLY <2>1, <2>2, <2>3, <2>4, OneRow, Zenon
<1>13. Numbers(heap', t) = Append(Numbers(heap, s), to)
  <2>1. s \in Seq(Cells)
    BY <1>1, <1>4 DEF Holds, Linked
  <2>2. \A k \in 1 .. Len(s) : mem2[s[k]].number = heap[s[k]].number
    BY <1>5
  <2> HIDE DEF s
  <2>3. Numbers(mem2, Append(s, new)) = Append(Numbers(heap, s), mem2[new].number)
    BY <1>2, <2>1, <2>2, NumbersAppend
  <2> QED
    BY <1>3, <2>3 DEF mem2, t
<1> QED
  BY <1>10, <1>11, <1>12, <1>13 DEF Lists

LEMMA ListsAddEdge ==
  ASSUME IInv, NEW from \in DOMAIN vertices, NEW to \in DOMAIN vertices, add_edge(from, to)
  PROVE  Lists'
<1>1. CASE vertices[from] = NULL
  BY <1>1, ListsFirstEdge DEF add_edge
<1>2. CASE vertices[from] # NULL
  BY <1>2, Array, ListsCall DEF add_edge, IInv
<1> QED
  BY <1>1, <1>2

LEMMA Appending ==
  ASSUME IInv, AppendStep, NEW ls, Holds(heap, Heads, ls, live), At(ls)
  PROVE  /\ pc = "append" /\ i \in DOMAIN Heads /\ Len(ls[i]) \in Nat
         /\ \A j \in 1 .. Len(ls[i]) : ls[i][j] \in live /\ ls[i][j] \in Cells /\ ls[i][j] # NULL
         /\ \E k \in 1 .. Len(ls[i]) :
              cur = ls[i][k] /\ heap[cur].next = IF k = Len(ls[i]) THEN NULL ELSE ls[i][k + 1]
<1>1. pc = "append" /\ i \in DOMAIN Heads
  BY HeadsOf DEF AppendStep, IInv, Shape
<1>2. PICK k \in 1 .. Len(ls[i]) : cur = ls[i][k]
  BY <1>1 DEF At
<1>3. Linked(heap, ls[i], Heads[i]) /\ Range(ls[i]) \subseteq live
  BY <1>1 DEF Holds
<1>4. heap[cur].next = IF k = Len(ls[i]) THEN NULL ELSE ls[i][k + 1]
  BY <1>2, <1>3 DEF Linked
<1> QED
  BY <1>1, <1>2, <1>3, <1>4, CellsOfList

\* The last step of an append.
LEMMA ListsAppendLast ==
  ASSUME IInv, AppendStep, heap[cur].next = NULL
  PROVE  Lists' /\ RowBecomes(i, Append(Ends[i], arg.to))
<1>1. PICK ls : Holds(heap, Heads, ls, live) /\ At(ls)
  BY DEF IInv, Lists
<1>2. pc = "append" /\ i \in DOMAIN Heads /\ Len(ls[i]) \in Nat
  BY <1>1, Appending
<1>3. PICK k \in 1 .. Len(ls[i]) :
             cur = ls[i][k] /\ heap[cur].next = IF k = Len(ls[i]) THEN NULL ELSE ls[i][k + 1]
  BY <1>1, Appending
<1>4. \A j \in 1 .. Len(ls[i]) : ls[i][j] \in live /\ ls[i][j] \in Cells /\ ls[i][j] # NULL
  BY <1>1, Appending
<1>5. PICK new \in Free : malloc(new, arg.to, [heap EXCEPT ![cur].next = new])
  BY DEF AppendStep
<1>6. pc' = "idle" /\ vertices' = vertices
  BY DEF AppendStep, Idle
<1>7. new \in Cells /\ new \notin live /\ live' = live \cup {new} /\ live \subseteq Cells
  BY <1>5 DEF Free, malloc, IInv, Shape
<1>8. k = Len(ls[i]) /\ Len(ls[i]) # 0 /\ cur \in Cells
  <2>1. k # Len(ls[i]) => k + 1 \in 1 .. Len(ls[i])
    BY <1>2, <1>3
  <2> QED
    BY <1>2, <1>3, <1>4, <2>1
<1>9. /\ heap'[new].next = NULL /\ heap'[new].number = arg.to
      /\ \A c \in live : /\ heap'[c].next = IF c = cur THEN new ELSE heap[c].next
                         /\ heap'[c].number = heap[c].number
  <2> DEFINE mem == [heap EXCEPT ![cur].next = new]
  <2>1. /\ mem \in Heaps /\ mem[cur].next = new
        /\ \A d \in Cells \ {cur} : mem[d].next = heap[d].next
        /\ \A d \in Cells : mem[d].number = heap[d].number
    BY <1>7, <1>8, PointerWrite DEF IInv, Shape
  <2>2. [number |-> arg.to, next |-> NULL] \in Records
    BY DEF Records, IInv, Shape
  <2>3. heap' = [mem EXCEPT ![new] = [number |-> arg.to, next |-> NULL]]
    BY <1>5 DEF malloc
  <2> HIDE DEF mem
  <2>4. /\ heap'[new].next = NULL /\ heap'[new].number = arg.to
        /\ \A d \in Cells \ {new} : heap'[d].next = mem[d].next /\ heap'[d].number = mem[d].number
    BY <1>7, <2>1, <2>2, <2>3, CellWrite
  <2> QED
    BY <1>7, <2>1, <2>4
<1>10. Heads' = Heads
  BY <1>2, <1>6 DEF Heads
<1> DEFINE h == Heads
           mem2 == heap'
           s == ls[i]
           t == Append(s, new)
           l2 == [ls EXCEPT ![i] = t]
<1>11. /\ Holds(heap, h, ls, live) /\ i \in DOMAIN h
       /\ h[i] = IF Len(ls[i]) = 0 THEN new ELSE h[i]
       /\ mem2[new].next = NULL
       /\ \A c \in live : mem2[c].next = IF Len(ls[i]) # 0 /\ c = ls[i][Len(ls[i])]
                                         THEN new ELSE heap[c].next
  BY <1>1, <1>2, <1>3, <1>8, <1>9
<1> HIDE DEF h, mem2
<1>12. Holds(mem2, h, l2, live \cup {new})
  BY <1>7, <1>11, PutIn
<1>13. i \in DOMAIN vertices /\ Replaced(ls, l2, i, t)
  BY <1>1, <1>2, HeadsOf DEF Holds, Replaced
<1> HIDE DEF l2, t
<1>14. PICK m : m = l2 /\ Holds(heap', Heads', m, live')
  BY <1>7, <1>10, <1>12 DEF h, mem2
<1>15. At(m)'
  BY <1>6 DEF At, Scanning
<1>16. Ends[i] = Numbers(heap, s) /\ RowBecomes(i, Numbers(heap', t))
  <2>1. DOMAIN vertices' = DOMAIN vertices
    BY <1>6
  <2>2. SameNumbers(heap, heap', live \ Range(ls[i]))
    BY <1>9 DEF SameNumbers
  <2>3. i \in DOMAIN vertices /\ Replaced(ls, m, i, t)
    BY <1>13, <1>14
  <2>4. Holds(heap, Heads, ls, live) /\ Holds(heap', Heads', m, live')
    BY <1>1, <1>14
  <2>5. /\ Chains[i] = ls[i] /\ Ends[i] = Numbers(heap, ls[i])
        /\ Chains'[i] = t
        /\ RowBecomes(i, Numbers(heap', t))
    BY ONLY <2>1, <2>2, <2>3, <2>4, OneRow, Zenon
  <2> QED
    BY <2>5
<1>17. Numbers(heap', t) = Append(Numbers(heap, s), arg.to)
  <2>1. s \in Seq(Cells)
    BY <1>1, <1>2 DEF Holds, Linked
  <2>2. \A k2 \in 1 .. Len(s) : mem2[s[k2]].number = heap[s[k2]].number
    BY <1>4, <1>9 DEF mem2
  <2> HIDE DEF s
  <2>3. Numbers(mem2, Append(s, new)) = Append(Numbers(heap, s), mem2[new].number)
    BY <1>7, <2>1, <2>2, NumbersAppend
  <2> QED
    BY <1>9, <2>3 DEF mem2, t
<1> QED
  BY <1>14, <1>15, <1>16, <1>17 DEF Lists

LEMMA ListsAppend ==
  ASSUME IInv, AppendStep
  PROVE  Lists'
<1>1. PICK ls : Holds(heap, Heads, ls, live) /\ At(ls)
  BY DEF IInv, Lists
<1>2. CASE heap[cur].next # NULL
  <2>1. cur' = heap[cur].next /\ UNCHANGED <<vertices, heap, live, pc, arg, i, prev>>
    BY <1>2 DEF AppendStep
  <2>2. Heads' = Heads
    BY <2>1 DEF Heads
  <2>3. pc = "append" /\ Len(ls[i]) \in Nat
    BY <1>1, Appending
  <2>4. PICK k \in 1 .. Len(ls[i]) :
               cur = ls[i][k] /\ heap[cur].next = IF k = Len(ls[i]) THEN NULL ELSE ls[i][k + 1]
    BY <1>1, Appending
  <2>5. k + 1 \in 1 .. Len(ls[i]) /\ cur' = ls[i][k + 1]
    BY <1>2, <2>1, <2>3, <2>4
  <2>6. At(ls)'
    BY <2>1, <2>3, <2>5 DEF At, Scanning
  <2> QED
    BY <1>1, <2>1, <2>2, <2>6 DEF Lists
<1>3. CASE heap[cur].next = NULL
  BY <1>3, ListsAppendLast
<1> QED
  BY <1>2, <1>3

\* A step that takes one cell out.
LEMMA ListsTakeOut ==
  ASSUME NEW ls, NEW o \in DOMAIN vertices, NEW p \in 1 .. Len(ls[o]),
         DOMAIN vertices' = DOMAIN vertices, Holds(heap, Heads, ls, live),
         Unlinked(heap, heap', Heads, Heads', ls[o], live, o, p), live' = live \ {ls[o][p]},
         SameNumbers(heap, heap', live \ {ls[o][p]})
  PROVE  /\ Holds(heap', Heads', [ls EXCEPT ![o] = Without(ls[o], p)], live')
         /\ Chains[o] = ls[o] /\ Chains'[o] = Without(ls[o], p)
         /\ RowBecomes(o, Without(Ends[o], p))
<1> DEFINE h == Heads
           h2 == Heads'
           mem2 == heap'
           s == ls[o]
           t == Without(ls[o], p)
           l2 == [ls EXCEPT ![o] = t]
<1>1. Holds(heap, h, ls, live) /\ o \in DOMAIN h /\ p \in 1 .. Len(ls[o])
      /\ Unlinked(heap, mem2, h, h2, ls[o], live, o, p)
  BY DEF Heads
<1> HIDE DEF h, h2, mem2
<1>2. Holds(mem2, h2, [ls EXCEPT ![o] = Without(ls[o], p)], live \ {ls[o][p]})
  BY ONLY <1>1, TakeOut
<1>3. Replaced(ls, l2, o, t)
  BY <1>1 DEF Holds, h, Heads, Replaced
<1>4. Linked(heap, s, h[o]) /\ DOMAIN s = 1 .. Len(s) /\ Len(s) \in Nat
      /\ Distinct(s) /\ Range(s) \subseteq live /\ p \in 1 .. Len(s)
  BY <1>1 DEF Holds, Linked, Distinct
<1>5. \A k \in 1 .. Len(s) : s[k] \in Range(s) /\ s[k] \in live
  BY <1>4 DEF Range
<1> HIDE DEF l2, t
<1>6. PICK m : m = l2 /\ Holds(heap', Heads', m, live')
  BY <1>2 DEF h2, mem2, l2, t
<1>7. Chains[o] = s /\ Chains'[o] = t
      /\ Ends[o] = Numbers(heap, s) /\ RowBecomes(o, Numbers(heap', t))
  <2>1. SameNumbers(heap, heap', live \ Range(ls[o]))
    BY <1>4, <1>5 DEF SameNumbers
  <2>2. Replaced(ls, m, o, t)
    BY <1>3, <1>6
  <2>3. o \in DOMAIN vertices /\ Holds(heap, Heads, ls, live) /\ Holds(heap', Heads', m, live')
        /\ DOMAIN vertices' = DOMAIN vertices
    BY <1>6
  <2>4. /\ Chains[o] = ls[o] /\ Ends[o] = Numbers(heap, ls[o])
        /\ Chains'[o] = t
        /\ RowBecomes(o, Numbers(heap', t))
    BY ONLY <2>1, <2>2, <2>3, OneRow, Zenon
  <2> QED
    BY <2>4
<1> HIDE DEF s
<1>8. Numbers(heap', t) = Without(Numbers(heap, s), p)
  <2>1. \A k \in 1 .. Len(s) : k # p => s[k] \in live \ {s[p]}
    BY <1>4, <1>5 DEF Distinct
  <2>2. SameButOne(heap, mem2, s, p)
    BY <2>1 DEF s, mem2, SameNumbers, SameButOne
  <2>3. Numbers(mem2, Without(s, p)) = Without(Numbers(heap, s), p)
    BY <1>4, <2>2, NumbersWithout
  <2> QED
    BY <2>3 DEF mem2, t, s
<1> QED
  BY <1>6, <1>7, <1>8 DEF l2, t, s

\* A loop frees the first cell of the list it has in prev.
LEMMA ListsFree ==
  ASSUME IInv, pc \in {"free_row", "delete"}, prev # NULL,
         prev' = heap[prev].next, free(prev), UNCHANGED <<vertices, pc, arg, i, cur>>
  PROVE  Lists' /\ \E row : RowBecomes(i, row)
<1>1. PICK ls : Holds(heap, Heads, ls, live)
  BY DEF IInv, Lists
<1>2. /\ i \in DOMAIN Heads /\ Heads[i] = prev /\ prev \in Cells
      /\ DOMAIN Heads' = DOMAIN Heads /\ Heads'[i] = prev'
      /\ \A v \in DOMAIN Heads : v # i => Heads'[v] = Heads[v]
  BY DEF Heads, IInv, Shape
<1>3. 1 \in 1 .. Len(ls[i]) /\ ls[i][1] = prev
  BY <1>1, <1>2, CellsOf
<1>4. \A c \in Cells \ {prev} : heap'[c].next = heap[c].next /\ heap'[c].number = heap[c].number
  BY <1>2, BlankIsRecord, CellWrite DEF free, IInv, Shape
<1>5. live \subseteq Cells /\ live' = live \ {prev}
  BY DEF free, IInv, Shape
<1>6. /\ i \in DOMAIN vertices /\ DOMAIN vertices' = DOMAIN vertices /\ 1 \in 1 .. Len(ls[i])
      /\ Unlinked(heap, heap', Heads, Heads', ls[i], live, i, 1)
      /\ live' = live \ {ls[i][1]}
      /\ SameNumbers(heap, heap', live \ {ls[i][1]})
  BY <1>1, <1>2, <1>3, <1>4, <1>5, HeadsOf DEF Unlinked, SameNumbers
<1>7. /\ Holds(heap', Heads', [ls EXCEPT ![i] = Without(ls[i], 1)], live')
      /\ RowBecomes(i, Without(Ends[i], 1))
  BY ONLY <1>1, <1>6, ListsTakeOut, Zenon
<1>9. PICK m : Holds(heap', Heads', m, live')
  BY <1>7
<1>8. At(m)'
  BY DEF At, Scanning
<1> QED
  BY <1>7, <1>8, <1>9 DEF Lists

LEMMA ListsFreeRow ==
  ASSUME IInv, FreeRow
  PROVE  Lists'
<1>1. CASE prev # NULL
  BY <1>1, ListsFree DEF FreeRow
<1>2. CASE prev = NULL
  <2>1. PICK ls : Holds(heap, Heads, ls, live)
    BY DEF IInv, Lists
  <2>2. /\ pc = "free_row" /\ i = arg.to /\ i \in DOMAIN vertices
        /\ vertices' = [v \in 0 .. vernum - 2 |-> vertices[IF v < i THEN v ELSE v + 1]]
        /\ StartRow("remove_vertex", 0, vertices')
        /\ UNCHANGED <<heap, live>>
    BY <1>2 DEF FreeRow, IInv, Shape
  <2>3. DOMAIN vertices = 0 .. vernum - 1 /\ vernum \in Nat /\ i \in 0 .. vernum - 1
    BY <2>2, Array DEF IInv
  <2>4. \/ pc' = "idle"
        \/ /\ pc' = "remove_vertex" /\ cur' = prev' /\ cur' = vertices'[i']
    BY <2>2 DEF StartRow, Idle
  <2>5. /\ DOMAIN Heads = 0 .. vernum - 1 /\ Heads[i] = NULL
        /\ \A v \in DOMAIN Heads : v # i => Heads[v] = vertices[v]
    BY <1>2, <2>2, <2>3 DEF Heads
  <2>6. /\ DOMAIN Heads' = 0 .. vernum - 2
        /\ \A v \in DOMAIN Heads' : Heads'[v] = vertices[IF v < i THEN v ELSE v + 1]
    BY <2>2, <2>4 DEF Heads
  <2> DEFINE n == vernum
             h == Heads
             h2 == Heads'
             g == [v \in DOMAIN h2 |-> IF v < i THEN v ELSE v + 1]
             l2 == [v \in DOMAIN h2 |-> IF h2[v] = NULL THEN <<>> ELSE ls[g[v]]]
  <2>7. /\ n \in Nat /\ i \in 0 .. n - 1
        /\ DOMAIN h = 0 .. n - 1 /\ DOMAIN h2 = 0 .. n - 2
        /\ \A v \in 0 .. n - 2 : g[v] = IF v < i THEN v ELSE v + 1
    BY <2>3, <2>5, <2>6
  <2>8. h[i] = NULL /\ Holds(heap, h, ls, live)
    BY <2>1, <2>5
  <2>9. \A v \in 0 .. n - 2 : g[v] \in 0 .. n - 1 /\ g[v] # i
    BY <2>7
  <2>10. \A v \in 0 .. n - 2 : h2[v] = h[g[v]]
    BY <2>5, <2>6, <2>7, <2>9
  <2> HIDE DEF n, h, h2, g
  <2>11. \A v, w \in 0 .. n - 2 : g[v] = g[w] => v = w
    BY <2>7
  <2>12. ASSUME NEW v \in 0 .. n - 1, v # i PROVE \E w \in 0 .. n - 2 : g[w] = v
    <3>1. CASE v < i
      <4>1. v \in 0 .. n - 2
        BY <2>7, <3>1
      <4> QED
        BY <2>7, <3>1, <4>1
    <3>2. CASE v > i
      <4>1. v - 1 \in 0 .. n - 2 /\ ~(v - 1 < i) /\ v - 1 + 1 = v
        BY <2>7, <3>2
      <4> QED
        BY <2>7, <4>1
    <3> QED
      BY <2>7, <2>12, <3>1, <3>2
  <2>13. \A v \in DOMAIN h2 : h2[v] # NULL => g[v] \in DOMAIN h /\ h2[v] = h[g[v]]
    BY <2>7, <2>9, <2>10
  <2>14. \A v, w \in DOMAIN h2 : h2[v] # NULL /\ h2[w] # NULL /\ g[v] = g[w] => v = w
    BY <2>7, <2>11
  <2>15. \A v \in DOMAIN h : h[v] # NULL => \E w \in DOMAIN h2 : h2[w] # NULL /\ g[w] = v
    BY <2>7, <2>8, <2>10, <2>12
  <2>16. Holds(heap, h2, l2, live)
    BY <2>8, <2>13, <2>14, <2>15, Rename
  <2>17. PICK m : Holds(heap', Heads', m, live')
    BY <2>2, <2>16 DEF h2
  <2>18. At(m)'
    BY <2>4 DEF At, Scanning
  <2> QED
    BY <2>17, <2>18 DEF Lists
<1> QED
  BY <1>1, <1>2

\* Where the scanning loop stands: at the first cell, or behind prev.
LEMMA Stands ==
  ASSUME IInv, Scanning, cur # NULL, NEW ls, Holds(heap, Heads, ls, live), At(ls)
  PROVE  /\ i \in DOMAIN Heads /\ Linked(heap, ls[i], Heads[i]) /\ Range(ls[i]) \subseteq live
         /\ Heads[i] = vertices[i] /\ cur \in Cells
         /\ \/ prev = cur /\ 1 \in 1 .. Len(ls[i]) /\ cur = ls[i][1]
            \/ /\ prev # cur
               /\ \E k \in 1 .. Len(ls[i]) :
                    /\ k + 1 \in 1 .. Len(ls[i])
                    /\ prev = ls[i][k] /\ cur = ls[i][k + 1]
<1> DEFINE s == ls[i]
<1>1. i \in DOMAIN Heads /\ Heads[i] = vertices[i] /\ cur \in Cells
  BY HeadsOf DEF IInv, Shape, Scanning
<1>2. Linked(heap, s, Heads[i]) /\ Range(s) \subseteq live
  BY <1>1 DEF Holds
<1>3. \/ cur = prev /\ cur = vertices[i]
      \/ \E k \in 1 .. Len(s) : prev = s[k] /\ cur = heap[prev].next
  BY DEF At
<1> HIDE DEF s
<1>4. CASE cur = prev /\ cur = vertices[i]
  <2>1. Len(s) # 0 /\ Len(s) \in Nat /\ cur = s[1]
    BY <1>1, <1>2, <1>4, CellsOfList
  <2> QED
    BY <1>1, <1>2, <1>4, <2>1 DEF s
<1>5. CASE \E k \in 1 .. Len(s) : prev = s[k] /\ cur = heap[prev].next
  <2>1. PICK k \in 1 .. Len(s) : prev = s[k] /\ cur = heap[prev].next
    BY <1>5
  <2>2. cur = IF k = Len(s) THEN NULL ELSE s[k + 1]
    BY <1>2, <2>1 DEF Linked
  <2>3. Len(s) \in Nat
    BY <1>2 DEF Linked
  <2>4. k # Len(s) /\ k + 1 \in 1 .. Len(s) /\ k + 1 # k
    BY <2>2, <2>3
  <2>5. cur = s[k + 1] /\ s[k + 1] # s[k]
    BY <1>2, <2>2, <2>4 DEF Linked
  <2> QED
    BY <1>1, <1>2, <2>1, <2>4, <2>5 DEF s
<1> QED
  BY <1>3, <1>4, <1>5

LEMMA ListsUnlinkFirst ==
  ASSUME IInv, UnlinkFirst
  PROVE  /\ Lists'
         /\ 1 \in 1 .. Len(Chains[i]) /\ cur = Chains[i][1]
         /\ Chains'[i] = Without(Chains[i], 1)
         /\ RowBecomes(i, Without(Ends[i], 1))
<1>1. PICK ls : Holds(heap, Heads, ls, live) /\ At(ls)
  BY DEF IInv, Lists
<1>2. /\ Scanning /\ cur # NULL /\ prev = cur /\ cur' = heap[cur].next /\ prev' = cur'
      /\ free(cur) /\ vertices' = [vertices EXCEPT ![i] = cur']
      /\ UNCHANGED <<pc, arg, i>>
  BY DEF UnlinkFirst
<1>3. /\ i \in DOMAIN Heads /\ Heads[i] = vertices[i] /\ cur \in Cells
      /\ 1 \in 1 .. Len(ls[i]) /\ cur = ls[i][1]
  BY <1>1, <1>2, Stands
<1>4. /\ DOMAIN Heads' = DOMAIN Heads /\ Heads'[i] = cur'
      /\ \A v \in DOMAIN Heads : v # i => Heads'[v] = Heads[v]
  BY <1>2, <1>3 DEF Heads, Scanning
<1>5. \A c \in Cells \ {cur} : heap'[c].next = heap[c].next /\ heap'[c].number = heap[c].number
  BY <1>2, <1>3, BlankIsRecord, CellWrite DEF free, IInv, Shape
<1>6. live \subseteq Cells /\ live' = live \ {cur}
  BY <1>2 DEF free, IInv, Shape
<1>7. /\ i \in DOMAIN vertices /\ DOMAIN vertices' = DOMAIN vertices /\ 1 \in 1 .. Len(ls[i])
      /\ Unlinked(heap, heap', Heads, Heads', ls[i], live, i, 1)
      /\ live' = live \ {ls[i][1]}
      /\ SameNumbers(heap, heap', live \ {ls[i][1]})
  BY <1>1, <1>2, <1>3, <1>4, <1>5, <1>6, HeadsOf DEF Unlinked, SameNumbers
<1>8. /\ Holds(heap', Heads', [ls EXCEPT ![i] = Without(ls[i], 1)], live')
      /\ Chains[i] = ls[i] /\ Chains'[i] = Without(ls[i], 1)
      /\ RowBecomes(i, Without(Ends[i], 1))
  BY ONLY <1>1, <1>7, ListsTakeOut, Zenon
<1>11. PICK m : Holds(heap', Heads', m, live')
  BY <1>8
<1>9. cur' = vertices'[i'] /\ cur' = prev'
  BY <1>2, <1>3 DEF Heads
<1>10. At(m)'
  BY <1>2, <1>9 DEF At, Scanning
<1> QED
  BY <1>3, <1>8, <1>10, <1>11 DEF Lists

LEMMA ListsUnlinkLater ==
  ASSUME IInv, UnlinkLater
  PROVE  /\ Lists' /\ cur' = heap[cur].next
         /\ \E p \in 1 .. Len(Chains[i]) :
              /\ cur = Chains[i][p]
              /\ Chains'[i] = Without(Chains[i], p)
              /\ RowBecomes(i, Without(Ends[i], p))
<1>1. PICK ls : Holds(heap, Heads, ls, live) /\ At(ls)
  BY DEF IInv, Lists
<1>2. /\ Scanning /\ cur # NULL /\ prev # cur
      /\ heap' = [heap EXCEPT ![prev].next = heap[cur].next, ![cur] = Blank]
      /\ live' = live \ {cur} /\ cur' = heap'[prev].next
      /\ UNCHANGED <<vertices, pc, arg, i, prev>>
  BY DEF UnlinkLater
<1>3. /\ i \in DOMAIN Heads /\ cur \in Cells
      /\ Linked(heap, ls[i], Heads[i]) /\ Range(ls[i]) \subseteq live
  BY <1>1, <1>2, Stands
<1>4. PICK k \in 1 .. Len(ls[i]) : /\ k + 1 \in 1 .. Len(ls[i])
                                   /\ prev = ls[i][k] /\ cur = ls[i][k + 1]
  BY <1>1, <1>2, Stands
<1>5. prev \in Cells /\ live \subseteq Cells
  BY <1>3, <1>4, CellsOfList DEF IInv, Shape
<1>6. Heads' = Heads
  BY <1>2 DEF Heads
<1>7. /\ \A c \in live \ {cur} : heap'[c].next = IF c = prev THEN heap[cur].next ELSE heap[c].next
      /\ \A c \in live \ {cur} : heap'[c].number = heap[c].number
      /\ cur' = heap[cur].next
  <2> DEFINE x == heap[cur].next
             mem == [heap EXCEPT ![prev].next = x]
  <2>1. x \in Cells \cup {NULL}
    BY <1>3, Array DEF IInv
  <2>2. heap' = [mem EXCEPT ![cur] = Blank]
    BY <1>2
  <2> HIDE DEF x
  <2>3. /\ mem \in Heaps /\ mem[prev].next = x
        /\ \A d \in Cells \ {prev} : mem[d].next = heap[d].next
        /\ \A d \in Cells : mem[d].number = heap[d].number
    <3>1. heap \in Heaps
      BY DEF IInv, Shape
    <3> QED
      BY <1>5, <2>1, <3>1, PointerWrite
  <2> HIDE DEF mem
  <2>4. \A d \in Cells \ {cur} : heap'[d].next = mem[d].next /\ heap'[d].number = mem[d].number
    BY <1>3, <2>2, <2>3, BlankIsRecord, CellWrite
  <2>5. cur' = heap'[prev].next /\ prev # cur
    BY <1>2
  <2> QED
    BY <1>5, <2>3, <2>4, <2>5 DEF x
<1> DEFINE p == k + 1
<1>8. /\ p \in 1 .. Len(ls[i]) /\ p # 1 /\ p > 1 /\ p - 1 = k
      /\ ls[i][p] = cur /\ ls[i][k] = prev
      /\ i \in DOMAIN vertices /\ DOMAIN vertices' = DOMAIN vertices
  BY <1>2, <1>3, <1>4, HeadsOf
<1> HIDE DEF p
<1>9. /\ Unlinked(heap, heap', Heads, Heads', ls[i], live, i, p)
      /\ live' = live \ {ls[i][p]}
      /\ SameNumbers(heap, heap', live \ {ls[i][p]})
  BY <1>2, <1>6, <1>7, <1>8 DEF Unlinked, SameNumbers
<1>10. /\ Holds(heap', Heads', [ls EXCEPT ![i] = Without(ls[i], p)], live')
       /\ Chains[i] = ls[i] /\ Chains'[i] = Without(ls[i], p)
       /\ RowBecomes(i, Without(Ends[i], p))
  BY ONLY <1>1, <1>8, <1>9, ListsTakeOut, Zenon
<1>15. PICK m : m = [ls EXCEPT ![i] = Without(ls[i], p)] /\ Holds(heap', Heads', m, live')
  BY <1>10
<1> DEFINE t == Without(ls[i], p)
<1>11. k \in 1 .. Len(t) /\ t[k] = prev
  <2> DEFINE n == Len(ls[i])
  <2>1. n \in Nat /\ k \in 1 .. n - 1 /\ k < p /\ n - 1 \in Nat
    <3>1. Len(ls[i]) \in Nat
      BY <1>3 DEF Linked
    <3> QED
      BY <1>4, <3>1 DEF p
  <2>2. t = [j \in 1 .. n - 1 |-> IF j < p THEN ls[i][j] ELSE ls[i][j + 1]]
    BY DEF Without
  <2> HIDE DEF n, t
  <2>3. Len(t) = n - 1
    BY <2>1, <2>2
  <2> QED
    BY <1>8, <2>1, <2>2, <2>3
<1>12. m[i] = t
  <2>1. i \in DOMAIN ls
    BY <1>1, <1>3 DEF Holds
  <2> QED
    BY <1>15, <2>1
<1> HIDE DEF t
<1>13. At(m)'
  BY <1>2, <1>11, <1>12 DEF At, Scanning
<1>14. p \in 1 .. Len(Chains[i]) /\ cur = Chains[i][p] /\ Chains'[i] = Without(Chains[i], p)
  BY <1>8, <1>10
<1> QED
  BY <1>7, <1>10, <1>13, <1>14, <1>15 DEF Lists

LEMMA ListsKeep ==
  ASSUME IInv, Keep
  PROVE  /\ Lists' /\ Chains'[i] = Chains[i]
         /\ \E p \in 1 .. Len(Chains[i]) :
              /\ cur = Chains[i][p]
              /\ RowBecomes(i, [Ends[i] EXCEPT ![p] = Renumbered(pc, @, arg.to)])
<1>1. PICK ls : Holds(heap, Heads, ls, live) /\ At(ls)
  BY DEF IInv, Lists
<1>2. /\ Scanning /\ cur # NULL /\ prev' = cur /\ cur' = heap[cur].next
      /\ UNCHANGED <<vertices, live, pc, arg, i>>
  BY DEF Keep
<1>3. cur \in Cells /\ live \subseteq Cells
  BY <1>2 DEF IInv, Shape
<1>4. /\ \A c \in Cells : heap'[c].next = heap[c].next
      /\ \A c \in Cells \ {cur} : heap'[c].number = heap[c].number
      /\ heap'[cur].number = Renumbered(pc, heap[cur].number, arg.to)
  <2>1. /\ \A d \in Cells : [heap EXCEPT ![cur].number = @ - 1][d].next = heap[d].next
        /\ \A d \in Cells \ {cur} : [heap EXCEPT ![cur].number = @ - 1][d].number = heap[d].number
        /\ [heap EXCEPT ![cur].number = @ - 1][cur].number = heap[cur].number - 1
    <3>1. heap \in Heaps
      BY DEF IInv, Shape
    <3> QED
      BY <1>3, <3>1, NumberWrite
  <2> QED
    BY <2>1 DEF Keep, Renumbered
<1>5. Heads' = Heads
  BY <1>2 DEF Heads, Scanning
<1>6. PICK p \in 1 .. Len(ls[i]) : cur = ls[i][p]
  BY <1>1, <1>2, Stands
<1>7. Holds(heap', Heads', ls, live')
  <2>1. \A c \in live : heap'[c].next = heap[c].next
    BY <1>3, <1>4
  <2> QED
    BY <1>1, <1>2, <1>5, <2>1, HoldsStill
<1>8. At(ls)'
  BY <1>2, <1>3, <1>4, <1>6 DEF At, Scanning
<1> DEFINE s == ls[i]
<1>9. /\ Linked(heap, s, Heads[i]) /\ Range(s) \subseteq live /\ Len(s) \in Nat
      /\ DOMAIN s = 1 .. Len(s) /\ i \in DOMAIN vertices
      /\ \A k, j \in 1 .. Len(s) : s[j] = s[k] => j = k
  BY <1>1, <1>2, Stands, HeadsOf DEF Linked
<1>10. \A k \in 1 .. Len(s) : s[k] \in Range(s) /\ s[k] \in Cells
  BY <1>3, <1>9 DEF Range
<1>11. Chains[i] = s /\ Chains'[i] = s
       /\ Ends[i] = Numbers(heap, s) /\ RowBecomes(i, Numbers(heap', s))
  <2>1. SameNumbers(heap, heap', live \ Range(ls[i]))
    BY <1>3, <1>4, <1>6, <1>10 DEF SameNumbers
  <2>2. Replaced(ls, ls, i, s)
    BY DEF Replaced
  <2>3. i \in DOMAIN vertices /\ Holds(heap, Heads, ls, live) /\ Holds(heap', Heads', ls, live')
        /\ DOMAIN vertices' = DOMAIN vertices
    BY <1>1, <1>2, <1>7, <1>9
  <2>4. /\ Chains[i] = ls[i] /\ Ends[i] = Numbers(heap, ls[i])
        /\ Chains'[i] = s
        /\ RowBecomes(i, Numbers(heap', s))
    BY ONLY <2>1, <2>2, <2>3, OneRow, Zenon
  <2> QED
    BY <2>4
<1>12. Numbers(heap', s) = [Numbers(heap, s) EXCEPT ![p] = Renumbered(pc, @, arg.to)]
  <2> DEFINE mem2 == heap'
             x == Renumbered(pc, heap[cur].number, arg.to)
  <2>1. /\ mem2[s[p]].number = x /\ p \in 1 .. Len(s)
        /\ SameButOne(heap, mem2, s, p)
    BY <1>4, <1>6, <1>9, <1>10 DEF SameButOne
  <2>2. Numbers(heap, s)[p] = heap[cur].number
    BY <1>6 DEF Numbers
  <2>4. Len(s) \in Nat
    BY <1>9
  <2> HIDE DEF mem2, s, x
  <2>3. Numbers(mem2, s) = [Numbers(heap, s) EXCEPT ![p] = x]
    BY ONLY <2>1, <2>4, NumbersWrite
  <2> QED
    BY <2>2, <2>3 DEF mem2, x
<1> HIDE DEF s
<1>13. p \in 1 .. Len(Chains[i]) /\ cur = Chains[i][p]
       /\ RowBecomes(i, [Ends[i] EXCEPT ![p] = Renumbered(pc, @, arg.to)])
  BY <1>6, <1>11, <1>12 DEF s
<1> QED
  BY <1>7, <1>8, <1>11, <1>13 DEF Lists

LEMMA ListsRowEnds ==
  ASSUME IInv, RowEnds
  PROVE  Lists' /\ Heads' = Heads
<1>1. PICK ls : Holds(heap, Heads, ls, live)
  BY DEF IInv, Lists
<1>2. Scanning /\ UNCHANGED <<vertices, heap, live>>
  BY DEF RowEnds
<1>3. \/ pc' = "idle"
      \/ pc' = "remove_vertex" /\ cur' = prev' /\ cur' = vertices[i']
  BY DEF RowEnds, StartRow, Idle
<1>4. Heads' = Heads
  BY <1>2, <1>3 DEF Heads, Scanning
<1>5. At(ls)'
  BY <1>2, <1>3 DEF At, Scanning
<1> QED
  BY <1>1, <1>2, <1>4, <1>5 DEF Lists

LEMMA ListsDelete ==
  ASSUME IInv, DeleteStep
  PROVE  Lists'
<1>1. PICK ls : Holds(heap, Heads, ls, live)
  BY DEF IInv, Lists
<1>2. pc = "delete" /\ i \in DOMAIN vertices /\ i \in Nat
  BY DEF DeleteStep, IInv, Shape
<1>3. DOMAIN vertices = 0 .. vernum - 1 /\ vernum \in Nat
  BY Array DEF IInv
<1>4. CASE prev # NULL
  BY <1>4, ListsFree DEF DeleteStep
<1>5. CASE prev = NULL /\ i + 1 < vernum
  <2>1. i + 1 \in DOMAIN vertices
    BY <1>2, <1>3, <1>5
  <2>2. /\ pc' = "delete" /\ i' = i + 1 /\ prev' = vertices[i + 1]
        /\ UNCHANGED <<vertices, heap, live, arg>>
    BY <1>5, <2>1 DEF DeleteStep, StartRow
  <2>3. Heads' = Heads
    <3>1. \A v \in DOMAIN vertices : /\ v = i + 1 => ~(v < i) /\ v # i
                                     /\ v = i => v < i + 1
                                     /\ v < i + 1 <=> v < i \/ v = i
      BY <1>2, <1>3
    <3> DEFINE first(v) == IF v = i THEN NULL ELSE IF v < i THEN NULL ELSE vertices[v]
               first2(v) == IF v = i + 1 THEN vertices[i + 1]
                            ELSE IF v < i + 1 THEN NULL ELSE vertices[v]
    <3>2. \A v \in DOMAIN vertices : first(v) = first2(v)
      BY <3>1
    <3>3. Heads = [v \in DOMAIN vertices |-> first(v)]
      BY <1>2, <1>5 DEF Heads
    <3>4. Heads' = [v \in DOMAIN vertices |-> first2(v)]
      BY <2>2 DEF Heads
    <3> HIDE DEF first, first2
    <3> QED
      BY <3>2, <3>3, <3>4
  <2>4. At(ls)'
    BY <2>2 DEF At, Scanning
  <2> QED
    BY <1>1, <2>2, <2>3, <2>4 DEF Lists
<1>6. CASE prev = NULL /\ ~(i + 1 < vernum)
  <2>1. /\ pc' = "deleted" /\ vertices' = <<>> /\ UNCHANGED <<heap, live>>
    BY <1>6 DEF DeleteStep
  <2>2. \A v \in DOMAIN vertices : v = i \/ v < i
    BY <1>2, <1>3, <1>6
  <2>3. DOMAIN Heads = DOMAIN vertices /\ \A v \in DOMAIN Heads : Heads[v] = NULL
    BY <1>2, <1>6, <2>2 DEF Heads
  <2>4. live = {}
    <3>1. \A v \in DOMAIN Heads : Range(ls[v]) = {}
      BY <1>1, <2>3, EmptyList DEF Holds
    <3> QED
      BY <1>1, <3>1 DEF Holds
  <2> DEFINE l2 == <<>>
  <2>5. DOMAIN Heads' = {} /\ DOMAIN l2 = {}
    BY <2>1 DEF Heads
  <2> HIDE DEF l2
  <2>6. Holds(heap', Heads', l2, live')
    BY <2>1, <2>4, <2>5 DEF Holds
  <2>7. PICK m : Holds(heap', Heads', m, live')
    BY <2>6
  <2>8. At(m)'
    BY <2>1 DEF At, Scanning
  <2> QED
    BY <2>7, <2>8 DEF Lists
<1> QED
  BY <1>4, <1>5, <1>6

-----------------------------------------------------------------------------
(* The theorem.                                                            *)

LEMMA InvInit == Init => IInv
BY ShapeInit, ListsInit DEF IInv

LEMMA InvKeeps == IInv /\ [Next]_vars => IInv'
<1> SUFFICES ASSUME IInv, [Next]_vars PROVE IInv'
  OBVIOUS
<1>1. CASE Next
  <2>1. Shape'
    BY <1>1, ShapeKeeps DEF IInv
  <2>2. ASSUME add_vertex PROVE Lists'
    BY <2>2, ListsAddVertex
  <2>3. ASSUME NEW from \in DOMAIN vertices, NEW to \in DOMAIN vertices, add_edge(from, to)
        PROVE  Lists'
    BY <2>3, ListsAddEdge
  <2>4. ASSUME NEW from \in DOMAIN vertices, NEW to \in DOMAIN vertices, remove_edge(from, to)
        PROVE  Lists'
    BY <2>4, Array, ListsCall DEF remove_edge, IInv
  <2>5. ASSUME NEW vertex \in DOMAIN vertices, remove_vertex(vertex)
        PROVE  Lists'
    BY <2>5, Array, ListsCall DEF remove_vertex, IInv
  <2>6. ASSUME delete_graph PROVE Lists'
    <3>1. 0 \in DOMAIN vertices /\ Call("delete", 0, 0) /\ UNCHANGED <<vertices, heap, live>>
      BY <2>6, Array DEF delete_graph, IInv
    <3> QED
      BY <3>1, ListsCall
  <2>7. Lists'
    BY <1>1, <2>2, <2>3, <2>4, <2>5, <2>6, ListsAppend, ListsFreeRow, ListsUnlinkFirst,
       ListsUnlinkLater, ListsKeep, ListsRowEnds, ListsDelete DEF Next
  <2> QED
    BY <2>1, <2>7 DEF IInv
<1>2. CASE UNCHANGED vars
  <2>1. UNCHANGED <<vertices, heap, live, pc, arg, i, cur, prev>>
    BY <1>2 DEF vars
  <2>2. Shape'
    BY <2>1 DEF IInv, Shape, vernum, Scanning
  <2>3. Lists'
    <3>1. PICK ls : Holds(heap, Heads, ls, live) /\ At(ls)
      BY DEF IInv, Lists
    <3>2. Heads' = Heads /\ At(ls)'
      BY <2>1, <3>1 DEF Heads, At, Scanning
    <3> QED
      BY <2>1, <3>1, <3>2 DEF Lists
  <2> QED
    BY <2>2, <2>3 DEF IInv
<1> QED
  BY <1>1, <1>2

\* What Chain finds is what the invariant says is there.
LEMMA InvSound == IInv => HeapSound
<1> SUFFICES ASSUME IInv PROVE HeapSound
  OBVIOUS
<1>1. PICK ls : Holds(heap, Heads, ls, live) /\ At(ls)
  BY DEF IInv, Lists
<1>2. /\ DOMAIN Heads = DOMAIN vertices /\ {cur, prev} \subseteq Cells \cup {NULL}
      /\ pc \notin {"idle", "deleted"} => i \in DOMAIN vertices
      /\ pc = "free_row" => i = arg.to
      /\ \A v \in DOMAIN vertices : v \in Nat
  BY HeadsOf, Array DEF IInv, Shape
<1>3. ASSUME NEW v \in DOMAIN vertices
      PROVE  /\ Linked(heap, ls[v], Heads[v]) /\ Range(ls[v]) \subseteq live
             /\ Chain(Heads[v]) = ls[v]
  BY <1>1, <1>2, CellsOf, ChainOfLinked DEF Chain
<1>4. ASSUME NEW v \in Whole
      PROVE  /\ v \in DOMAIN vertices /\ Chain(vertices[v]) = ls[v]
             /\ Linked(heap, ls[v], vertices[v])
  <2>1. v \in DOMAIN vertices /\ ~(pc = "free_row" /\ v = arg.to) /\ ~(pc = "delete" /\ v <= i)
    BY DEF Whole
  <2>2. v \in Nat /\ (pc = "delete" => i \in Nat)
    BY <1>2, <2>1
  <2>3. ~(pc = "delete" /\ v = i) /\ ~(pc = "delete" /\ v < i)
    BY <2>1, <2>2
  <2>4. Heads[v] = vertices[v]
    BY <2>1, <2>3 DEF Heads
  <2> QED
    BY <1>3, <2>1, <2>4
<1>5. \A v \in Whole : IsInjective(Chain(vertices[v]))
  BY <1>4 DEF Linked, IsInjective
<1>6. \A v, w \in Whole : v # w => Range(Chain(vertices[v])) \cap Range(Chain(vertices[w])) = {}
  <2>1. \A v, w \in DOMAIN vertices : v # w => Range(ls[v]) \cap Range(ls[w]) = {}
    BY <1>1, <1>2 DEF Holds
  <2> QED
    BY <1>4, <2>1
<1>7. live = InHand \cup UNION {Range(Chain(vertices[v])) : v \in Whole}
  <2>1. live = UNION {Range(ls[v]) : v \in DOMAIN vertices}
    BY <1>1, <1>2 DEF Holds
  <2>2. \A v \in Whole : Range(Chain(vertices[v])) = Range(ls[v]) /\ v \in DOMAIN vertices
    BY <1>4
  <2>3. CASE pc \in {"free_row", "delete"}
    <3>1. i \in DOMAIN vertices /\ i \in Nat
      BY <1>2, <2>3
    <3>2. Heads[i] = prev
      BY <1>2, <2>3, <3>1 DEF Heads
    <3>3. InHand = Range(ls[i])
      BY <1>3, <2>3, <3>1, <3>2 DEF InHand
    <3>4. ASSUME NEW v \in DOMAIN vertices
          PROVE  v \in Whole \/ v = i \/ Range(ls[v]) = {}
      <4>1. CASE pc = "delete" /\ v < i
        <5>1. Heads[v] = NULL
          BY <1>2, <3>1, <4>1 DEF Heads
        <5> QED
          BY <1>3, <5>1, EmptyList
      <4>2. CASE ~(pc = "delete" /\ v < i)
        BY <1>2, <2>3, <3>1, <4>2 DEF Whole
      <4> QED
        BY <4>1, <4>2
    <3> QED
      BY <2>1, <2>2, <3>1, <3>3, <3>4
  <2>4. CASE pc \notin {"free_row", "delete"}
    <3>1. Whole = DOMAIN vertices /\ InHand = {}
      BY <2>4 DEF Whole, InHand
    <3> QED
      BY <2>1, <2>2, <3>1
  <2> QED
    BY <2>3, <2>4
<1>8. ASSUME Scanning \/ pc = "append"
      PROVE  {cur, prev} \subseteq {NULL} \cup Range(Chain(vertices[i]))
  <2>1. i \in DOMAIN vertices /\ Heads[i] = vertices[i]
    BY <1>2, <1>8, HeadsOf DEF Scanning
  <2> DEFINE s == ls[i]
  <2>2. Linked(heap, s, vertices[i]) /\ Chain(vertices[i]) = s
    BY <1>3, <2>1
  <2>3. \/ cur = vertices[i] /\ prev = vertices[i]
        \/ \E k \in 1 .. Len(s) : cur = s[k] /\ prev = vertices[i]
        \/ \E k \in 1 .. Len(s) : prev = s[k] /\ cur = heap[prev].next
    BY <1>1, <1>8 DEF At, IInv, Shape
  <2> HIDE DEF s
  <2>4. \A k \in 1 .. Len(s) : s[k] \in Range(s)
    BY <2>2 DEF Linked, Range
  <2>5. Len(s) \in Nat /\ vertices[i] \in {NULL} \cup Range(s)
    <3>1. Len(s) \in Nat /\ vertices[i] = IF Len(s) = 0 THEN NULL ELSE s[1]
      BY <2>2 DEF Linked
    <3>2. Len(s) # 0 => 1 \in 1 .. Len(s)
      BY <3>1
    <3> QED
      BY <2>4, <3>1, <3>2
  <2>6. \A k \in 1 .. Len(s) : heap[s[k]].next \in {NULL} \cup Range(s)
    <3> SUFFICES ASSUME NEW k \in 1 .. Len(s) PROVE heap[s[k]].next \in {NULL} \cup Range(s)
      OBVIOUS
    <3>1. heap[s[k]].next = IF k = Len(s) THEN NULL ELSE s[k + 1]
      BY <2>2 DEF Linked
    <3>2. k # Len(s) => k + 1 \in 1 .. Len(s)
      BY <2>5
    <3> QED
      BY <2>4, <3>1, <3>2
  <2> QED
    BY <2>2, <2>3, <2>4, <2>5, <2>6
<1>9. pc = "deleted" => live = {}
  <2>1. pc = "deleted" => DOMAIN vertices = {}
    BY Array DEF IInv, Shape
  <2> QED
    BY <1>1, <1>2, <2>1 DEF Holds
<1> QED
  BY <1>2, <1>5, <1>6, <1>7, <1>8, <1>9 DEF HeapSound

\* In the middle of any loop of the library, and however many cells and
\* vertices there are: the lists have no cycle and share no cell, the pointers
\* of the loop lead to cells that are allocated, and no cell is lost.
THEOREM HeapSoundAlways == Spec => []HeapSound
<1>1. Init => IInv
  BY InvInit
<1>2. IInv /\ [Next]_vars => IInv'
  BY InvKeeps
<1>3. IInv => HeapSound
  BY InvSound
<1> QED
  BY <1>1, <1>2, <1>3, PTL DEF Spec

-----------------------------------------------------------------------------
(* The refinement.                                                         *)

\* Each vertex has a list of cells, and a number for each of them.
RowsSound ==
  \A v \in DOMAIN vertices :
    /\ Linked(heap, Chains[v], Heads[v])
    /\ Ends[v] \in Seq(Int) /\ Len(Ends[v]) = Len(Chains[v])

\* The rows, as far as the lists are whole.
EndRows == [k \in 1 .. vernum |-> Ends[k - 1]]

RowsKnown ==
  /\ EndRows \in Seq(Seq(Int)) /\ Len(EndRows) = vernum
  /\ \A v \in DOMAIN vertices : v + 1 \in 1 .. vernum /\ EndRows[v + 1] = Ends[v]
  /\ pc \notin {"free_row", "delete"} => Rows = EndRows

LEMMA InvRows == IInv => RowsSound /\ RowsKnown
<1> SUFFICES ASSUME IInv PROVE RowsSound /\ RowsKnown
  OBVIOUS
<1>1. PICK ls : Holds(heap, Heads, ls, live)
  BY DEF IInv, Lists
<1>2. DOMAIN Heads = DOMAIN vertices /\ DOMAIN vertices = 0 .. vernum - 1 /\ vernum \in Nat
  BY HeadsOf, Array DEF IInv
<1>3. ASSUME NEW v \in DOMAIN vertices
      PROVE  /\ Linked(heap, Chains[v], Heads[v])
             /\ Ends[v] \in Seq(Int) /\ Len(Ends[v]) = Len(Chains[v])
  <2>1. Chains[v] = ls[v] /\ Linked(heap, ls[v], Heads[v])
    <3>1. ChainIn(heap, Heads[v]) = ls[v]
      BY <1>1, <1>2, Found
    <3>2. Linked(heap, ls[v], Heads[v])
      BY <1>1, <1>2 DEF Holds
    <3> QED
      BY <3>1, <3>2 DEF Chains, Chain
  <2> DEFINE s == Chains[v]
  <2>2. s \in Seq(Cells) /\ Len(s) \in Nat /\ \A k \in 1 .. Len(s) : s[k] \in Cells
    BY <2>1 DEF Linked
  <2>3. Ends[v] = [k \in 1 .. Len(s) |-> heap[s[k]].number]
    BY DEF Ends, Numbers
  <2> HIDE DEF s
  <2>4. Ends[v] \in [1 .. Len(s) -> Int]
    BY <2>2, <2>3 DEF IInv, Shape, Heaps
  <2>5. Ends[v] \in Seq(Int) /\ Len(Ends[v]) = Len(s)
    BY <2>2, <2>4
  <2> QED
    BY <2>1, <2>5 DEF s
<1>4. /\ EndRows \in Seq(Seq(Int)) /\ Len(EndRows) = vernum
      /\ \A v \in DOMAIN vertices : v + 1 \in 1 .. vernum /\ EndRows[v + 1] = Ends[v]
  <2>1. EndRows = [k \in 1 .. vernum |-> Ends[k - 1]]
    BY DEF EndRows
  <2>2. \A k \in 1 .. vernum : k - 1 \in DOMAIN vertices /\ Ends[k - 1] \in Seq(Int)
    BY <1>2, <1>3
  <2>3. EndRows \in [1 .. vernum -> Seq(Int)]
    BY <2>1, <2>2
  <2>4. \A v \in DOMAIN vertices : v + 1 \in 1 .. vernum /\ (v + 1) - 1 = v
    BY <1>2
  <2> QED
    BY <1>2, <2>1, <2>3, <2>4
<1>5. ASSUME pc \notin {"free_row", "delete"} PROVE Rows = EndRows
  <2>1. ASSUME NEW v \in DOMAIN vertices PROVE Row(v) = Ends[v]
    <3>1. Chain(vertices[v]) = Chains[v]
      BY <1>2, <1>5, HeadsOf DEF Chains
    <3>2. DOMAIN Chains[v] = 1 .. Len(Chains[v])
      BY <1>3 DEF Linked
    <3> QED
      BY <3>1, <3>2 DEF Row, Ends, Numbers
  <2>2. \A k \in 1 .. vernum : k - 1 \in DOMAIN vertices
    BY <1>2
  <2>3. \A k \in 1 .. vernum : Row(k - 1) = Ends[k - 1]
    BY <2>1, <2>2
  <2> QED
    BY <2>3 DEF Rows, EndRows
<1> QED
  BY <1>3, <1>4, <1>5 DEF RowsSound, RowsKnown

LEMMA InvRowsNext == IInv' => RowsSound' /\ RowsKnown'
BY InvRows, PTL

LEMMA SameLists ==
  ASSUME heap' = heap, Heads' = Heads, vertices' = vertices
  PROVE  Chains' = Chains /\ Ends' = Ends /\ EndRows' = EndRows /\ vernum' = vernum
<1>1. Chains' = Chains
  BY DEF Chains, Chain
<1>2. Ends' = Ends
  BY <1>1 DEF Ends
<1>3. vernum' = vernum
  BY DEF vernum
<1> QED
  BY <1>1, <1>2, <1>3 DEF EndRows

LEMMA OneEndRow ==
  ASSUME Shape, NEW o \in DOMAIN vertices, NEW nums, DOMAIN vertices' = DOMAIN vertices,
         RowBecomes(o, nums)
  PROVE  EndRows' = [EndRows EXCEPT ![o + 1] = nums]
<1>1. vernum' = vernum /\ DOMAIN vertices = 0 .. vernum - 1 /\ vernum \in Nat
  BY Array, SameSize
<1>2. /\ EndRows = [k \in 1 .. vernum |-> Ends[k - 1]]
      /\ EndRows' = [k \in 1 .. vernum |-> Ends'[k - 1]]
  BY <1>1 DEF EndRows
<1>3. \A v \in DOMAIN vertices : Ends'[v] = IF v = o THEN nums ELSE Ends[v]
  BY DEF RowBecomes, Ends
<1>4. \A k \in 1 .. vernum : k - 1 \in DOMAIN vertices /\ (k - 1 = o <=> k = o + 1)
  BY <1>1
<1> QED
  BY <1>2, <1>3, <1>4

\* What a vertex's row was when the call began, by the number it has now.
Source(v) == before[IF pc = "remove_vertex" /\ v >= arg.to THEN v + 2 ELSE v + 1]

Working == pc \in {"append", "remove_edge", "remove_vertex", "free_row"}

\* How far a call is: the rows before i are done, those after it are as they
\* were, and row i is done up to where cur stands.
Progress ==
  Working =>
    /\ before \in Seq(Seq(Int))
    /\ Len(before) = IF pc = "remove_vertex" THEN vernum + 1 ELSE vernum
    /\ arg.to \in 0 .. Len(before) - 1
    /\ pc \in {"append", "remove_edge"} => i = arg.from
    /\ \A v \in DOMAIN vertices \ {i} :
         Ends[v] = IF pc = "remove_vertex" /\ v < i
                   THEN Done(pc, Source(v), arg.to, Len(Source(v))) ELSE Source(v)
    /\ pc = "append" => Ends[i] = Source(i)
    /\ Scanning => Scan(pc, arg.to, cur, prev, Chains[i], Ends[i], Source(i))

\* The state of the abstract graph: in the middle of a call, that before it.
Bar == IF pc = "idle" THEN Rows ELSE before
AbstractStep == [Abstract!Next]_Bar

\* Outside the calls there is nothing to track.
LEMMA NoProgress ==
  ASSUME pc' \in {"idle", "delete", "deleted"}
  PROVE  Progress'
BY DEF Progress, Working

LEMMA BarIdle ==
  ASSUME IInv, pc = "idle"
  PROVE  Bar = EndRows /\ Abstract!VerticesOf(Bar) = DOMAIN vertices
<1>1. Bar = EndRows /\ Len(EndRows) = vernum
  BY InvRows DEF Bar, RowsKnown
<1> QED
  BY <1>1, Array DEF IInv, Abstract!VerticesOf

LEMMA BarIdleNext ==
  ASSUME IInv', pc' = "idle"
  PROVE  Bar' = EndRows'
BY InvRowsNext DEF Bar, RowsKnown

LEMMA StepAddVertex ==
  ASSUME IInv, IInv', add_vertex
  PROVE  Progress' /\ AbstractStep
<1>1. /\ pc = "idle" /\ pc' = "idle" /\ heap' = heap
      /\ vertices' = [v \in 0 .. vernum |-> IF v = vernum THEN NULL ELSE vertices[v]]
  BY DEF add_vertex
<1>2. DOMAIN vertices = 0 .. vernum - 1 /\ vernum \in Nat
  BY Array DEF IInv
<1>3. vernum' = vernum + 1
  <2>1. DOMAIN vertices' = 0 .. (vernum + 1) - 1 /\ vernum + 1 \in Nat
    BY <1>1, <1>2
  <2> QED
    BY <2>1, CountOf DEF vernum
<1>4. Chain(NULL) = <<>> /\ Numbers(heap, <<>>) = <<>>
  BY NoCells, ChainOfLinked DEF Chain, Numbers
<1>5. /\ Ends'[vernum] = <<>> /\ \A v \in DOMAIN vertices : Ends'[v] = Ends[v]
  <2>1. /\ DOMAIN vertices' = 0 .. vernum
        /\ Heads'[vernum] = NULL
        /\ \A v \in DOMAIN vertices : Heads'[v] = Heads[v] /\ v \in DOMAIN vertices'
    BY <1>1, <1>2 DEF Heads
  <2>2. /\ Chains'[vernum] = <<>>
        /\ \A v \in DOMAIN vertices : Chains'[v] = Chains[v]
    BY <1>1, <1>2, <1>4, <2>1 DEF Chains, Chain
  <2> QED
    BY <1>1, <1>2, <1>4, <2>1, <2>2 DEF Ends
<1>6. EndRows' = Append(EndRows, <<>>)
  <2> DEFINE n == vernum
             e == Ends
             e2 == Ends'
  <2>1. EndRows = [k \in 1 .. n |-> e[k - 1]] /\ EndRows' = [k \in 1 .. n + 1 |-> e2[k - 1]]
    BY <1>3 DEF EndRows
  <2>2. n \in Nat /\ e2[n] = <<>> /\ \A v \in 0 .. n - 1 : e2[v] = e[v]
    BY <1>2, <1>5
  <2> HIDE DEF n, e, e2
  <2>3. \A k \in 1 .. n : k - 1 \in 0 .. n - 1
    BY <2>2
  <2>4. Append([k \in 1 .. n |-> e[k - 1]], <<>>)
          = [k \in 1 .. n + 1 |-> IF k = n + 1 THEN <<>> ELSE e[k - 1]]
    BY <2>2
  <2>5. \A k \in 1 .. n + 1 : e2[k - 1] = IF k = n + 1 THEN <<>> ELSE e[k - 1]
    <3> SUFFICES ASSUME NEW k \in 1 .. n + 1
                 PROVE  e2[k - 1] = IF k = n + 1 THEN <<>> ELSE e[k - 1]
      OBVIOUS
    <3>1. k = n + 1 => k - 1 = n
      BY <2>2
    <3>2. k # n + 1 => k - 1 \in 0 .. n - 1
      BY <2>2
    <3> QED
      BY <2>2, <3>1, <3>2
  <2> QED
    BY <2>1, <2>4, <2>5
<1>7. Abstract!add_vertex
  BY <1>1, <1>6, BarIdle, BarIdleNext DEF Abstract!add_vertex, Bar
<1> QED
  BY <1>1, <1>7, NoProgress DEF AbstractStep, Abstract!Next

LEMMA StepFirstEdge ==
  ASSUME IInv, IInv', NEW from \in DOMAIN vertices, NEW to \in DOMAIN vertices,
         vertices[from] = NULL, add_edge(from, to)
  PROVE  Progress' /\ AbstractStep
<1>1. PICK new \in Free : malloc(new, to, heap) /\ vertices' = [vertices EXCEPT ![from] = new]
  BY DEF add_edge
<1>2. pc = "idle" /\ pc' = "idle"
  BY DEF add_edge
<1>3. RowBecomes(from, Append(Ends[from], to))
  BY <1>1, <1>2, ListsFirstEdge
<1>4. EndRows' = [EndRows EXCEPT ![from + 1] = Append(Ends[from], to)]
  BY <1>1, <1>3, OneEndRow DEF IInv
<1>5. EndRows[from + 1] = Ends[from]
  BY InvRows DEF RowsKnown
<1>6. Abstract!add_edge(from, to)
  BY <1>2, <1>4, <1>5, BarIdle, BarIdleNext DEF Abstract!add_edge, Bar
<1> QED
  BY <1>2, <1>6, BarIdle, NoProgress DEF AbstractStep, Abstract!Next, Bar

LEMMA StepCall ==
  ASSUME IInv, NEW loop \in {"append", "remove_edge", "free_row", "delete"},
         NEW from \in DOMAIN vertices, NEW to \in DOMAIN vertices,
         Call(loop, from, to), UNCHANGED <<vertices, heap, live>>, Heads' = Heads
  PROVE  Progress' /\ AbstractStep
<1>1. /\ pc = "idle" /\ pc' = loop /\ arg' = [from |-> from, to |-> to] /\ i' = from
      /\ cur' = vertices[from] /\ prev' = vertices[from] /\ before' = Rows
  BY DEF Call
<1>2. Chains' = Chains /\ Ends' = Ends /\ vernum' = vernum /\ DOMAIN vertices' = DOMAIN vertices
  BY SameLists
<1>3. /\ before' = EndRows /\ EndRows \in Seq(Seq(Int)) /\ Len(EndRows) = vernum
      /\ \A v \in DOMAIN vertices : EndRows[v + 1] = Ends[v]
  BY <1>1, InvRows DEF RowsKnown
<1>4. DOMAIN vertices = 0 .. vernum - 1 /\ vernum \in Nat
  BY Array DEF IInv
<1>5. arg'.from = from /\ arg'.to = to
  BY <1>1
<1>6. \A v \in DOMAIN vertices : Source(v)' = Ends[v]
  BY <1>1, <1>3 DEF Source
<1>7. Source(i)' = Ends[from]
  BY <1>1, <1>3 DEF Source
<1>8. Scanning' => Scan(pc', to, cur', prev', Chains[from], Ends[from], Ends[from])
  <2>1. Linked(heap, Chains[from], Heads[from]) /\ Ends[from] \in Seq(Int)
    BY InvRows DEF RowsSound
  <2>2. Heads[from] = vertices[from]
    BY <1>1, HeadsOf
  <2>3. Len(Chains[from]) \in Nat
        /\ vertices[from] = IF Len(Chains[from]) = 0 THEN NULL ELSE Chains[from][1]
    BY <2>1, <2>2 DEF Linked
  <2>4. to \in Int
    BY <1>4
  <2> QED
    BY <1>1, <2>1, <2>3, <2>4, ScanStart
<1>9. Progress'
  <2>1. to \in 0 .. Len(before') - 1
    BY <1>3, <1>4
  <2> QED
    BY <1>1, <1>2, <1>3, <1>5, <1>6, <1>7, <1>8, <2>1 DEF Progress
<1>10. Bar' = Bar
  BY <1>1 DEF Bar
<1> QED
  BY <1>9, <1>10 DEF AbstractStep

\* The rows of a call that adds or removes an edge, where they are as before.
LEMMA SourceOf ==
  ASSUME IInv, Progress, pc \in {"append", "remove_edge", "free_row"}
  PROVE  /\ before \in Seq(Seq(Int)) /\ Len(before) = vernum /\ Len(EndRows) = vernum
         /\ arg.to \in 0 .. vernum - 1
         /\ \A v \in DOMAIN vertices : /\ v + 1 \in 1 .. vernum
                                       /\ Source(v) = before[v + 1] /\ EndRows[v + 1] = Ends[v]
         /\ \A v \in DOMAIN vertices \ {i} : Ends[v] = before[v + 1]
BY InvRows DEF Progress, Working, Source, RowsKnown

LEMMA StepAppend ==
  ASSUME IInv, IInv', Progress, AppendStep
  PROVE  Progress' /\ AbstractStep
<1>1. pc = "append" /\ i \in DOMAIN vertices
  BY DEF AppendStep, IInv, Shape
<1>2. CASE heap[cur].next # NULL
  <2>1. UNCHANGED <<vertices, heap, live, pc, arg, i, prev, before>>
    BY <1>2 DEF AppendStep
  <2>2. Heads' = Heads /\ Bar' = Bar
    BY <1>1, <2>1 DEF Heads, Bar
  <2>3. Ends' = Ends /\ vernum' = vernum
    BY <2>1, <2>2, SameLists
  <2>4. /\ pc' = pc /\ arg' = arg /\ i' = i /\ before' = before /\ vertices' = vertices
        /\ Source(i)' = Source(i) /\ \A v \in DOMAIN vertices : Source(v)' = Source(v)
    BY <2>1 DEF Source
  <2>5. Progress'
    BY <1>1, <2>3, <2>4 DEF Progress, Working, Scanning
  <2> QED
    BY <2>2, <2>5 DEF AbstractStep
<1>3. CASE heap[cur].next = NULL
  <2>1. pc' = "idle" /\ vertices' = vertices
    BY <1>3 DEF AppendStep, Idle
  <2>2. EndRows' = [EndRows EXCEPT ![i + 1] = Append(Ends[i], arg.to)]
    BY <1>1, <1>3, <2>1, ListsAppendLast, OneEndRow DEF IInv
  <2>3. i = arg.from /\ Ends[i] = Source(i)
    BY <1>1 DEF Progress, Working
  <2>4. \A v \in DOMAIN vertices : before[v + 1] = EndRows[v + 1]
    BY <1>1, <2>3, SourceOf
  <2>5. before = EndRows
    <3>1. \A k \in 1 .. vernum : k - 1 \in DOMAIN vertices /\ (k - 1) + 1 = k
      BY Array DEF IInv
    <3>2. \A k \in 1 .. vernum : before[k] = EndRows[k]
      BY <2>4, <3>1
    <3>3. before \in Seq(Seq(Int)) /\ Len(before) = vernum
      BY <1>1, SourceOf
    <3>4. EndRows \in Seq(Seq(Int)) /\ Len(EndRows) = vernum
      BY InvRows DEF RowsKnown
    <3> QED
      BY <3>2, <3>3, <3>4
  <2>6. before[i + 1] = Ends[i] /\ arg.to \in 0 .. vernum - 1 /\ Len(before) = vernum
    BY <1>1, <2>3, SourceOf
  <2>7. Bar = before /\ Bar' = EndRows'
    BY <1>1, <2>1, BarIdleNext DEF Bar
  <2>8. arg.from \in Abstract!VerticesOf(Bar) /\ arg.to \in Abstract!VerticesOf(Bar)
    BY <1>1, <2>3, <2>6, <2>7, Array DEF IInv, Abstract!VerticesOf
  <2>9. Abstract!add_edge(arg.from, arg.to)
    BY <2>2, <2>3, <2>5, <2>6, <2>7 DEF Abstract!add_edge, Bar
  <2> QED
    BY <2>1, <2>8, <2>9, NoProgress DEF AbstractStep, Abstract!Next, Bar
<1> QED
  BY <1>2, <1>3

LEMMA StepFree ==
  ASSUME IInv, Progress, FreeRow, prev # NULL
  PROVE  Progress' /\ AbstractStep
<1>1. /\ pc = "free_row" /\ UNCHANGED <<vertices, pc, arg, i, cur, before>>
      /\ prev' = heap[prev].next /\ free(prev) /\ i \in DOMAIN vertices
  BY DEF FreeRow, IInv, Shape
<1>2. PICK row : RowBecomes(i, row)
  BY <1>1, ListsFree
<1>3. \A v \in DOMAIN vertices \ {i} : Ends'[v] = Ends[v]
  BY <1>2 DEF RowBecomes, Ends
<1>4. vernum' = vernum /\ Bar' = Bar
  BY <1>1 DEF vernum, Bar
<1>5. \A v \in DOMAIN vertices : Source(v)' = Source(v)
  BY <1>1 DEF Source
<1>6. pc' = pc /\ arg' = arg /\ i' = i /\ before' = before /\ vertices' = vertices
  BY <1>1
<1>7. Progress'
  BY <1>1, <1>3, <1>4, <1>5, <1>6 DEF Progress, Working, Scanning
<1> QED
  BY <1>4, <1>7 DEF AbstractStep

\* What the scanning loop finds in the list it is in.
LEMMA ScanFacts ==
  ASSUME IInv, Progress, Scanning
  PROVE  /\ i \in DOMAIN vertices
         /\ Chains[i] \in Seq(Cells) /\ Distinct(Chains[i]) /\ Len(Chains[i]) \in Nat
         /\ Len(Ends[i]) = Len(Chains[i])
         /\ Source(i) \in Seq(Int) /\ arg.to \in Int
         /\ \A p \in 1 .. Len(Chains[i]) :
              /\ heap[Chains[i][p]].next = IF p = Len(Chains[i]) THEN NULL ELSE Chains[i][p + 1]
              /\ Ends[i][p] = heap[Chains[i][p]].number
         /\ Scan(pc, arg.to, cur, prev, Chains[i], Ends[i], Source(i))
<1>1. i \in DOMAIN vertices /\ Working /\ DOMAIN vertices = 0 .. vernum - 1 /\ vernum \in Nat
  BY Array DEF IInv, Shape, Scanning, Working
<1>2. Linked(heap, Chains[i], Heads[i]) /\ Len(Ends[i]) = Len(Chains[i])
  BY <1>1, InvRows DEF RowsSound
<1>3. /\ before \in Seq(Seq(Int)) /\ arg.to \in 0 .. Len(before) - 1
      /\ Len(before) = IF pc = "remove_vertex" THEN vernum + 1 ELSE vernum
  BY <1>1 DEF Progress
<1>4. Source(i) \in Seq(Int)
  <2>1. (IF pc = "remove_vertex" /\ i >= arg.to THEN i + 2 ELSE i + 1) \in 1 .. Len(before)
    BY <1>1, <1>3
  <2> QED
    BY <1>3, <2>1 DEF Source
<1>5. arg.to \in Int
  BY <1>3
<1>6. \A p \in 1 .. Len(Chains[i]) : Ends[i][p] = heap[Chains[i][p]].number
  BY <1>1 DEF Ends, Numbers
<1>7. Scan(pc, arg.to, cur, prev, Chains[i], Ends[i], Source(i))
  BY <1>1 DEF Progress
<1> QED
  BY <1>1, <1>2, <1>4, <1>5, <1>6, <1>7 DEF Linked, Distinct

\* A step of the scanning loop in one list.
LEMMA ScanStep ==
  ASSUME IInv, Progress, Scanning, NEW nums, RowBecomes(i, nums),
         UNCHANGED <<pc, arg, i, before>>, DOMAIN vertices' = DOMAIN vertices,
         NEW s, Chains'[i] = s,
         Scan(pc, arg.to, cur', prev', s, nums, Source(i))
  PROVE  Progress' /\ AbstractStep
<1>1. Working /\ i \in DOMAIN vertices /\ vernum' = vernum /\ pc # "append" /\ pc # "idle"
  BY SameSize DEF Scanning, Working, IInv, Shape
<1>2. Ends'[i] = nums /\ \A v \in DOMAIN vertices \ {i} : Ends'[v] = Ends[v]
  BY <1>1 DEF RowBecomes, Ends
<1>3. pc' = pc /\ arg' = arg /\ i' = i /\ before' = before
  OBVIOUS
<1>4. Source(i)' = Source(i) /\ \A v \in DOMAIN vertices : Source(v)' = Source(v)
  BY <1>3 DEF Source
<1>5. Scan(pc, arg.to, cur, prev, Chains[i], Ends[i], Source(i))'
  BY <1>2, <1>3, <1>4
<1>6. Progress'
  <2>1. /\ before \in Seq(Seq(Int))
        /\ Len(before) = (IF pc = "remove_vertex" THEN vernum + 1 ELSE vernum)
        /\ arg.to \in 0 .. Len(before) - 1
        /\ pc \in {"append", "remove_edge"} => i = arg.from
        /\ \A v \in DOMAIN vertices \ {i} :
             Ends[v] = IF pc = "remove_vertex" /\ v < i
                       THEN Done(pc, Source(v), arg.to, Len(Source(v))) ELSE Source(v)
    BY <1>1 DEF Progress
  <2> QED
    BY <1>1, <1>2, <1>3, <1>4, <1>5, <2>1 DEF Progress
<1>7. Bar' = Bar
  BY <1>1, <1>3 DEF Bar
<1> QED
  BY <1>6, <1>7 DEF AbstractStep

LEMMA StepUnlinkFirst ==
  ASSUME IInv, Progress, UnlinkFirst
  PROVE  Progress' /\ AbstractStep
<1>1. /\ Scanning /\ heap[cur].number = arg.to /\ prev = cur
      /\ cur' = heap[cur].next /\ prev' = cur' /\ UNCHANGED <<pc, arg, i, before>>
      /\ DOMAIN vertices' = DOMAIN vertices
  BY DEF UnlinkFirst
<1> DEFINE s == Chains[i]
           nums == Ends[i]
           row == Source(i)
<1>2. /\ 1 \in 1 .. Len(s) /\ cur = s[1] /\ Chains'[i] = Without(s, 1)
      /\ RowBecomes(i, Without(nums, 1))
  BY ListsUnlinkFirst
<1>3. /\ s \in Seq(Cells) /\ Distinct(s) /\ Len(nums) = Len(s)
      /\ row \in Seq(Int) /\ arg.to \in Int
      /\ Scan(pc, arg.to, cur, prev, s, nums, row)
      /\ nums[1] = arg.to /\ cur' = IF 1 = Len(s) THEN NULL ELSE s[1 + 1]
  BY <1>1, <1>2, ScanFacts
<1> HIDE DEF s, nums, row
<1>4. prev' = IF prev = cur THEN cur' ELSE prev
  BY <1>1
<1>5. Scan(pc, arg.to, cur', prev', Without(s, 1), Without(nums, 1), row)
  BY <1>2, <1>3, <1>4, ScanDrop
<1> QED
  BY <1>1, <1>2, <1>5, ScanStep DEF row

LEMMA StepUnlinkLater ==
  ASSUME IInv, Progress, UnlinkLater
  PROVE  Progress' /\ AbstractStep
<1>1. /\ Scanning /\ heap[cur].number = arg.to /\ prev # cur
      /\ prev' = prev /\ UNCHANGED <<pc, arg, i, before>>
      /\ DOMAIN vertices' = DOMAIN vertices
  BY DEF UnlinkLater
<1> DEFINE s == Chains[i]
           nums == Ends[i]
           row == Source(i)
<1>2. cur' = heap[cur].next
  BY ListsUnlinkLater
<1>3. PICK p \in 1 .. Len(s) : /\ cur = s[p] /\ Chains'[i] = Without(s, p)
                               /\ RowBecomes(i, Without(nums, p))
  BY ListsUnlinkLater
<1>4. /\ s \in Seq(Cells) /\ Distinct(s) /\ Len(nums) = Len(s)
      /\ row \in Seq(Int) /\ arg.to \in Int
      /\ Scan(pc, arg.to, cur, prev, s, nums, row)
      /\ nums[p] = arg.to /\ cur' = IF p = Len(s) THEN NULL ELSE s[p + 1]
  BY <1>1, <1>2, <1>3, ScanFacts
<1> HIDE DEF s, nums, row
<1>5. prev' = IF prev = cur THEN cur' ELSE prev
  BY <1>1
<1>6. Scan(pc, arg.to, cur', prev', Without(s, p), Without(nums, p), row)
  BY <1>3, <1>4, <1>5, ScanDrop
<1> QED
  BY <1>1, <1>3, <1>6, ScanStep DEF row

LEMMA StepKeep ==
  ASSUME IInv, Progress, Keep
  PROVE  Progress' /\ AbstractStep
<1>1. /\ Scanning /\ heap[cur].number # arg.to /\ cur' = heap[cur].next /\ prev' = cur
      /\ UNCHANGED <<pc, arg, i, before>> /\ DOMAIN vertices' = DOMAIN vertices
  BY DEF Keep
<1> DEFINE s == Chains[i]
           nums == Ends[i]
           row == Source(i)
<1>2. Chains'[i] = s
  BY ListsKeep
<1>3. PICK p \in 1 .. Len(s) : /\ cur = s[p]
                               /\ RowBecomes(i, [nums EXCEPT ![p] = Renumbered(pc, @, arg.to)])
  BY ListsKeep
<1>4. /\ s \in Seq(Cells) /\ Distinct(s) /\ Len(nums) = Len(s)
      /\ row \in Seq(Int) /\ arg.to \in Int
      /\ Scan(pc, arg.to, cur, prev, s, nums, row)
      /\ nums[p] # arg.to /\ cur' = IF p = Len(s) THEN NULL ELSE s[p + 1]
  BY <1>1, <1>3, ScanFacts
<1> DEFINE nums2 == [nums EXCEPT ![p] = Renumbered(pc, nums[p], arg.to)]
<1> HIDE DEF s, nums, row
<1>5. Scan(pc, arg.to, cur', cur, s, nums2, row)
  BY <1>3, <1>4, ScanKeep
<1>6. RowBecomes(i, nums2)
  BY <1>3
<1> HIDE DEF nums2
<1> QED
  BY <1>1, <1>2, <1>5, <1>6, ScanStep DEF row

\* A scan starts with the list of a vertex that has its old row.
LEMMA ScanBegins ==
  ASSUME RowsSound, pc \notin {"free_row", "delete"}, NEW v \in DOMAIN vertices,
         NEW loop, NEW end \in Int
  PROVE  Scan(loop, end, vertices[v], vertices[v], Chains[v], Ends[v], Ends[v])
<1>1. Linked(heap, Chains[v], Heads[v]) /\ Ends[v] \in Seq(Int) /\ Heads[v] = vertices[v]
  BY HeadsOf DEF RowsSound
<1>2. Len(Chains[v]) \in Nat
      /\ vertices[v] = IF Len(Chains[v]) = 0 THEN NULL ELSE Chains[v][1]
  BY <1>1 DEF Linked
<1> QED
  BY <1>1, <1>2, ScanStart

\* The same, said of the next state.
ScanReady ==
  pc \notin {"free_row", "delete"} =>
    \A v \in DOMAIN vertices : \A loop : \A end \in Int :
      Scan(loop, end, vertices[v], vertices[v], Chains[v], Ends[v], Ends[v])

LEMMA ReadyNext == RowsSound' => ScanReady'
<1>1. RowsSound => ScanReady
  BY ScanBegins DEF ScanReady
<1> QED
  BY <1>1, PTL

LEMMA StepRowEnds ==
  ASSUME IInv, IInv', Progress, RowEnds
  PROVE  Progress' /\ AbstractStep
<1>1. Scanning /\ cur = NULL /\ UNCHANGED <<vertices, heap, live>> /\ Heads' = Heads
  BY ListsRowEnds DEF RowEnds
<1>2. /\ i \in DOMAIN vertices /\ Working /\ pc # "idle"
      /\ DOMAIN vertices = 0 .. vernum - 1 /\ vernum \in Nat
  BY <1>1, Array DEF IInv, Shape, Scanning, Working
<1>3. Ends' = Ends /\ EndRows' = EndRows /\ vernum' = vernum /\ Chains' = Chains
  BY <1>1, SameLists
<1>4. Ends[i] = Done(pc, Source(i), arg.to, Len(Source(i)))
  BY <1>1, ScanFacts, ScanEnd
<1>5. /\ before \in Seq(Seq(Int))
      /\ Len(before) = (IF pc = "remove_vertex" THEN vernum + 1 ELSE vernum)
      /\ arg.to \in 0 .. Len(before) - 1
      /\ \A v \in DOMAIN vertices \ {i} :
           Ends[v] = IF pc = "remove_vertex" /\ v < i
                     THEN Done(pc, Source(v), arg.to, Len(Source(v))) ELSE Source(v)
  BY <1>2 DEF Progress
<1>6. /\ EndRows \in Seq(Seq(Int)) /\ Len(EndRows) = vernum
      /\ \A v \in DOMAIN vertices : EndRows[v + 1] = Ends[v]
  BY InvRows DEF RowsKnown
<1>7. Bar = before
  BY <1>2 DEF Bar
<1>8. CASE pc = "remove_edge"
  <2>1. Idle
    BY <1>1, <1>8 DEF RowEnds
  <2>2. Bar' = EndRows /\ pc' = "idle"
    BY <1>3, <2>1, BarIdleNext DEF Idle
  <2>3. i = arg.from
    BY <1>2, <1>8 DEF Progress
  <2>4. Ends[i] = Kept(before[i + 1], arg.to, Len(before[i + 1]))
    BY <1>4, <1>8 DEF Source, Done
  <2>5. EndRows = [before EXCEPT ![i + 1] = Ends[i]]
    <3> DEFINE b2 == [before EXCEPT ![i + 1] = Ends[i]]
    <3>1. ASSUME NEW k \in 1 .. vernum PROVE EndRows[k] = b2[k]
      <4>1. k - 1 \in DOMAIN vertices /\ (k - 1) + 1 = k /\ (k - 1 = i <=> k = i + 1)
        BY <1>2
      <4>2. EndRows[k] = Ends[k - 1]
        BY <1>6, <4>1
      <4>3. CASE k = i + 1
        BY <1>5, <1>8, <4>1, <4>2, <4>3
      <4>4. CASE k # i + 1
        <5>1. Ends[k - 1] = Source(k - 1)
          BY <1>5, <1>8, <4>1, <4>4
        <5>2. Source(k - 1) = before[k]
          BY <1>8, <4>1 DEF Source
        <5> QED
          BY <1>5, <1>8, <4>2, <4>4, <5>1, <5>2
      <4> QED
        BY <4>3, <4>4
    <3>2. DOMAIN b2 = 1 .. vernum /\ b2 = [k \in 1 .. vernum |-> b2[k]]
      <4>1. DOMAIN before = 1 .. vernum
        BY <1>5, <1>8
      <4>2. DOMAIN b2 = DOMAIN before /\ b2 = [k \in DOMAIN before |-> b2[k]]
        OBVIOUS
      <4> QED
        BY <4>1, <4>2
    <3>3. EndRows = [k \in 1 .. vernum |-> EndRows[k]]
      BY <1>6
    <3> HIDE DEF b2
    <3>4. EndRows = b2
      BY <3>1, <3>2, <3>3
    <3> QED
      BY <3>4 DEF b2
  <2>6. arg.from \in Abstract!VerticesOf(Bar) /\ arg.to \in Abstract!VerticesOf(Bar)
    BY <1>2, <1>5, <1>7, <1>8, <2>3 DEF Abstract!VerticesOf
  <2>7. Abstract!remove_edge(arg.from, arg.to)
    BY <1>7, <2>2, <2>3, <2>4, <2>5 DEF Abstract!remove_edge, Bar, Kept
  <2> QED
    BY <2>2, <2>6, <2>7, NoProgress DEF AbstractStep, Abstract!Next, Bar
<1>9. CASE pc = "remove_vertex" /\ i + 1 \in DOMAIN vertices
  <2>1. /\ pc' = pc /\ i' = i + 1 /\ cur' = vertices[i + 1] /\ prev' = vertices[i + 1]
        /\ arg' = arg /\ before' = before
    BY <1>1, <1>9 DEF RowEnds, StartRow
  <2>2. \A v \in DOMAIN vertices : Source(v)' = Source(v)
    BY <2>1 DEF Source
  <2>3. Source(i)' = Source(i + 1)
    BY <2>1 DEF Source
  <2>4. ASSUME NEW v \in DOMAIN vertices \ {i + 1}
        PROVE  Ends[v] = IF v < i + 1 THEN Done(pc, Source(v), arg.to, Len(Source(v)))
                                      ELSE Source(v)
    <3>1. (v < i + 1 <=> v < i \/ v = i) /\ v \in DOMAIN vertices
      BY <1>2
    <3>2. CASE v = i
      BY <1>4, <3>1, <3>2
    <3>3. CASE v # i
      BY <1>5, <1>9, <3>1, <3>3
    <3> QED
      BY <3>2, <3>3
  <2>5. Ends[i + 1] = Source(i + 1)
    <3>1. ~(i + 1 < i) /\ i + 1 # i
      BY <1>2
    <3> QED
      BY <1>5, <1>9, <3>1
  <2>6. Scan(pc, arg.to, cur, prev, Chains[i], Ends[i], Source(i))'
    <3>1. arg.to \in Int
      BY <1>5
    <3>2. RowsSound
      BY InvRows
    <3>3. Scan(pc, arg.to, vertices[i + 1], vertices[i + 1], Chains[i + 1], Ends[i + 1], Ends[i + 1])
      BY <1>9, <3>1, <3>2, ScanBegins
    <3> QED
      BY <1>3, <2>1, <2>3, <2>5, <3>3
  <2>7. Progress'
    BY <1>1, <1>3, <1>5, <1>9, <2>1, <2>2, <2>4, <2>6 DEF Progress
  <2>8. Bar' = Bar
    BY <1>2, <2>1 DEF Bar
  <2> QED
    BY <2>7, <2>8 DEF AbstractStep
<1>10. CASE pc = "remove_vertex" /\ i + 1 \notin DOMAIN vertices
  <2>1. Idle
    BY <1>1, <1>10 DEF RowEnds, StartRow
  <2>2. Bar' = EndRows /\ pc' = "idle"
    BY <1>3, <2>1, BarIdleNext DEF Idle
  <2> DEFINE others == [k \in 1 .. vernum |-> before[IF k <= arg.to THEN k ELSE k + 1]]
  <2>3. ASSUME NEW k \in 1 .. vernum
        PROVE  EndRows[k] = Moved(Kept(others[k], arg.to, Len(others[k])), arg.to)
    <3>1. /\ k - 1 \in DOMAIN vertices /\ (k - 1) + 1 = k /\ (k - 1) + 2 = k + 1
          /\ (k - 1 < i \/ k - 1 = i) /\ (k - 1 >= arg.to <=> ~(k <= arg.to))
      <4>1. i \in 0 .. vernum - 1 /\ ~(i + 1 \in 0 .. vernum - 1)
        BY <1>2, <1>10
      <4>2. arg.to \in Int /\ vernum \in Nat
        BY <1>2, <1>5
      <4>3. (k - 1 >= arg.to <=> ~(k <= arg.to)) /\ (k - 1 < i \/ k - 1 = i)
        BY <4>1, <4>2
      <4> QED
        BY <1>2, <4>3
    <3>2. Ends[k - 1] = Done(pc, Source(k - 1), arg.to, Len(Source(k - 1)))
      BY <1>4, <1>5, <1>10, <3>1
    <3>3. Source(k - 1) = others[k]
      BY <1>10, <3>1 DEF Source
    <3>4. EndRows[k] = Ends[k - 1]
      BY <1>6, <3>1
    <3> HIDE DEF others
    <3> QED
      BY <1>10, <3>2, <3>3, <3>4 DEF Done
  <2>4. EndRows = [k \in DOMAIN others |-> Moved(Kept(others[k], arg.to, Len(others[k])), arg.to)]
    <3>1. DOMAIN others = 1 .. vernum
      OBVIOUS
    <3>2. EndRows = [k \in 1 .. vernum |-> EndRows[k]]
      BY <1>6
    <3> HIDE DEF others
    <3> QED
      BY <2>3, <3>1, <3>2
  <2>5. Len(before) - 1 = vernum /\ arg.to \in 0 .. Len(before) - 1
    BY <1>2, <1>5, <1>10
  <2>6. others = [k \in 1 .. Len(before) - 1 |-> before[IF k <= arg.to THEN k ELSE k + 1]]
    BY <2>5
  <2> HIDE DEF others
  <2>7. Abstract!remove_vertex(arg.to)
    BY <1>7, <2>2, <2>4, <2>6 DEF Abstract!remove_vertex, Bar, Kept, Moved
  <2> QED
    BY <1>7, <2>2, <2>5, <2>7, NoProgress DEF AbstractStep, Abstract!Next, Abstract!VerticesOf, Bar
<1> QED
  BY <1>1, <1>8, <1>9, <1>10 DEF Scanning

\* The list is gone, and the array moves up.
LEMMA StepFreeRow ==
  ASSUME IInv, IInv', Progress, FreeRow, prev = NULL
  PROVE  Progress' /\ AbstractStep
<1>1. /\ pc = "free_row" /\ i = arg.to /\ i \in DOMAIN vertices
      /\ vertices' = [v \in 0 .. vernum - 2 |-> vertices[IF v < i THEN v ELSE v + 1]]
      /\ StartRow("remove_vertex", 0, vertices')
      /\ UNCHANGED <<heap, live>>
  BY DEF FreeRow, IInv, Shape
<1>2. DOMAIN vertices = 0 .. vernum - 1 /\ vernum \in Nat /\ i \in 0 .. vernum - 1
  BY <1>1, Array DEF IInv
<1>3. DOMAIN vertices' = 0 .. vernum - 2 /\ vernum' = vernum - 1
  <2>1. DOMAIN vertices' = 0 .. (vernum - 1) - 1 /\ vernum - 1 \in Nat
    BY <1>1, <1>2
  <2> QED
    BY <1>1, <2>1, CountOf DEF vernum
<1>4. pc' \in {"idle", "remove_vertex"}
  BY <1>1 DEF StartRow, Idle
<1>5. /\ before \in Seq(Seq(Int)) /\ Len(before) = vernum
      /\ \A v \in DOMAIN vertices \ {i} : Ends[v] = before[v + 1]
  BY <1>1, SourceOf
<1>6. ASSUME NEW v \in DOMAIN vertices'
      PROVE  Ends'[v] = before[IF v >= i THEN v + 2 ELSE v + 1]
  <2> DEFINE w == IF v < i THEN v ELSE v + 1
  <2>1. w \in DOMAIN vertices \ {i} /\ w + 1 = IF v >= i THEN v + 2 ELSE v + 1
    BY <1>2, <1>3, <1>6
  <2>2. Heads'[v] = vertices[w]
    BY <1>1, <1>4, <1>6 DEF Heads
  <2>3. Heads[w] = vertices[w]
    BY <1>1, <2>1 DEF Heads
  <2> HIDE DEF w
  <2>4. Chains'[v] = Chains[w]
    BY <1>1, <1>6, <2>1, <2>2, <2>3 DEF Chains, Chain
  <2>5. Ends'[v] = Ends[w]
    BY <1>1, <1>6, <2>1, <2>4 DEF Ends
  <2> QED
    BY <1>5, <2>1, <2>5
<1>7. CASE 0 \in DOMAIN vertices'
  <2>1. /\ pc' = "remove_vertex" /\ i' = 0 /\ cur' = vertices'[0] /\ prev' = vertices'[0]
        /\ arg' = arg /\ before' = before
    BY <1>1, <1>7 DEF StartRow
  <2>2. \A v \in DOMAIN vertices' : Source(v)' = Ends'[v]
    BY <1>1, <1>6, <2>1 DEF Source
  <2>3. Source(i)' = Ends'[0]
    BY <1>1, <1>6, <1>7, <2>1 DEF Source
  <2>4. arg.to \in 0 .. Len(before) - 1 /\ arg.to \in Int /\ Len(before) = vernum' + 1
    BY <1>1, <1>2, <1>3, <1>5
  <2>5. Scan(pc', arg.to, vertices'[0], vertices'[0], Chains'[0], Ends'[0], Ends'[0])
    <3>1. ScanReady'
      BY InvRowsNext, ReadyNext
    <3> QED
      BY <1>7, <2>1, <2>4, <3>1 DEF ScanReady
  <2>6. \A v \in DOMAIN vertices' : ~(v < 0)
    BY <1>2, <1>3
  <2>7. Progress'
    BY <1>5, <2>1, <2>2, <2>3, <2>4, <2>5, <2>6 DEF Progress
  <2>8. Bar' = Bar
    BY <1>1, <2>1 DEF Bar
  <2> QED
    BY <2>7, <2>8 DEF AbstractStep
<1>8. CASE 0 \notin DOMAIN vertices'
  <2>1. Idle /\ vernum = 1 /\ vernum' = 0
    BY <1>1, <1>2, <1>3, <1>8 DEF StartRow
  <2>2. Bar' = <<>> /\ pc' = "idle"
    <3>1. EndRows' = <<>>
      BY <2>1 DEF EndRows
    <3> QED
      BY <2>1, <3>1, BarIdleNext DEF Idle
  <2>3. Bar = before /\ Len(Bar) = 1 /\ arg.to \in 0 .. Len(Bar) - 1
    BY <1>1, <1>2, <1>5, <2>1 DEF Bar
  <2> DEFINE others == [k \in 1 .. Len(before) - 1 |-> before[IF k <= arg.to THEN k ELSE k + 1]]
             left == [k \in DOMAIN others |->
                        Abstract!Moved(Abstract!Kept(others[k], arg.to, Len(others[k])), arg.to)]
  <2>4. Abstract!remove_vertex(arg.to)
    <3>1. 1 .. Len(before) - 1 = {}
      BY <2>3
    <3>2. DOMAIN left = {}
      BY <3>1
    <3>3. left = <<>>
      <4> HIDE DEF others
      <4> QED
        BY <3>2
    <3>4. Bar' = left
      BY <2>2, <3>3
    <3> QED
      BY <2>3, <3>4 DEF Abstract!remove_vertex, Bar
  <2> QED
    BY <2>2, <2>3, <2>4, NoProgress DEF AbstractStep, Abstract!Next, Abstract!VerticesOf, Bar
<1> QED
  BY <1>7, <1>8

LEMMA StepDelete ==
  ASSUME IInv, DeleteStep
  PROVE  Progress' /\ AbstractStep
<1>1. DOMAIN vertices = 0 .. vernum - 1 /\ vernum \in Nat /\ i \in Nat
  BY Array DEF IInv, Shape
<1>2. pc = "delete" /\ pc' \in {"delete", "deleted"} /\ before' = before
  <2>1. CASE prev # NULL
    BY <2>1 DEF DeleteStep
  <2>2. CASE prev = NULL /\ i + 1 < vernum
    <3>1. i + 1 \in DOMAIN vertices
      BY <1>1, <2>2
    <3> QED
      BY <2>2, <3>1 DEF DeleteStep, StartRow
  <2>3. CASE prev = NULL /\ ~(i + 1 < vernum)
    BY <2>3 DEF DeleteStep
  <2> QED
    BY <2>1, <2>2, <2>3
<1>3. Bar' = Bar
  BY <1>2 DEF Bar
<1> QED
  BY <1>2, <1>3, NoProgress DEF AbstractStep

-----------------------------------------------------------------------------
(* The theorem of the refinement.                                          *)

LEMMA ProgressInit == IInv /\ Init => Progress /\ Abstract!Init
<1> SUFFICES ASSUME IInv, Init PROVE Progress /\ Abstract!Init
  OBVIOUS
<1>1. pc = "idle"
  BY DEF Init
<1>2. Progress
  BY <1>1 DEF Progress, Working
<1>3. Chain(NULL) = <<>> /\ Numbers(heap, <<>>) = <<>>
  BY NoCells, ChainOfLinked DEF Chain, Numbers
<1>4. ASSUME NEW v \in DOMAIN vertices PROVE Ends[v] = <<>>
  <2>1. vertices[v] = NULL
    BY DEF Init
  <2>2. Heads[v] = NULL
    BY <1>1, <2>1, HeadsOf
  <2>3. Chains[v] = <<>>
    BY <1>3, <2>2 DEF Chains
  <2> QED
    BY <1>3, <2>3 DEF Ends
<1>5. Bar \in Seq({<<>>})
  <2>1. Bar = EndRows /\ EndRows = [k \in 1 .. vernum |-> Ends[k - 1]]
    BY <1>1, BarIdle DEF EndRows
  <2>2. DOMAIN vertices = 0 .. vernum - 1 /\ vernum \in Nat
    BY Array DEF IInv
  <2>3. \A k \in 1 .. vernum : Ends[k - 1] = <<>>
    <3>1. \A k \in 1 .. vernum : k - 1 \in DOMAIN vertices
      BY <2>2
    <3> QED
      BY <1>4, <3>1
  <2> QED
    BY <2>1, <2>2, <2>3
<1> QED
  BY <1>2, <1>5 DEF Abstract!Init, Bar

LEMMA ProgressKeeps == IInv /\ IInv' /\ Progress /\ [Next]_vars => Progress' /\ AbstractStep
<1> SUFFICES ASSUME IInv, IInv', Progress, [Next]_vars PROVE Progress' /\ AbstractStep
  OBVIOUS
<1>1. \A v \in DOMAIN vertices : v \in Nat
  BY Array DEF IInv
<1>2. CASE add_vertex
  BY <1>2, StepAddVertex
<1>3. ASSUME NEW from \in DOMAIN vertices, NEW to \in DOMAIN vertices, add_edge(from, to)
      PROVE  Progress' /\ AbstractStep
  <2>1. CASE vertices[from] = NULL
    BY <1>3, <2>1, StepFirstEdge
  <2>2. CASE vertices[from] # NULL
    <3>1. Call("append", from, to) /\ UNCHANGED <<vertices, heap, live>>
      BY <1>3, <2>2 DEF add_edge
    <3>2. Heads' = Heads
      BY <1>1, <2>2, <3>1, ListsCall
    <3> QED
      BY <3>1, <3>2, StepCall
  <2> QED
    BY <2>1, <2>2
<1>4. ASSUME NEW from \in DOMAIN vertices, NEW to \in DOMAIN vertices, remove_edge(from, to)
      PROVE  Progress' /\ AbstractStep
  <2>1. Call("remove_edge", from, to) /\ UNCHANGED <<vertices, heap, live>>
    BY <1>4 DEF remove_edge
  <2>2. Heads' = Heads
    BY <1>1, <2>1, ListsCall
  <2> QED
    BY <2>1, <2>2, StepCall
<1>5. ASSUME NEW vertex \in DOMAIN vertices, remove_vertex(vertex)
      PROVE  Progress' /\ AbstractStep
  <2>1. Call("free_row", vertex, vertex) /\ UNCHANGED <<vertices, heap, live>>
    BY <1>5 DEF remove_vertex
  <2>2. Heads' = Heads
    BY <1>1, <2>1, ListsCall
  <2> QED
    BY <2>1, <2>2, StepCall
<1>6. CASE delete_graph
  <2>1. 0 \in DOMAIN vertices /\ Call("delete", 0, 0) /\ UNCHANGED <<vertices, heap, live>>
    BY <1>6, Array DEF delete_graph, IInv
  <2>2. Heads' = Heads
    BY <1>1, <2>1, ListsCall
  <2> QED
    BY <2>1, <2>2, StepCall
<1>7. CASE FreeRow
  BY <1>7, StepFree, StepFreeRow
<1>8. CASE AppendStep \/ UnlinkFirst \/ UnlinkLater \/ Keep \/ RowEnds \/ DeleteStep
  BY <1>8, StepAppend, StepUnlinkFirst, StepUnlinkLater, StepKeep, StepRowEnds, StepDelete
<1>9. CASE UNCHANGED vars
  <2>1. UNCHANGED <<vertices, heap, live, pc, arg, i, cur, prev, before>>
    BY <1>9 DEF vars
  <2>2. Heads' = Heads
    BY <2>1 DEF Heads
  <2>3. Chains' = Chains /\ Ends' = Ends /\ vernum' = vernum
    BY <2>1, <2>2, SameLists
  <2>4. Source(i)' = Source(i) /\ \A v \in DOMAIN vertices : Source(v)' = Source(v)
    BY <2>1 DEF Source
  <2>5. Progress'
    BY <2>1, <2>3, <2>4 DEF Progress, Working, Scanning
  <2>6. Bar' = Bar
    BY <2>1, <2>3 DEF Bar, Rows, Row, Chain
  <2> QED
    BY <2>5, <2>6 DEF AbstractStep
<1> QED
  BY <1>2, <1>3, <1>4, <1>5, <1>6, <1>7, <1>8, <1>9 DEF Next

\* Seen from outside its calls, the library does to lists of edge ends what
\* graphs.h says, on every graph, heap and sequence of calls.
THEOREM ImplementsEdgeListsAlways == Spec => ImplementsEdgeLists
<1>1. Init => IInv
  BY InvInit
<1>2. IInv /\ [Next]_vars => IInv'
  BY InvKeeps
<1>3. IInv /\ Init => Progress /\ Abstract!Init
  BY ProgressInit
<1>4. IInv /\ IInv' /\ Progress /\ [Next]_vars => Progress' /\ AbstractStep
  BY ProgressKeeps
<1>5. AbstractStep <=> [Abstract!Next]_(IF pc = "idle" THEN Rows ELSE before)
  BY DEF AbstractStep, Bar
<1> QED
  BY <1>1, <1>2, <1>3, <1>4, <1>5, PTL DEF Spec, ImplementsEdgeLists

-----------------------------------------------------------------------------
(* Loops.                                                                  *)

\* Induction over the turns of a loop.
LEMMA Turn ==
  ASSUME NEW n \in Nat, NEW good, 0 \in good, \A k \in 1 .. n : k - 1 \in good => k \in good
  PROVE  \A k \in 0 .. n : k \in good
<1> DEFINE bad == {k \in 0 .. n : k \notin good}
<1> SUFFICES ASSUME bad # {} PROVE FALSE
  OBVIOUS
<1>1. bad \subseteq Nat
  OBVIOUS
<1>2. PICK m : m \in bad /\ \A l \in bad : m <= l
  <2> HIDE DEF bad
  <2> QED
    BY <1>1, MinOfNaturals
<1>3. m \in 0 .. n /\ m \notin good /\ m # 0
  BY <1>2
<1>4. m \in 1 .. n /\ m - 1 \in 0 .. n /\ ~(m <= m - 1)
  BY <1>3
<1>5. m - 1 \notin bad
  <2> HIDE DEF bad
  <2> QED
    BY <1>2, <1>4
<1> QED
  BY <1>3, <1>4, <1>5

\* The states of a loop, as a function of the turn: a start and what each
\* turn does.
Turned(f, S, n, step, start) ==
  f \in [0 .. n -> S] /\ f[0] = start /\ \A k \in 1 .. n : f[k] = step[k][f[k - 1]]

LEMMA Turns ==
  ASSUME NEW S, NEW n \in Nat, NEW step \in [1 .. n -> [S -> S]], NEW start \in S
  PROVE  \E f : Turned(f, S, n, step, start)
<1> DEFINE To(m, f) == f \in [0 .. m -> S] /\ f[0] = start /\ \A k \in 1 .. m : f[k] = step[k][f[k - 1]]
           good == {m \in 0 .. n : \E f : To(m, f)}
<1>1. 0 \in good
  <2> DEFINE f == [k \in 0 .. 0 |-> start]
  <2>1. To(0, f)
    OBVIOUS
  <2> HIDE DEF To, f
  <2>2. \E g : To(0, g)
    BY <2>1
  <2> QED
    BY <2>2
<1>2. ASSUME NEW m \in 1 .. n, m - 1 \in good PROVE m \in good
  <2>1. m - 1 \in 0 .. m - 1 /\ m \in 0 .. n
    OBVIOUS
  <2>2. PICK g : To(m - 1, g)
    <3> HIDE DEF To
    <3> QED
      BY <1>2
  <2> DEFINE f == [k \in 0 .. m |-> IF k = m THEN step[m][g[m - 1]] ELSE g[k]]
  <2>3. step[m][g[m - 1]] \in S
    BY <2>1, <2>2
  <2>4. f \in [0 .. m -> S]
    BY <2>1, <2>2, <2>3
  <2>5. f[0] = start
    BY <2>1, <2>2
  <2>6. ASSUME NEW k \in 1 .. m PROVE f[k] = step[k][f[k - 1]]
    <3>1. k - 1 \in 0 .. m /\ k - 1 # m /\ k \in 0 .. m /\ f[k - 1] = g[k - 1]
      OBVIOUS
    <3>2. k # m => k \in 1 .. m - 1 /\ f[k] = g[k]
      OBVIOUS
    <3>3. k = m => f[k] = step[m][g[m - 1]]
      OBVIOUS
    <3> HIDE DEF f
    <3> QED
      BY <2>2, <3>1, <3>2, <3>3
  <2>7. To(m, f)
    BY <2>4, <2>5, <2>6
  <2> HIDE DEF To, f
  <2>8. \E h : To(m, h)
    BY <2>7
  <2> QED
    BY <2>1, <2>8
<1>3. n \in good
  <2> HIDE DEF good
  <2>1. \A k \in 0 .. n : k \in good
    BY <1>1, <1>2, Turn
  <2>2. n \in 0 .. n
    OBVIOUS
  <2> QED
    BY <2>1, <2>2
<1>4. \E f : To(n, f)
  <2> HIDE DEF To
  <2> QED
    BY <1>3
<1> QED
  BY <1>4 DEF Turned

\* What Total returns, by the sums it passes.
LEMMA TotalIs ==
  ASSUME NEW terms, NEW n \in Nat, Len(terms) = n,
         NEW s, s[0] = 0, \A k \in 1 .. n : s[k] = s[k - 1] + terms[k]
  PROVE  Total(terms) = s[n]
<1> DEFINE Sum(f, k) == IF k = 0 THEN 0 ELSE f[k - 1] + terms[k]
           sum == CHOOSE f : f = [k \in 0 .. n |-> Sum(f, k)]
<1>1. Total(terms) = sum[n]
  BY DEF Total
<1> DEFINE t == [k \in 0 .. n |-> s[k]]
<1>2. sum = [k \in 0 .. n |-> Sum(sum, k)]
  <2>1. ASSUME NEW k \in 0 .. n PROVE t[k] = Sum(t, k)
    <3>1. k # 0 => k \in 1 .. n /\ k - 1 \in 0 .. n
      OBVIOUS
    <3> QED
      BY <3>1
  <2>2. t = [k \in 0 .. n |-> Sum(t, k)]
    BY <2>1
  <2> QED
    BY <2>2
<1> HIDE DEF sum, t
<1> DEFINE good == {k \in 0 .. n : sum[k] = s[k]}
<1>3. 0 \in good
  BY <1>2
<1>4. ASSUME NEW k \in 1 .. n PROVE k - 1 \in good => k \in good
  <2>1. k \in 0 .. n /\ k # 0
    OBVIOUS
  <2>2. sum[k] = sum[k - 1] + terms[k]
    BY <1>2, <2>1
  <2> QED
    BY <2>1, <2>2
<1>5. n \in good
  <2> HIDE DEF good
  <2>1. \A k \in 0 .. n : k \in good
    BY <1>3, <1>4, Turn
  <2>2. n \in 0 .. n
    OBVIOUS
  <2> QED
    BY <2>1, <2>2
<1> QED
  BY <1>1, <1>5

-----------------------------------------------------------------------------
(* The ways that way_count counts in one of its calls.                     *)

\* The k-th vertex of a way.
Stop(h, to, k) == IF k <= Len(h) THEN h[k][1] ELSE to

Hops(rows) == (0 .. Len(rows) - 1) \X Nat

\* A way from v that comes to no vertex twice, and to none that is marked.
IsRoute(rows, h, v, to, control) ==
  /\ Stop(h, to, 1) = v
  /\ \A k \in 1 .. Len(h) : /\ h[k][2] \in 1 .. Len(rows[h[k][1] + 1])
                            /\ rows[h[k][1] + 1][h[k][2]] = Stop(h, to, k + 1)
  /\ \A j, k \in 1 .. Len(h) + 1 : Stop(h, to, j) = Stop(h, to, k) => j = k
  /\ \A k \in 2 .. Len(h) + 1 : Stop(h, to, k) \notin control

Routes(rows, v, to, control) == {h \in Seq(Hops(rows)) : IsRoute(rows, h, v, to, control)}

Prepend(d, h) == [k \in 1 .. Len(h) + 1 |-> IF k = 1 THEN d ELSE h[k - 1]]
Rest(h) == [k \in 1 .. Len(h) - 1 |-> h[k + 1]]

LEMMA PrependIs ==
  ASSUME NEW S, NEW d \in S, NEW h \in Seq(S)
  PROVE  /\ Prepend(d, h) \in Seq(S) /\ Len(Prepend(d, h)) = Len(h) + 1
         /\ Prepend(d, h)[1] = d
         /\ \A k \in 1 .. Len(h) : Prepend(d, h)[k + 1] = h[k]
<1>1. Len(h) \in Nat /\ h \in [1 .. Len(h) -> S]
  OBVIOUS
<1>2. \A k \in 1 .. Len(h) + 1 : k # 1 => k - 1 \in 1 .. Len(h)
  BY <1>1
<1>3. Prepend(d, h) \in [1 .. Len(h) + 1 -> S]
  BY <1>1, <1>2 DEF Prepend
<1>4. Len(Prepend(d, h)) = Len(h) + 1 /\ Prepend(d, h) \in Seq(S)
  BY <1>1, <1>3
<1>5. Prepend(d, h)[1] = d
  BY <1>1 DEF Prepend
<1>6. ASSUME NEW k \in 1 .. Len(h) PROVE Prepend(d, h)[k + 1] = h[k]
  <2>1. k + 1 \in 1 .. Len(h) + 1 /\ k + 1 # 1 /\ k + 1 - 1 = k
    BY <1>1
  <2> QED
    BY <2>1 DEF Prepend
<1> QED
  BY <1>4, <1>5, <1>6

LEMMA RestIs ==
  ASSUME NEW S, NEW h \in Seq(S), Len(h) # 0
  PROVE  /\ Rest(h) \in Seq(S) /\ Len(Rest(h)) = Len(h) - 1 /\ h[1] \in S
         /\ \A k \in 1 .. Len(h) - 1 : Rest(h)[k] = h[k + 1]
         /\ Prepend(h[1], Rest(h)) = h
<1>1. Len(h) \in Nat \ {0} /\ h \in [1 .. Len(h) -> S]
  OBVIOUS
<1>2. \A k \in 1 .. Len(h) - 1 : k + 1 \in 1 .. Len(h)
  BY <1>1
<1>3. Rest(h) \in [1 .. Len(h) - 1 -> S] /\ Len(h) - 1 \in Nat
  BY <1>1, <1>2 DEF Rest
<1>4. Len(Rest(h)) = Len(h) - 1 /\ Rest(h) \in Seq(S)
  BY <1>3
<1>5. \A k \in 1 .. Len(h) - 1 : Rest(h)[k] = h[k + 1]
  BY DEF Rest
<1>6. h[1] \in S
  BY <1>1
<1>7. Prepend(h[1], Rest(h)) = h
  <2>1. Len(Rest(h)) + 1 = Len(h)
    BY <1>1, <1>4
  <2>2. \A k \in 1 .. Len(h) : (IF k = 1 THEN h[1] ELSE Rest(h)[k - 1]) = h[k]
    <3>1. \A k \in 1 .. Len(h) : k # 1 => k - 1 \in 1 .. Len(h) - 1 /\ (k - 1) + 1 = k
      BY <1>1
    <3> QED
      BY <1>5, <3>1
  <2>3. Prepend(h[1], Rest(h)) = [k \in 1 .. Len(h) |-> h[k]]
    BY <2>1, <2>2 DEF Prepend
  <2> QED
    BY <1>1, <2>3
<1> QED
  BY <1>4, <1>5, <1>6, <1>7

\* The stops of a way with one more edge in front.
LEMMA PrependStops ==
  ASSUME NEW S, NEW d \in S, NEW h \in Seq(S), NEW to
  PROVE  /\ Stop(Prepend(d, h), to, 1) = d[1]
         /\ \A k \in Nat \ {0} : Stop(Prepend(d, h), to, k + 1) = Stop(h, to, k)
<1>1. /\ Len(h) \in Nat /\ Len(Prepend(d, h)) = Len(h) + 1 /\ Prepend(d, h)[1] = d
      /\ \A k \in 1 .. Len(h) : Prepend(d, h)[k + 1] = h[k]
  <2>1. Len(h) \in Nat
    OBVIOUS
  <2>2. /\ Len(Prepend(d, h)) = Len(h) + 1 /\ Prepend(d, h)[1] = d
        /\ \A k \in 1 .. Len(h) : Prepend(d, h)[k + 1] = h[k]
    BY PrependIs, SMTT(30)
  <2> QED
    BY <2>1, <2>2, Zenon
<1>2. Stop(Prepend(d, h), to, 1) = d[1]
  BY <1>1 DEF Stop
<1>3. ASSUME NEW k \in Nat \ {0} PROVE Stop(Prepend(d, h), to, k + 1) = Stop(h, to, k)
  <2>1. k + 1 <= Len(h) + 1 <=> k <= Len(h)
    BY <1>1
  <2>2. k <= Len(h) => k \in 1 .. Len(h)
    BY <1>1
  <2> QED
    BY <1>1, <2>1, <2>2 DEF Stop
<1> QED
  BY <1>2, <1>3

\* A way that starts with the p-th edge of v: what follows is a way of the
\* call for that edge, and the other way round.
LEMMA RoutePrepend ==
  ASSUME NEW rows, rows \in Seq(Seq(0 .. Len(rows) - 1)), NEW v \in 0 .. Len(rows) - 1,
         NEW to, NEW control, v # to,
         NEW p \in 1 .. Len(rows[v + 1]), NEW h \in Seq(Hops(rows))
  PROVE  IsRoute(rows, Prepend(<<v, p>>, h), v, to, control) <=>
           /\ rows[v + 1][p] \notin control \cup {v}
           /\ IsRoute(rows, h, rows[v + 1][p], to, control \cup {v})
<1> DEFINE x == rows[v + 1][p]
           d == <<v, p>>
           g == Prepend(d, h)
           n == Len(h)
<1>1. d \in Hops(rows) /\ d[1] = v /\ d[2] = p
  <2>1. Len(rows[v + 1]) \in Nat
    OBVIOUS
  <2> QED
    BY <2>1 DEF Hops
<1> HIDE DEF d
<1>2. /\ n \in Nat /\ Len(g) = n + 1
      /\ g[1] = d
      /\ \A k \in 1 .. n : g[k + 1] = h[k]
  <2> DEFINE S == Hops(rows)
  <2>1. h \in Seq(S) /\ d \in S
    BY <1>1
  <2> HIDE DEF S
  <2>2. Len(h) \in Nat
    BY <2>1
  <2>3. Len(g) = n + 1 /\ g[1] = d /\ \A k \in 1 .. n : g[k + 1] = h[k]
    BY <2>1, PrependIs
  <2> QED
    BY <2>2, <2>3
<1>3. Stop(g, to, 1) = v /\ \A k \in Nat \ {0} : Stop(g, to, k + 1) = Stop(h, to, k)
  <2>1. Stop(g, to, 1) = d[1]
    BY <1>1, PrependStops, ZenonT(40)
  <2>2. ASSUME NEW k \in Nat \ {0} PROVE Stop(g, to, k + 1) = Stop(h, to, k)
    BY <1>1, PrependStops, ZenonT(40)
  <2> QED
    BY <1>1, <2>1, <2>2, Zenon
<1> HIDE DEF g, n
<1>4. ASSUME IsRoute(rows, g, v, to, control)
      PROVE  x \notin control \cup {v} /\ IsRoute(rows, h, x, to, control \cup {v})
  <2>1. 1 \in 1 .. Len(g) /\ 1 + 1 = 2 /\ 1 \in Nat \ {0} /\ 2 \in 2 .. Len(g) + 1
        /\ {1, 2} \subseteq 1 .. Len(g) + 1
    BY <1>2
  <2>2. x = Stop(h, to, 1) /\ x = Stop(g, to, 2)
    <3>1. /\ rows[g[1][1] + 1][g[1][2]] = Stop(g, to, 1 + 1)
      BY <1>4, <2>1 DEF IsRoute
    <3>2. Stop(g, to, 1 + 1) = Stop(h, to, 1)
      BY <1>3, <2>1
    <3> QED
      BY <1>1, <1>2, <2>1, <3>1, <3>2
  <2>3. ASSUME NEW k \in 1 .. n + 1 PROVE Stop(h, to, k) \notin control \cup {v}
    <3>1. k \in Nat \ {0} /\ k + 1 \in 2 .. Len(g) + 1 /\ k + 1 \in 1 .. Len(g) + 1 /\ k + 1 # 1
      BY <1>2
    <3>2. Stop(g, to, k + 1) \notin control
      BY <1>4, <3>1 DEF IsRoute
    <3>3. Stop(g, to, k + 1) # Stop(g, to, 1)
      BY <1>4, <2>1, <3>1 DEF IsRoute
    <3> QED
      BY <1>3, <3>1, <3>2, <3>3
  <2>4. x \notin control \cup {v}
    <3>1. 1 \in 1 .. n + 1
      BY <1>2
    <3> QED
      BY <2>2, <2>3, <3>1
  <2>5. ASSUME NEW k \in 1 .. n
        PROVE  h[k][2] \in 1 .. Len(rows[h[k][1] + 1]) /\ rows[h[k][1] + 1][h[k][2]] = Stop(h, to, k + 1)
    <3>1. k + 1 \in 1 .. Len(g) /\ k + 1 \in Nat \ {0}
      BY <1>2
    <3>2. g[k + 1] = h[k] /\ Stop(g, to, k + 1 + 1) = Stop(h, to, k + 1)
      BY <1>2, <1>3, <3>1
    <3>3. /\ g[k + 1][2] \in 1 .. Len(rows[g[k + 1][1] + 1])
          /\ rows[g[k + 1][1] + 1][g[k + 1][2]] = Stop(g, to, k + 1 + 1)
      BY <1>4, <3>1 DEF IsRoute
    <3> QED
      BY <3>2, <3>3
  <2>6. ASSUME NEW j \in 1 .. n + 1, NEW k \in 1 .. n + 1, Stop(h, to, j) = Stop(h, to, k) PROVE j = k
    <3>1. j + 1 \in 1 .. Len(g) + 1 /\ k + 1 \in 1 .. Len(g) + 1 /\ j \in Nat \ {0} /\ k \in Nat \ {0}
      BY <1>2
    <3>2. Stop(g, to, j + 1) = Stop(g, to, k + 1)
      BY <1>3, <2>6, <3>1
    <3>3. j + 1 = k + 1
      BY <1>4, <3>1, <3>2 DEF IsRoute
    <3> QED
      BY <3>1, <3>3
  <2>7. \A k \in 2 .. n + 1 : k \in 1 .. n + 1
    BY <1>2
  <2> HIDE DEF x
  <2> QED
    BY <2>2, <2>3, <2>4, <2>5, <2>6, <2>7 DEF IsRoute, n
<1>5. ASSUME x \notin control \cup {v}, IsRoute(rows, h, x, to, control \cup {v})
      PROVE  IsRoute(rows, g, v, to, control)
  <2>1. ASSUME NEW k \in 2 .. n + 2
        PROVE  /\ k - 1 \in 1 .. n + 1 /\ Stop(g, to, k) = Stop(h, to, k - 1)
               /\ Stop(h, to, k - 1) \notin control \cup {v}
    <3>1. k - 1 \in 1 .. n + 1 /\ k - 1 \in Nat \ {0} /\ (k - 1) + 1 = k /\ (k - 1 = 1 \/ k - 1 \in 2 .. n + 1)
      BY <1>2
    <3>2. Stop(g, to, k) = Stop(h, to, k - 1)
      BY <1>3, <3>1
    <3>3. Stop(h, to, k - 1) \notin control \cup {v}
      <4>1. CASE k - 1 = 1
        BY <1>5, <4>1 DEF IsRoute
      <4>2. CASE k - 1 \in 2 .. n + 1
        BY <1>5, <4>2 DEF IsRoute, n
      <4> QED
        BY <3>1, <4>1, <4>2
    <3> QED
      BY <3>1, <3>2, <3>3
  <2>2. ASSUME NEW k \in 1 .. n + 1
        PROVE  g[k][2] \in 1 .. Len(rows[g[k][1] + 1]) /\ rows[g[k][1] + 1][g[k][2]] = Stop(g, to, k + 1)
    <3>1. CASE k = 1
      <4>1. 1 \in Nat \ {0} /\ 1 + 1 = k + 1
        BY <3>1
      <4>2. Stop(g, to, k + 1) = x
        BY <1>3, <1>5, <4>1 DEF IsRoute
      <4> QED
        BY <1>1, <1>2, <3>1, <4>2
    <3>2. CASE k # 1
      <4>1. k - 1 \in 1 .. n /\ (k - 1) + 1 = k /\ k \in Nat \ {0}
        BY <1>2, <3>2
      <4>2. g[k] = h[k - 1] /\ Stop(g, to, k + 1) = Stop(h, to, (k - 1) + 1)
        BY <1>2, <1>3, <4>1
      <4>3. /\ h[k - 1][2] \in 1 .. Len(rows[h[k - 1][1] + 1])
            /\ rows[h[k - 1][1] + 1][h[k - 1][2]] = Stop(h, to, (k - 1) + 1)
        BY <1>5, <4>1 DEF IsRoute, n
      <4> QED
        BY <4>2, <4>3
    <3> QED
      BY <3>1, <3>2
  <2>3. ASSUME NEW j \in 1 .. n + 2, NEW k \in 1 .. n + 2, Stop(g, to, j) = Stop(g, to, k) PROVE j = k
    <3>1. (j = 1 \/ j \in 2 .. n + 2) /\ (k = 1 \/ k \in 2 .. n + 2)
      BY <1>2
    <3>2. \A l \in 2 .. n + 2 : Stop(g, to, l) # v
      BY <2>1
    <3>3. CASE j = 1 \/ k = 1
      BY <1>3, <2>3, <3>1, <3>2, <3>3
    <3>4. CASE j \in 2 .. n + 2 /\ k \in 2 .. n + 2
      <4>1. j - 1 \in 1 .. n + 1 /\ k - 1 \in 1 .. n + 1 /\ Stop(h, to, j - 1) = Stop(h, to, k - 1)
        BY <2>1, <2>3, <3>4
      <4>2. j - 1 = k - 1
        BY <1>5, <4>1 DEF IsRoute, n
      <4> QED
        BY <4>2
    <3> QED
      BY <3>1, <3>3, <3>4
  <2>4. Len(g) + 1 = n + 2
    BY <1>2
  <2>5. \A k \in 2 .. n + 2 : Stop(g, to, k) \notin control
    BY <2>1
  <2> QED
    BY <1>1, <1>2, <1>3, <2>2, <2>3, <2>4, <2>5 DEF IsRoute
<1> QED
  BY <1>4, <1>5 DEF g, d

\* At the end of a way there is only the way without edges.
LEMMA RoutesThere ==
  ASSUME NEW rows, NEW to, NEW control
  PROVE  Routes(rows, to, to, control) = {<<>>}
<1>1. ASSUME NEW h \in Seq(Hops(rows)), IsRoute(rows, h, to, to, control) PROVE h = <<>>
  <2> DEFINE n == Len(h)
  <2>1. n \in Nat
    OBVIOUS
  <2>2. Stop(h, to, n + 1) = to
    <3>1. ~(n + 1 <= Len(h))
      BY <2>1
    <3> QED
      BY <3>1 DEF Stop
  <2>3. 1 \in 1 .. n + 1 /\ n + 1 \in 1 .. n + 1
    BY <2>1
  <2>4. n + 1 = 1
    BY <1>1, <2>2, <2>3 DEF IsRoute
  <2>5. n = 0
    BY <2>1, <2>4
  <2> QED
    BY <2>5
<1>2. <<>> \in Seq(Hops(rows)) /\ IsRoute(rows, <<>>, to, to, control)
  <2>1. Len(<<>>) = 0 /\ <<>> \in Seq(Hops(rows))
    OBVIOUS
  <2>2. Stop(<<>>, to, 1) = to
    BY <2>1 DEF Stop
  <2> QED
    BY <2>1, <2>2 DEF IsRoute
<1> QED
  BY <1>1, <1>2 DEF Routes

\* Any other way starts with an edge of its vertex.
LEMMA RouteStarts ==
  ASSUME NEW rows, NEW v, NEW to, NEW control, v # to, NEW h \in Routes(rows, v, to, control)
  PROVE  /\ Len(h) # 0 /\ h[1][1] = v /\ h[1] = <<v, h[1][2]>>
         /\ h[1][2] \in 1 .. Len(rows[v + 1])
         /\ Rest(h) \in Seq(Hops(rows)) /\ h = Prepend(<<v, h[1][2]>>, Rest(h))
<1>1. h \in Seq(Hops(rows)) /\ IsRoute(rows, h, v, to, control) /\ Len(h) \in Nat
  BY DEF Routes
<1>2. Len(h) # 0
  <2>1. Len(h) = 0 => Stop(h, to, 1) = to
    BY DEF Stop
  <2> QED
    BY <1>1, <2>1 DEF IsRoute
<1>3. 1 <= Len(h) /\ 1 \in 1 .. Len(h)
  BY <1>1, <1>2
<1>4. h[1][1] = v
  BY <1>1, <1>3 DEF IsRoute, Stop
<1>5. h[1][2] \in 1 .. Len(rows[h[1][1] + 1])
  BY <1>1, <1>3 DEF IsRoute
<1>6. h[1] \in Hops(rows) /\ Rest(h) \in Seq(Hops(rows)) /\ Prepend(h[1], Rest(h)) = h
  <2> DEFINE S == Hops(rows)
  <2>1. h \in Seq(S)
    BY <1>1
  <2> HIDE DEF S
  <2>2. h[1] \in S /\ Rest(h) \in Seq(S) /\ Prepend(h[1], Rest(h)) = h
    BY <1>2, <2>1, RestIs
  <2> QED
    BY <2>2 DEF S
<1>7. h[1] = <<v, h[1][2]>>
  <2>1. h[1] \in (0 .. Len(rows) - 1) \X Nat
    BY <1>6 DEF Hops
  <2> QED
    BY <1>4, <2>1
<1> QED
  BY <1>2, <1>4, <1>5, <1>6, <1>7

LEMMA PrependSame ==
  ASSUME NEW S, NEW d \in S, NEW g \in Seq(S), NEW h \in Seq(S)
  PROVE  Prepend(d, g) = Prepend(d, h) => g = h
<1>1. /\ Len(Prepend(d, g)) = Len(g) + 1
      /\ \A k \in 1 .. Len(g) : Prepend(d, g)[k + 1] = g[k]
  BY PrependIs
<1>2. /\ Len(Prepend(d, h)) = Len(h) + 1
      /\ \A k \in 1 .. Len(h) : Prepend(d, h)[k + 1] = h[k]
  BY PrependIs
<1>3. Len(g) \in Nat /\ Len(h) \in Nat
  OBVIOUS
<1>4. SUFFICES ASSUME Prepend(d, g) = Prepend(d, h) PROVE g = h
  OBVIOUS
<1>5. Len(g) = Len(h)
  BY <1>1, <1>2, <1>3, <1>4
<1>6. \A k \in 1 .. Len(g) : g[k] = h[k]
  BY <1>1, <1>2, <1>4, <1>5
<1> QED
  BY <1>5, <1>6, SeqEqual

\* The ways whose first edge is the p-th one.
StartWith(rows, v, to, control, p) == {h \in Routes(rows, v, to, control) : h[1][2] = p}

LEMMA RoutesByEdge ==
  ASSUME NEW rows, rows \in Seq(Seq(0 .. Len(rows) - 1)), NEW v \in 0 .. Len(rows) - 1,
         NEW to, NEW control, v # to,
         NEW p \in 1 .. Len(rows[v + 1])
  PROVE  /\ rows[v + 1][p] \in control \cup {v} => StartWith(rows, v, to, control, p) = {}
         /\ rows[v + 1][p] \notin control \cup {v} =>
              ExistsBijection(Routes(rows, rows[v + 1][p], to, control \cup {v}),
                              StartWith(rows, v, to, control, p))
<1> DEFINE x == rows[v + 1][p]
           nc == control \cup {v}
           d == <<v, p>>
           P(h) == Prepend(d, h)
<1>1. \A h \in Seq(Hops(rows)) :
        IsRoute(rows, P(h), v, to, control) <=> x \notin nc /\ IsRoute(rows, h, x, to, nc)
  BY RoutePrepend
<1>2. ASSUME NEW h \in StartWith(rows, v, to, control, p)
      PROVE  Rest(h) \in Seq(Hops(rows)) /\ h = P(Rest(h)) /\ IsRoute(rows, P(Rest(h)), v, to, control)
  <2>1. h \in Routes(rows, v, to, control) /\ h[1][2] = p
    BY DEF StartWith
  <2>2. Rest(h) \in Seq(Hops(rows)) /\ h = Prepend(<<v, h[1][2]>>, Rest(h))
    BY <2>1, RouteStarts
  <2>3. h = P(Rest(h)) /\ IsRoute(rows, h, v, to, control)
    BY <2>1, <2>2 DEF Routes
  <2> HIDE DEF P
  <2> QED
    BY <2>2, <2>3
<1>8. d \in Hops(rows) /\ d[2] = p
  <2>1. Len(rows[v + 1]) \in Nat
    OBVIOUS
  <2> QED
    BY <2>1 DEF Hops
<1>7. ASSUME NEW h \in Seq(Hops(rows))
      PROVE  P(h) \in Seq(Hops(rows)) /\ P(h)[1] = d /\ Len(P(h)) = Len(h) + 1
             /\ \A k \in 1 .. Len(h) : P(h)[k + 1] = h[k]
  <2> DEFINE S == Hops(rows)
  <2>1. h \in Seq(S) /\ d \in S
    BY <1>8
  <2> HIDE DEF S, d
  <2>2. P(h) \in Seq(S) /\ P(h)[1] = d /\ Len(P(h)) = Len(h) + 1
        /\ \A k \in 1 .. Len(h) : P(h)[k + 1] = h[k]
    BY <2>1, PrependIs
  <2> QED
    BY <2>2 DEF S
<1>9. ASSUME NEW g \in Seq(Hops(rows)), NEW h \in Seq(Hops(rows)), P(g) = P(h) PROVE g = h
  <2> DEFINE S == Hops(rows)
  <2>1. g \in Seq(S) /\ h \in Seq(S) /\ d \in S
    BY <1>8
  <2> HIDE DEF S, d
  <2>2. Prepend(d, g) = Prepend(d, h)
    BY <1>9
  <2> QED
    BY <2>1, <2>2, PrependSame
<1> HIDE DEF P, x
<1>3. x \in nc => StartWith(rows, v, to, control, p) = {}
  BY <1>1, <1>2
<1>4. ASSUME x \notin nc
      PROVE  ExistsBijection(Routes(rows, x, to, nc), StartWith(rows, v, to, control, p))
  <2> DEFINE A == Routes(rows, x, to, nc)
             B == StartWith(rows, v, to, control, p)
             f == [h \in A |-> P(h)]
  <2>1. \A h \in A : h \in Seq(Hops(rows)) /\ IsRoute(rows, h, x, to, nc)
    BY DEF Routes
  <2>2. ASSUME NEW h \in A PROVE P(h) \in B
    <3>1. P(h) \in Routes(rows, v, to, control)
      BY <1>1, <1>4, <1>7, <2>1 DEF Routes
    <3>2. P(h)[1][2] = p
      BY <1>7, <1>8, <2>1
    <3> QED
      BY <3>1, <3>2 DEF StartWith
  <2>3. ASSUME NEW h \in B PROVE Rest(h) \in A /\ P(Rest(h)) = h
    <3>1. IsRoute(rows, Rest(h), x, to, nc)
      BY <1>1, <1>2
    <3> QED
      BY <1>2, <3>1 DEF Routes
  <2>4. \A g, h \in A : P(g) = P(h) => g = h
    BY <1>9, <2>1
  <2> HIDE DEF A, B
  <2>5. f \in [A -> B]
    BY <2>2
  <2>6. \A g, h \in A : f[g] = f[h] => g = h
    BY <2>4
  <2>7. \A h \in B : \E g \in A : f[g] = h
    BY <2>3
  <2> HIDE DEF f
  <2>8. f \in Bijection(A, B)
    BY <2>5, <2>6, <2>7 DEF Bijection, Injection, Surjection, IsInjective
  <2> QED
    BY <2>8 DEF ExistsBijection, A, B
<1> QED
  BY <1>3, <1>4 DEF x

\* The ways that go on where no mark is are finitely many.
Finite(rows, to, control) ==
  \A x \in (0 .. Len(rows) - 1) \ control : IsFiniteSet(Routes(rows, x, to, control))

\* What the loop of way_count adds for one edge, if its calls count right.
Adds(rows, v, to, control, p) ==
  IF rows[v + 1][p] \in control \cup {v} THEN 0
  ELSE Cardinality(Routes(rows, rows[v + 1][p], to, control \cup {v}))

LEMMA RoutesOfEdge ==
  ASSUME NEW rows, rows \in Seq(Seq(0 .. Len(rows) - 1)), NEW v \in 0 .. Len(rows) - 1,
         NEW to, NEW control, v # to,
         Finite(rows, to, control \cup {v}),
         NEW p \in 1 .. Len(rows[v + 1])
  PROVE  /\ IsFiniteSet(StartWith(rows, v, to, control, p))
         /\ Cardinality(StartWith(rows, v, to, control, p)) = Adds(rows, v, to, control, p)
<1> DEFINE x == rows[v + 1][p]
           T == StartWith(rows, v, to, control, p)
           A == Routes(rows, x, to, control \cup {v})
<1>1. x \in 0 .. Len(rows) - 1
  OBVIOUS
<1>2. CASE x \in control \cup {v}
  <2>1. T = {}
    BY <1>2, RoutesByEdge
  <2> HIDE DEF T
  <2>2. IsFiniteSet(T) /\ Cardinality(T) = 0
    BY <2>1, FS_EmptySet
  <2> QED
    BY <1>2, <2>2 DEF T, Adds
<1>3. CASE x \notin control \cup {v}
  <2>1. ExistsBijection(A, T)
    BY <1>3, RoutesByEdge
  <2>2. IsFiniteSet(A)
    <3> HIDE DEF x
    <3> QED
      BY <1>1, <1>3 DEF Finite
  <2> HIDE DEF A, T
  <2>3. IsFiniteSet(T) /\ Cardinality(T) = Cardinality(A)
    BY <2>1, <2>2, FS_Bijection
  <2> QED
    BY <1>3, <2>3 DEF A, T, Adds
<1> QED
  BY <1>2, <1>3

\* A call counts its ways, if the calls it makes count theirs.
LEMMA RoutesStep ==
  ASSUME NEW rows, rows \in Seq(Seq(0 .. Len(rows) - 1)), NEW v \in 0 .. Len(rows) - 1,
         NEW to, NEW control, v # to,
         Finite(rows, to, control \cup {v})
  PROVE  /\ IsFiniteSet(Routes(rows, v, to, control))
         /\ Cardinality(Routes(rows, v, to, control)) =
              Total([k \in DOMAIN rows[v + 1] |-> Adds(rows, v, to, control, k)])
<1> DEFINE R == Routes(rows, v, to, control)
           n == Len(rows[v + 1])
           term(k) == Adds(rows, v, to, control, k)
           T(k) == StartWith(rows, v, to, control, k)
           S(k) == {h \in R : h[1][2] <= k}
           s == [k \in 0 .. n |-> Cardinality(S(k))]
           terms == [k \in 1 .. n |-> term(k)]
           good == {k \in 0 .. n : IsFiniteSet(S(k))}
<1>1. n \in Nat /\ DOMAIN rows[v + 1] = 1 .. n
  OBVIOUS
<1>2. \A h \in R : h[1][2] \in 1 .. n
  BY RouteStarts
<1>3. ASSUME NEW k \in 1 .. n PROVE IsFiniteSet(T(k)) /\ Cardinality(T(k)) = term(k)
  BY RoutesOfEdge
<1>4. \A k \in 1 .. n : T(k) = {h \in R : h[1][2] = k}
  BY DEF StartWith
<1> HIDE DEF R, term, T, n
<1>5. S(0) = {} /\ S(n) = R
  BY <1>1, <1>2
<1>6. ASSUME NEW k \in 1 .. n PROVE S(k) = S(k - 1) \cup T(k) /\ S(k - 1) \cap T(k) = {}
  <2>1. \A h \in R : (h[1][2] <= k <=> h[1][2] <= k - 1 \/ h[1][2] = k) /\ ~(h[1][2] <= k - 1 /\ h[1][2] = k)
    BY <1>1, <1>2, SMTT(30)
  <2>2. T(k) = {h \in R : h[1][2] = k}
    BY <1>4
  <2> QED
    BY <2>1, <2>2
<1> HIDE DEF S
<1>7. 0 \in good
  <2>1. 0 \in 0 .. n
    BY <1>1
  <2> QED
    BY <1>5, <2>1, FS_EmptySet
<1>8. ASSUME NEW k \in 1 .. n, IsFiniteSet(S(k - 1))
      PROVE  IsFiniteSet(S(k)) /\ Cardinality(S(k)) = Cardinality(S(k - 1)) + term(k)
  <2>1. /\ IsFiniteSet(S(k - 1) \cup T(k))
        /\ Cardinality(S(k - 1) \cup T(k)) =
             Cardinality(S(k - 1)) + Cardinality(T(k)) - Cardinality(S(k - 1) \cap T(k))
    BY <1>3, <1>8, FS_Union
  <2>2. Cardinality(S(k - 1) \cap T(k)) = 0
    BY <1>6, FS_EmptySet
  <2>3. Cardinality(S(k - 1)) \in Nat /\ Cardinality(T(k)) \in Nat
    BY <1>3, <1>8, FS_CardinalityType
  <2>4. Cardinality(S(k)) = Cardinality(S(k - 1)) + Cardinality(T(k)) - 0
    BY <1>6, <2>1, <2>2
  <2>5. Cardinality(S(k)) = Cardinality(S(k - 1)) + Cardinality(T(k))
    BY <2>3, <2>4
  <2> QED
    BY <1>3, <1>6, <2>1, <2>5
<1>9. \A k \in 1 .. n : k - 1 \in good => k \in good
  <2>1. \A k \in 1 .. n : k \in 0 .. n
    BY <1>1
  <2> QED
    BY <1>8, <2>1
<1>10. \A k \in 0 .. n : k \in good
  <2> HIDE DEF good
  <2> QED
    BY <1>1, <1>7, <1>9, Turn
<1>11. s[0] = 0 /\ \A k \in 1 .. n : s[k] = s[k - 1] + terms[k]
  <2>1. 0 \in 0 .. n /\ \A k \in 1 .. n : k \in 0 .. n /\ k - 1 \in 0 .. n
    BY <1>1
  <2>2. \A k \in 0 .. n : s[k] = Cardinality(S(k)) /\ IsFiniteSet(S(k))
    BY <1>10
  <2>3. \A k \in 1 .. n : terms[k] = term(k)
    OBVIOUS
  <2>4. s[0] = 0
    BY <1>5, <2>1, <2>2, FS_EmptySet
  <2> HIDE DEF s, terms
  <2>5. ASSUME NEW k \in 1 .. n PROVE s[k] = s[k - 1] + terms[k]
    <3>1. Cardinality(S(k)) = Cardinality(S(k - 1)) + term(k)
      BY <1>8, <2>1, <2>2
    <3> QED
      BY <2>1, <2>2, <2>3, <3>1
  <2> QED
    BY <2>4, <2>5
<1>12. Len(terms) = n
  BY <1>1
<1>13. s[n] = Cardinality(R) /\ IsFiniteSet(R)
  <2>1. n \in 0 .. n
    BY <1>1
  <2> QED
    BY <1>5, <1>10, <2>1
<1> HIDE DEF s, terms
<1>14. Total(terms) = s[n]
  BY <1>1, <1>11, <1>12, TotalIs
<1> QED
  BY <1>1, <1>13, <1>14 DEF R, terms, term

\* A mark more leaves one vertex less without mark.
LEMMA OneMarkMore ==
  ASSUME NEW V, IsFiniteSet(V), NEW control, NEW x \in V \ control, NEW k \in Nat,
         Cardinality(V \ control) <= k
  PROVE  k # 0 /\ Cardinality(V \ (control \cup {x})) <= k - 1
<1> DEFINE U == V \ control
<1>1. IsFiniteSet(U) /\ x \in U
  BY FS_Difference
<1>2. V \ (control \cup {x}) = U \ {x}
  OBVIOUS
<1> HIDE DEF U
<1>3. Cardinality(U \ {x}) = Cardinality(U) - 1 /\ IsFiniteSet(U \ {x})
  BY <1>1, FS_RemoveElement
<1>4. Cardinality(U) \in Nat /\ Cardinality(U \ {x}) \in Nat
  BY <1>1, <1>3, FS_CardinalityType
<1>5. Cardinality(U) <= k
  BY DEF U
<1>6. k # 0 /\ Cardinality(U \ {x}) <= k - 1
  BY <1>3, <1>4, <1>5
<1> QED
  BY <1>2, <1>6

\* What holds of a set of marks if it holds of all larger ones, holds of all.
LEMMA ByMarks ==
  ASSUME NEW V, IsFiniteSet(V), NEW right,
         \A control \in SUBSET V :
           (\A x \in V \ control : control \cup {x} \in right) => control \in right
  PROVE  \A control \in SUBSET V : control \in right
<1> DEFINE n == Cardinality(V)
           good == {k \in 0 .. n : \A control \in SUBSET V : Cardinality(V \ control) <= k => control \in right}
<1>1. n \in Nat
  BY FS_CardinalityType
<1> HIDE DEF n
<1>2. ASSUME NEW k \in 0 .. n, k # 0 => k - 1 \in good PROVE k \in good
  <2> SUFFICES ASSUME NEW control \in SUBSET V, Cardinality(V \ control) <= k PROVE control \in right
    OBVIOUS
  <2>1. ASSUME NEW x \in V \ control PROVE control \cup {x} \in right
    <3>1. k \in Nat
      BY <1>1
    <3>2. k # 0 /\ Cardinality(V \ (control \cup {x})) <= k - 1
      BY <3>1, OneMarkMore
    <3>3. control \cup {x} \in SUBSET V
      OBVIOUS
    <3> QED
      BY <1>2, <3>2, <3>3
  <2> QED
    BY <2>1
<1>3. 0 \in good
  <2>1. 0 \in 0 .. n
    BY <1>1
  <2> HIDE DEF good
  <2> QED
    BY <1>2, <2>1
<1>4. \A k \in 1 .. n : k - 1 \in good => k \in good
  <2>1. \A k \in 1 .. n : k \in 0 .. n
    BY <1>1
  <2> HIDE DEF good
  <2> QED
    BY <1>2, <2>1
<1>5. n \in good
  <2> HIDE DEF good
  <2>1. \A k \in 0 .. n : k \in good
    BY <1>1, <1>3, <1>4, Turn
  <2>2. n \in 0 .. n
    BY <1>1
  <2> QED
    BY <2>1, <2>2
<1>6. \A control \in SUBSET V : Cardinality(V \ control) <= n
  BY FS_Subset DEF n
<1> QED
  BY <1>5, <1>6

\* There are finitely many ways.
LEMMA FiniteRoutes ==
  ASSUME NEW rows, rows \in Seq(Seq(0 .. Len(rows) - 1)), NEW to
  PROVE  \A control \in SUBSET (0 .. Len(rows) - 1) :
           /\ Finite(rows, to, control)
           /\ \A v \in 0 .. Len(rows) - 1 : IsFiniteSet(Routes(rows, v, to, control))
<1> DEFINE V == 0 .. Len(rows) - 1
           right == {control \in SUBSET V : Finite(rows, to, control)}
<1>1. IsFiniteSet(V)
  <2>1. Len(rows) - 1 \in Int
    OBVIOUS
  <2> QED
    BY <2>1, FS_Interval
<1>2. ASSUME NEW control \in SUBSET V, NEW v \in V, Finite(rows, to, control \cup {v})
      PROVE  IsFiniteSet(Routes(rows, v, to, control))
  <2>1. CASE v = to
    <3>1. Routes(rows, v, to, control) = {<<>>}
      BY <2>1, RoutesThere
    <3> QED
      BY <3>1, FS_Singleton
  <2>2. CASE v # to
    BY <1>2, <2>2, RoutesStep
  <2> QED
    BY <2>1, <2>2
<1>3. ASSUME NEW control \in SUBSET V, \A x \in V \ control : control \cup {x} \in right
      PROVE  control \in right
  <2>1. \A x \in V \ control : IsFiniteSet(Routes(rows, x, to, control))
    BY <1>2, <1>3
  <2> QED
    BY <2>1 DEF Finite
<1>4. \A control \in SUBSET V : control \in right
  <2> HIDE DEF V, right
  <2> QED
    BY <1>1, <1>3, ByMarks
<1>5. ASSUME NEW control \in SUBSET V, NEW v \in V
      PROVE  Finite(rows, to, control) /\ IsFiniteSet(Routes(rows, v, to, control))
  <2>1. control \cup {v} \in SUBSET V
    OBVIOUS
  <2> HIDE DEF V
  <2>2. Finite(rows, to, control) /\ Finite(rows, to, control \cup {v})
    BY <1>4, <2>1
  <2> QED
    BY <1>2, <2>2
<1>6. \A control \in SUBSET V : Finite(rows, to, control)
  BY <1>4
<1> QED
  BY <1>5, <1>6

\* way_count counts the ways.
LEMMA CountsRoutes ==
  ASSUME NEW rows, rows \in Seq(Seq(0 .. Len(rows) - 1)),
         NEW from \in 0 .. Len(rows) - 1, NEW to
  PROVE  way_count(rows, from, to) = Cardinality(Routes(rows, from, to, {}))
<1> DEFINE V == 0 .. Len(rows) - 1
           C == V \X SUBSET V
           Term(f, v, nc, k) == IF rows[v + 1][k] \in nc THEN 0 ELSE f[<<rows[v + 1][k], nc>>]
           Count(f, v, control) ==
             IF v = to THEN 1
             ELSE Total([k \in DOMAIN rows[v + 1] |-> Term(f, v, control \cup {v}, k)])
           count == CHOOSE f : f = [call \in C |-> Count(f, call[1], call[2])]
           Want(v, control) == Cardinality(Routes(rows, v, to, control))
           g == [call \in C |-> Want(call[1], call[2])]
           right == {control \in SUBSET V : \A v \in V \ control : count[<<v, control>>] = Want(v, control)}
<1>1. way_count(rows, from, to) = count[<<from, {}>>]
  BY DEF way_count
<1>2. \A v \in V : \A k \in DOMAIN rows[v + 1] : rows[v + 1][k] \in V
  OBVIOUS
<1>3. ASSUME NEW v \in V, NEW control \in SUBSET V
      PROVE  Want(v, control) = IF v = to THEN 1
                                ELSE Total([k \in DOMAIN rows[v + 1] |-> Adds(rows, v, to, control, k)])
  <2>1. CASE v = to
    <3>1. Routes(rows, v, to, control) = {<<>>}
      BY <2>1, RoutesThere
    <3>2. Want(v, control) = 1
      BY <3>1, FS_Singleton
    <3> QED
      BY <2>1, <3>2
  <2>2. CASE v # to
    <3>1. control \cup {v} \in SUBSET V
      OBVIOUS
    <3>2. Finite(rows, to, control \cup {v})
      BY <3>1, FiniteRoutes
    <3>3. Want(v, control) = Total([k \in DOMAIN rows[v + 1] |-> Adds(rows, v, to, control, k)])
      BY <2>2, <3>2, RoutesStep
    <3> QED
      BY <2>2, <3>3
  <2> QED
    BY <2>1, <2>2
<1>4. ASSUME NEW v \in V, NEW control \in SUBSET V, NEW f,
             \A x \in V \ (control \cup {v}) : f[<<x, control \cup {v}>>] = Want(x, control \cup {v})
      PROVE  Count(f, v, control) = Want(v, control)
  <2>1. ASSUME NEW k \in DOMAIN rows[v + 1]
        PROVE  Term(f, v, control \cup {v}, k) = Adds(rows, v, to, control, k)
    BY <1>2, <1>4 DEF Adds
  <2> HIDE DEF Term, Want
  <2>2. [k \in DOMAIN rows[v + 1] |-> Term(f, v, control \cup {v}, k)] =
          [k \in DOMAIN rows[v + 1] |-> Adds(rows, v, to, control, k)]
    BY <2>1
  <2> QED
    BY <1>3, <2>2
<1> HIDE DEF Count, Want, V
<1>5. \A v \in V, control \in SUBSET V : g[<<v, control>>] = Want(v, control)
  OBVIOUS
<1>6. ASSUME NEW v \in V, NEW control \in SUBSET V PROVE control \cup {v} \in SUBSET V
  OBVIOUS
<1>7. \A v \in V, control \in SUBSET V : Count(g, v, control) = Want(v, control)
  <2> HIDE DEF g
  <2> QED
    BY <1>4, <1>5, <1>6
<1>8. g = [call \in C |-> Count(g, call[1], call[2])]
  <2>1. \A call \in C : call[1] \in V /\ call[2] \in SUBSET V
    OBVIOUS
  <2>2. \A call \in C : Count(g, call[1], call[2]) = Want(call[1], call[2])
    <3> HIDE DEF g
    <3> QED
      BY <1>7, <2>1
  <2> QED
    BY <2>2
<1>9. count = [call \in C |-> Count(count, call[1], call[2])]
  <2> HIDE DEF g
  <2> QED
    BY <1>8
<1> HIDE DEF count
<1>10. \A v \in V, control \in SUBSET V : count[<<v, control>>] = Count(count, v, control)
  BY <1>9
<1>11. ASSUME NEW control \in SUBSET V, \A x \in V \ control : control \cup {x} \in right
       PROVE  control \in right
  <2>1. ASSUME NEW v \in V \ control PROVE count[<<v, control>>] = Want(v, control)
    <3>1. \A x \in V \ (control \cup {v}) : count[<<x, control \cup {v}>>] = Want(x, control \cup {v})
      BY <1>11
    <3>2. Count(count, v, control) = Want(v, control)
      BY <1>4, <3>1
    <3> QED
      BY <1>10, <3>2
  <2> QED
    BY <2>1
<1>12. {} \in right
  <2>1. IsFiniteSet(V)
    <3>1. Len(rows) - 1 \in Int
      OBVIOUS
    <3> QED
      BY <3>1, FS_Interval DEF V
  <2> HIDE DEF right
  <2>2. \A control \in SUBSET V : control \in right
    BY <1>11, <2>1, ByMarks
  <2> QED
    BY <2>2
<1>13. from \in V
  BY DEF V
<1> QED
  BY <1>1, <1>12, <1>13 DEF Want

\* A way is shorter than there are vertices.
LEMMA RouteFits ==
  ASSUME NEW rows, rows \in Seq(Seq(0 .. Len(rows) - 1)), NEW from, NEW to \in 0 .. Len(rows) - 1,
         NEW control, NEW h \in Routes(rows, from, to, control)
  PROVE  Len(h) \in 0 .. Len(rows) - 1
<1> DEFINE V == 0 .. Len(rows) - 1
           n == Len(h)
           f == [k \in 1 .. n + 1 |-> Stop(h, to, k)]
<1>1. h \in Seq(Hops(rows)) /\ IsRoute(rows, h, from, to, control)
  BY DEF Routes
<1>2. n \in Nat /\ Len(rows) \in Nat
  BY <1>1
<1>3. ASSUME NEW k \in 1 .. n + 1 PROVE Stop(h, to, k) \in V
  <2>1. CASE k <= n
    <3>1. k \in 1 .. n
      BY <1>2, <2>1
    <3>2. h[k] \in Hops(rows)
      BY <1>1, <3>1
    <3>3. h[k][1] \in V
      BY <3>2 DEF Hops
    <3> QED
      BY <2>1, <3>3 DEF Stop
  <2>2. CASE ~(k <= n)
    BY <2>2 DEF Stop
  <2> QED
    BY <2>1, <2>2
<1>4. \A j, k \in 1 .. n + 1 : Stop(h, to, j) = Stop(h, to, k) => j = k
  BY <1>1 DEF IsRoute
<1>5. IsFiniteSet(V) /\ Cardinality(V) = Len(rows)
  <2> DEFINE m == Len(rows)
  <2>1. m \in Nat /\ m # 0
    BY <1>2
  <2> HIDE DEF m
  <2>2. m - 1 \in Int /\ ~(0 > m - 1) /\ (m - 1) - 0 + 1 = m
    BY <2>1
  <2>3. IsFiniteSet(0 .. m - 1) /\ Cardinality(0 .. m - 1) = m
    BY <2>2, FS_Interval
  <2> QED
    BY <2>3 DEF m
<1> HIDE DEF V, n
<1>6. f \in Injection(1 .. n + 1, V)
  BY <1>3, <1>4 DEF Injection, IsInjective
<1>7. Cardinality(1 .. n + 1) <= Cardinality(V)
  BY <1>5, <1>6, FS_Injection
<1>8. Cardinality(1 .. n + 1) = n + 1
  <2>1. n + 1 \in Int /\ ~(1 > n + 1) /\ (n + 1) - 1 + 1 = n + 1
    BY <1>2
  <2> QED
    BY <2>1, FS_Interval
<1>9. n \in 0 .. Len(rows) - 1
  BY <1>2, <1>5, <1>7, <1>8
<1> QED
  BY <1>9 DEF n

\* The ways of the property are those of a call without marks.
LEMMA SimpleWaysAre ==
  ASSUME NEW rows, rows \in Seq(Seq(0 .. Len(rows) - 1)), NEW from, NEW to \in 0 .. Len(rows) - 1
  PROVE  SimpleWays(rows, from, to) = Cardinality(Routes(rows, from, to, {}))
<1> DEFINE V == 0 .. Len(rows) - 1
           Edges == UNION {{v} \X DOMAIN rows[v + 1] : v \in V}
           All == UNION {[1 .. n -> Edges] : n \in V}
           Simple(way) ==
             /\ Stop(way, to, 1) = from
             /\ \A k \in 1 .. Len(way) : rows[way[k][1] + 1][way[k][2]] = Stop(way, to, k + 1)
             /\ \A j, k \in 1 .. Len(way) + 1 : Stop(way, to, j) = Stop(way, to, k) => j = k
<1>1. SimpleWays(rows, from, to) = Cardinality({way \in All : Simple(way)})
  BY DEF SimpleWays, Stop
<1>2. \A v \in V : DOMAIN rows[v + 1] = 1 .. Len(rows[v + 1]) /\ Len(rows[v + 1]) \in Nat
  OBVIOUS
<1>3. \A e : e \in Edges <=> e \in Hops(rows) /\ e[2] \in 1 .. Len(rows[e[1] + 1])
  <2>1. ASSUME NEW e, e \in Edges PROVE e \in Hops(rows) /\ e[2] \in 1 .. Len(rows[e[1] + 1])
    <3>1. PICK v \in V : e \in {v} \X DOMAIN rows[v + 1]
      BY <2>1
    <3>2. e[1] = v /\ e[2] \in 1 .. Len(rows[v + 1]) /\ e = <<e[1], e[2]>>
      BY <1>2, <3>1
    <3>3. e[2] \in Nat
      BY <1>2, <3>2
    <3> QED
      BY <3>2, <3>3 DEF Hops
  <2>2. ASSUME NEW e, e \in Hops(rows), e[2] \in 1 .. Len(rows[e[1] + 1]) PROVE e \in Edges
    <3>1. e[1] \in V /\ e = <<e[1], e[2]>>
      BY <2>2 DEF Hops
    <3>2. e \in {e[1]} \X DOMAIN rows[e[1] + 1]
      BY <1>2, <2>2, <3>1
    <3> QED
      BY <3>1, <3>2
  <2> QED
    BY <2>1, <2>2
<1> HIDE DEF Edges
<1>4. ASSUME NEW way \in All PROVE way \in Seq(Hops(rows)) /\ \A k \in 1 .. Len(way) : way[k] \in Edges
  <2>1. PICK n \in V : way \in [1 .. n -> Edges]
    OBVIOUS
  <2>2. n \in Nat
    OBVIOUS
  <2>3. Edges \subseteq Hops(rows)
    BY <1>3
  <2>4. Len(way) = n
    <3> HIDE DEF V
    <3> QED
      BY <2>1, <2>2
  <2>5. way \in [1 .. n -> Hops(rows)]
    BY <2>1, <2>3
  <2> QED
    BY <2>1, <2>2, <2>4, <2>5
<1>5. ASSUME NEW way \in All, Simple(way) PROVE way \in Routes(rows, from, to, {})
  <2>1. \A k \in 1 .. Len(way) : way[k][2] \in 1 .. Len(rows[way[k][1] + 1])
    BY <1>3, <1>4
  <2> QED
    BY <1>4, <1>5, <2>1 DEF Routes, IsRoute
<1>6. ASSUME NEW way \in Routes(rows, from, to, {}) PROVE way \in All /\ Simple(way)
  <2>1. way \in Seq(Hops(rows)) /\ IsRoute(rows, way, from, to, {})
    BY DEF Routes
  <2>2. Len(way) \in V
    BY RouteFits
  <2>3. \A k \in 1 .. Len(way) : way[k] \in Edges
    <3>1. \A k \in 1 .. Len(way) : way[k] \in Hops(rows)
      BY <2>1
    <3> QED
      BY <1>3, <2>1, <3>1 DEF IsRoute
  <2>4. way \in [1 .. Len(way) -> Edges]
    BY <2>1, <2>3
  <2>5. Simple(way)
    BY <2>1 DEF IsRoute
  <2> QED
    BY <2>2, <2>4, <2>5
<1>7. {way \in All : Simple(way)} = Routes(rows, from, to, {})
  <2> HIDE DEF All, Simple
  <2> QED
    BY <1>5, <1>6
<1> QED
  BY <1>1, <1>7

-----------------------------------------------------------------------------
(* The reverted graph.                                                     *)

EdgesOf(lists) == {e \in Int \X Nat : e[1] + 1 \in DOMAIN lists /\ e[2] \in 1 .. Len(lists[e[1] + 1])}
End(lists, e) == lists[e[1] + 1][e[2]]

\* f takes each edge of E, a part of graph a, to one of b that goes the other
\* way, and g takes it back.
Paired(E, a, b, f, g) ==
  /\ f \in [E -> EdgesOf(b)] /\ g \in [EdgesOf(b) -> E]
  /\ \A e \in E : g[f[e]] = e /\ f[e][1] = End(a, e) /\ End(b, f[e]) = e[1]
  /\ \A e \in EdgesOf(b) : f[g[e]] = e

Carried(E, a, b) == \E f, g : Paired(E, a, b, f, g)

\* An edge from t to v is added to lists b.
Added(b, b2, t, v) == b2 = [b EXCEPT ![t + 1] = Append(@, v)]
NewEdge(b, t) == <<t, Len(b[t + 1]) + 1>>

\* Only edge d has come, from t to v.
OneMore(b, b2, t, v, d) ==
  /\ EdgesOf(b2) = EdgesOf(b) \cup {d} /\ d \notin EdgesOf(b)
  /\ d[1] = t /\ End(b2, d) = v
  /\ \A e \in EdgesOf(b) : End(b2, e) = End(b, e)

LEMMA EdgesOfMore ==
  ASSUME NEW N \in Nat, NEW b \in [1 .. N -> Seq(0 .. N - 1)],
         NEW v \in 0 .. N - 1, NEW t \in 0 .. N - 1, NEW b2, Added(b, b2, t, v),
         NEW d, d = NewEdge(b, t)
  PROVE  OneMore(b, b2, t, v, d)
<1> DEFINE V == 0 .. N - 1
           row == b[t + 1]
           row2 == Append(row, v)
<1>1. t + 1 \in 1 .. N /\ row \in Seq(V) /\ Len(row) \in Nat
  OBVIOUS
<1> HIDE DEF row
<1>2. /\ row2 \in Seq(V) /\ Len(row2) = Len(row) + 1 /\ row2[Len(row) + 1] = v
      /\ \A k \in 1 .. Len(row) : row2[k] = row[k]
  BY <1>1, AppendProperties
<1>3. b2 \in [1 .. N -> Seq(V)] /\ b2[t + 1] = row2 /\ \A k \in 1 .. N : k # t + 1 => b2[k] = b[k]
  BY <1>1, <1>2 DEF row, Added
<1> HIDE DEF row2
<1>4. d[1] = t /\ d[2] = Len(row) + 1 /\ d \in Int \X Nat /\ d = <<t, Len(row) + 1>>
  BY <1>1 DEF row, NewEdge
<1>5. End(b2, d) = v
  BY <1>2, <1>3, <1>4 DEF End
<1>6. d \notin EdgesOf(b)
  <2>1. ~(Len(row) + 1 \in 1 .. Len(row))
    BY <1>1
  <2> QED
    BY <1>4, <2>1 DEF EdgesOf, row
<1>7. ASSUME NEW e \in EdgesOf(b) PROVE e \in EdgesOf(b2) /\ End(b2, e) = End(b, e)
  <2>1. e \in Int \X Nat /\ e[1] + 1 \in 1 .. N /\ e[2] \in 1 .. Len(b[e[1] + 1])
    BY DEF EdgesOf
  <2>2. CASE e[1] + 1 = t + 1
    <3>1. e[2] \in 1 .. Len(row) /\ e[2] \in 1 .. Len(row2)
      BY <1>1, <1>2, <2>1, <2>2 DEF row
    <3>2. row2[e[2]] = row[e[2]]
      BY <1>2, <3>1
    <3>3. b2[e[1] + 1] = row2 /\ b[e[1] + 1] = row
      BY <1>3, <2>2 DEF row
    <3> QED
      BY <1>3, <2>1, <3>1, <3>2, <3>3 DEF EdgesOf, End
  <2>3. CASE e[1] + 1 # t + 1
    <3>1. b2[e[1] + 1] = b[e[1] + 1]
      BY <1>3, <2>1, <2>3
    <3> QED
      BY <1>3, <2>1, <3>1 DEF EdgesOf, End
  <2> QED
    BY <2>2, <2>3
<1>8. d \in EdgesOf(b2)
  <2>1. Len(row) + 1 \in 1 .. Len(row2)
    BY <1>1, <1>2
  <2> QED
    BY <1>1, <1>3, <1>4, <2>1 DEF EdgesOf
<1>9. ASSUME NEW e \in EdgesOf(b2), e # d PROVE e \in EdgesOf(b)
  <2>1. e \in Int \X Nat /\ e[1] + 1 \in 1 .. N /\ e[2] \in 1 .. Len(b2[e[1] + 1])
    BY <1>3 DEF EdgesOf
  <2>2. CASE e[1] + 1 = t + 1
    <3>1. e[1] = t /\ e[2] \in 1 .. Len(row) + 1
      BY <1>1, <1>2, <1>3, <2>1, <2>2
    <3>2. e[2] # Len(row) + 1
      BY <1>4, <1>9, <2>1, <3>1
    <3>3. e[2] \in 1 .. Len(row)
      BY <1>1, <3>1, <3>2
    <3> QED
      BY <2>1, <2>2, <3>3 DEF EdgesOf, row
  <2>3. CASE e[1] + 1 # t + 1
    <3>1. b2[e[1] + 1] = b[e[1] + 1]
      BY <1>3, <2>1, <2>3
    <3> QED
      BY <1>3, <2>1, <3>1 DEF EdgesOf
  <2> QED
    BY <2>2, <2>3
<1> QED
  BY <1>3, <1>4, <1>5, <1>6, <1>7, <1>8, <1>9 DEF OneMore

\* One more edge is carried over.
LEMMA CarryOne ==
  ASSUME NEW E, NEW a, NEW b, NEW b2, NEW e, NEW d, Carried(E, a, b),
         e \notin E, OneMore(b, b2, End(a, e), e[1], d)
  PROVE  Carried(E \cup {e}, a, b2)
<1>1. PICK f, g : Paired(E, a, b, f, g)
  BY DEF Carried
<1> DEFINE D == EdgesOf(b)
           D2 == EdgesOf(b2)
           E2 == E \cup {e}
           f2 == [x \in E2 |-> IF x = e THEN d ELSE f[x]]
           g2 == [x \in D2 |-> IF x = d THEN e ELSE g[x]]
<1>2. /\ f \in [E -> D] /\ g \in [D -> E]
      /\ \A x \in E : g[f[x]] = x /\ f[x][1] = End(a, x) /\ End(b, f[x]) = x[1]
      /\ \A x \in D : f[g[x]] = x
  BY <1>1 DEF Paired
<1>3. D2 = D \cup {d} /\ d \notin D /\ \A x \in D : End(b2, x) = End(b, x)
  BY DEF OneMore
<1>8. d[1] = End(a, e) /\ End(b2, d) = e[1]
  BY DEF OneMore
<1> HIDE DEF D, D2
<1>4. f2 \in [E2 -> D2] /\ g2 \in [D2 -> E2]
  BY <1>2, <1>3
<1>5. ASSUME NEW x \in E2 PROVE g2[f2[x]] = x /\ f2[x][1] = End(a, x) /\ End(b2, f2[x]) = x[1]
  <2>1. CASE x = e
    <3>1. f2[x] = d /\ g2[d] = e
      BY <1>3, <2>1
    <3> HIDE DEF f2, g2
    <3> QED
      BY <1>8, <2>1, <3>1
  <2>2. CASE x # e
    <3>1. x \in E /\ f[x] \in D /\ f[x] # d
      BY <1>2, <1>3, <2>2
    <3>2. f2[x] = f[x] /\ g2[f[x]] = g[f[x]]
      BY <1>3, <2>2, <3>1
    <3> HIDE DEF f2, g2
    <3> QED
      BY <1>2, <1>3, <3>1, <3>2
  <2> QED
    BY <2>1, <2>2
<1>6. ASSUME NEW x \in D2 PROVE f2[g2[x]] = x
  <2>1. CASE x = d
    <3>1. g2[x] = e /\ f2[e] = d
      BY <1>3, <2>1
    <3> HIDE DEF f2, g2
    <3> QED
      BY <2>1, <3>1
  <2>2. CASE x # d
    <3>1. x \in D /\ g[x] \in E /\ g[x] # e
      BY <1>2, <1>3, <2>2
    <3>2. g2[x] = g[x] /\ f2[g[x]] = f[g[x]]
      BY <1>3, <2>2, <3>1
    <3> HIDE DEF f2, g2
    <3> QED
      BY <1>2, <3>1, <3>2
  <2> QED
    BY <2>1, <2>2
<1> HIDE DEF f2, g2, E2
<1>7. Paired(E2, a, b2, f2, g2)
  BY <1>4, <1>5, <1>6 DEF Paired, D2
<1> QED
  BY <1>7 DEF Carried, E2

\* The edges of rows before the p-th one of v, and that one.
UpTo(rows, v, p) == {e \in EdgesOf(rows) : e[1] < v \/ (e[1] = v /\ e[2] <= p)}

\* The loop over one list carries its edges over.
LEMMA RevertRow ==
  ASSUME NEW N \in Nat, NEW row \in Seq(0 .. N - 1), NEW from \in 0 .. N - 1,
         NEW lists \in [1 .. N -> Seq(0 .. N - 1)]
  PROVE  /\ revert_row(lists, row, from) \in [1 .. N -> Seq(0 .. N - 1)]
         /\ \A rows \in Seq(Seq(0 .. N - 1)) :
              /\ Len(rows) = N /\ rows[from + 1] = row
              /\ Carried(UpTo(rows, from, 0), rows, lists)
              => Carried(UpTo(rows, from, Len(row)), rows, revert_row(lists, row, from))
<1> DEFINE V == 0 .. N - 1
           S == [1 .. N -> Seq(V)]
           n == Len(row)
           More(l, k) == [l EXCEPT ![row[k] + 1] = Append(@, from)]
           step == [k \in 1 .. n |-> [l \in S |-> More(l, k)]]
           turn == CHOOSE f : f = [k \in 0 .. n |-> IF k = 0 THEN lists ELSE More(f[k - 1], k)]
<1>1. revert_row(lists, row, from) = turn[n]
  BY DEF revert_row
<1>2. n \in Nat /\ \A k \in 1 .. n : row[k] \in V
  OBVIOUS
<1>3. ASSUME NEW l \in S, NEW k \in 1 .. n PROVE More(l, k) \in S
  <2>1. row[k] \in V
    BY <1>2
  <2>2. row[k] + 1 \in 1 .. N /\ Append(l[row[k] + 1], from) \in Seq(V)
    BY <2>1
  <2> QED
    BY <2>2
<1> HIDE DEF More, S, n
<1>4. turn = [k \in 0 .. n |-> IF k = 0 THEN lists ELSE More(turn[k - 1], k)]
  <2>1. step \in [1 .. n -> [S -> S]]
    BY <1>3
  <2>2. lists \in S
    BY DEF S
  <2> HIDE DEF step
  <2>6. n \in Nat
    BY <1>2
  <2>7. PICK f : Turned(f, S, n, step, lists)
    BY <2>1, <2>2, <2>6, Turns
  <2>3. f \in [0 .. n -> S] /\ f[0] = lists /\ \A k \in 1 .. n : f[k] = step[k][f[k - 1]]
    BY <2>7 DEF Turned
  <2>4. ASSUME NEW k \in 0 .. n PROVE f[k] = IF k = 0 THEN lists ELSE More(f[k - 1], k)
    <3>1. k # 0 => k \in 1 .. n /\ k - 1 \in 0 .. n
      BY <1>2
    <3>2. k # 0 => f[k - 1] \in S
      BY <2>3, <3>1
    <3> QED
      BY <2>3, <3>1, <3>2 DEF step
  <2>5. f = [k \in 0 .. n |-> IF k = 0 THEN lists ELSE More(f[k - 1], k)]
    BY <2>3, <2>4
  <2> QED
    BY <2>5
<1> HIDE DEF turn
<1>5. turn[0] = lists /\ \A k \in 1 .. n : turn[k] = More(turn[k - 1], k)
  <2>1. 0 \in 0 .. n /\ \A k \in 1 .. n : k \in 0 .. n /\ k # 0
    BY <1>2
  <2>2. turn[0] = lists
    BY <1>4, <2>1
  <2>3. ASSUME NEW k \in 1 .. n PROVE turn[k] = More(turn[k - 1], k)
    BY <1>4, <2>1
  <2> QED
    BY <2>2, <2>3
<1>6. \A k \in 0 .. n : turn[k] \in S
  <2> DEFINE good == {k \in 0 .. n : turn[k] \in S}
  <2>1. 0 \in good
    BY <1>2, <1>5 DEF S
  <2>2. \A k \in 1 .. n : k - 1 \in good => k \in good
    <3>1. \A k \in 1 .. n : k \in 0 .. n
      BY <1>2
    <3> QED
      BY <1>3, <1>5, <3>1
  <2>3. \A k \in 0 .. n : k \in good
    <3> HIDE DEF good
    <3> QED
      BY <1>2, <2>1, <2>2, Turn
  <2> QED
    BY <2>3
<1>7. ASSUME NEW rows \in Seq(Seq(V)), Len(rows) = N, rows[from + 1] = row,
             Carried(UpTo(rows, from, 0), rows, lists)
      PROVE  Carried(UpTo(rows, from, n), rows, turn[n])
  <2> DEFINE good == {k \in 0 .. n : Carried(UpTo(rows, from, k), rows, turn[k])}
  <2>1. 0 \in good
    BY <1>2, <1>5, <1>7
  <2>2. ASSUME NEW k \in 1 .. n, Carried(UpTo(rows, from, k - 1), rows, turn[k - 1])
        PROVE  Carried(UpTo(rows, from, k), rows, turn[k])
    <3> DEFINE e == <<from, k>>
               t == row[k]
               b == turn[k - 1]
               b2 == turn[k]
               d == NewEdge(b, t)
    <3>1. t \in V /\ End(rows, e) = t /\ e[1] = from /\ e[2] = k
      BY <1>2, <1>7 DEF End
    <3>2. b \in [1 .. N -> Seq(0 .. N - 1)] /\ Added(b, b2, t, from)
      <4>1. k - 1 \in 0 .. n
        BY <1>2
      <4> QED
        BY <1>5, <1>6, <4>1 DEF S, More, Added
    <3>3. e \in EdgesOf(rows) /\ from \in Int /\ k \in Int
      <4>1. from + 1 \in DOMAIN rows /\ k \in 1 .. Len(rows[from + 1]) /\ k \in Nat /\ from \in Int
        BY <1>2, <1>7 DEF n
      <4> QED
        BY <4>1 DEF EdgesOf
    <3>4. \A x \in EdgesOf(rows) : x[1] \in Int /\ x[2] \in Int /\ x = <<x[1], x[2]>>
      BY DEF EdgesOf
    <3>5. e \notin UpTo(rows, from, k - 1)
      <4>1. ~(from < from) /\ ~(k <= k - 1)
        BY <3>3
      <4> QED
        BY <3>1, <4>1 DEF UpTo
    <3> HIDE DEF t, b, b2, d
    <3>6. UpTo(rows, from, k) = UpTo(rows, from, k - 1) \cup {e}
      <4>1. \A x \in EdgesOf(rows) : x[1] = from => (x[2] <= k <=> x[2] <= k - 1 \/ x[2] = k)
        BY <3>3, <3>4
      <4>2. \A x \in EdgesOf(rows) : x[1] = from /\ x[2] = k <=> x = e
        BY <3>4
      <4> HIDE DEF e
      <4>3. \A x \in EdgesOf(rows) : x[1] < from \/ (x[1] = from /\ x[2] <= k)
                                     <=> x[1] < from \/ (x[1] = from /\ x[2] <= k - 1) \/ x = e
        BY <4>1, <4>2
      <4> QED
        BY <3>3, <4>3 DEF UpTo
    <3> HIDE DEF e
    <3>7. OneMore(b, b2, t, from, d)
      <4>1. t \in 0 .. N - 1
        BY <3>1
      <4>2. d = NewEdge(b, t)
        BY DEF d
      <4> HIDE DEF V
      <4> QED
        BY <3>2, <4>1, <4>2, EdgesOfMore
    <3>8. Carried(UpTo(rows, from, k - 1), rows, b)
      BY <2>2 DEF b
    <3>9. Carried(UpTo(rows, from, k - 1) \cup {e}, rows, b2)
      BY <3>1, <3>5, <3>7, <3>8, CarryOne
    <3> QED
      BY <3>6, <3>9 DEF b2
  <2>3. \A k \in 1 .. n : k - 1 \in good => k \in good
    <3>1. \A k \in 1 .. n : k \in 0 .. n
      BY <1>2
    <3> QED
      BY <2>2, <3>1
  <2>4. n \in good
    <3> HIDE DEF good
    <3>1. \A k \in 0 .. n : k \in good
      BY <1>2, <2>1, <2>3, Turn
    <3>2. n \in 0 .. n
      BY <1>2
    <3> QED
      BY <3>1, <3>2
  <2> QED
    BY <2>4
<1>8. n \in 0 .. n
  BY <1>2
<1> QED
  BY <1>1, <1>6, <1>7, <1>8 DEF S, n

\* revert_graph carries over every edge.
LEMMA RevertGraph ==
  ASSUME NEW rows, rows \in Seq(Seq(0 .. Len(rows) - 1))
  PROVE  /\ revert_graph(rows) \in [1 .. Len(rows) -> Seq(0 .. Len(rows) - 1)]
         /\ Carried(EdgesOf(rows), rows, revert_graph(rows))
<1> DEFINE N == Len(rows)
           V == 0 .. N - 1
           S == [1 .. N -> Seq(V)]
           none == [v \in DOMAIN rows |-> <<>>]
           Do(l, k) == revert_row(l, rows[k], k - 1)
           step == [k \in 1 .. N |-> [l \in S |-> Do(l, k)]]
           turn == CHOOSE f : f = [k \in 0 .. N |-> IF k = 0 THEN none ELSE Do(f[k - 1], k)]
<1>1. N \in Nat /\ DOMAIN rows = 1 .. N /\ rows \in Seq(Seq(V))
  OBVIOUS
<1>2. revert_graph(rows) = turn[N]
  BY DEF revert_graph
<1>3. \A k \in 1 .. N : rows[k] \in Seq(V) /\ k - 1 \in V
  BY <1>1
<1>4. none \in S
  BY <1>1
<1> HIDE DEF N
<1>5. ASSUME NEW l \in S, NEW k \in 1 .. N
      PROVE  /\ Do(l, k) \in S
             /\ Carried(UpTo(rows, k - 1, 0), rows, l)
                  => Carried(UpTo(rows, k - 1, Len(rows[k])), rows, Do(l, k))
  <2>1. rows[k] \in Seq(0 .. N - 1) /\ k - 1 \in 0 .. N - 1 /\ l \in [1 .. N -> Seq(0 .. N - 1)]
    BY <1>3
  <2>2. rows \in Seq(Seq(0 .. N - 1)) /\ Len(rows) = N /\ rows[(k - 1) + 1] = rows[k]
    BY <1>1 DEF N
  <2> QED
    BY <1>1, <2>1, <2>2, RevertRow
<1> HIDE DEF Do, S
<1>6. turn = [k \in 0 .. N |-> IF k = 0 THEN none ELSE Do(turn[k - 1], k)]
  <2>1. step \in [1 .. N -> [S -> S]]
    BY <1>5
  <2> HIDE DEF step, none
  <2>2. PICK f : Turned(f, S, N, step, none)
    BY <1>1, <1>4, <2>1, Turns
  <2>3. f \in [0 .. N -> S] /\ f[0] = none /\ \A k \in 1 .. N : f[k] = step[k][f[k - 1]]
    BY <2>2 DEF Turned
  <2>4. ASSUME NEW k \in 0 .. N PROVE f[k] = IF k = 0 THEN none ELSE Do(f[k - 1], k)
    <3>1. k # 0 => k \in 1 .. N /\ k - 1 \in 0 .. N
      BY <1>1
    <3>2. k # 0 => f[k - 1] \in S
      BY <2>3, <3>1
    <3> QED
      BY <2>3, <3>1, <3>2 DEF step
  <2>5. f = [k \in 0 .. N |-> IF k = 0 THEN none ELSE Do(f[k - 1], k)]
    BY <2>3, <2>4
  <2> QED
    BY <2>5
<1> HIDE DEF turn
<1>7. turn[0] = none /\ \A k \in 1 .. N : turn[k] = Do(turn[k - 1], k)
  <2> HIDE DEF none
  <2>1. 0 \in 0 .. N /\ \A k \in 1 .. N : k \in 0 .. N /\ k # 0
    BY <1>1
  <2>2. turn[0] = none
    BY <1>6, <2>1
  <2>3. ASSUME NEW k \in 1 .. N PROVE turn[k] = Do(turn[k - 1], k)
    BY <1>6, <2>1
  <2> QED
    BY <2>2, <2>3
<1>8. \A e \in EdgesOf(rows) : /\ e[1] \in 0 .. N - 1 /\ e[1] \in Int /\ e[2] \in Nat \ {0}
                               /\ e[2] \in 1 .. Len(rows[e[1] + 1])
  <2>1. \A e \in EdgesOf(rows) : e[1] \in Int /\ e[1] + 1 \in 1 .. N /\ e[2] \in 1 .. Len(rows[e[1] + 1]) /\ e[2] \in Nat
    BY <1>1 DEF EdgesOf
  <2> QED
    BY <1>1, <2>1
<1>9. Carried(UpTo(rows, 0, 0), rows, turn[0])
  <2>1. UpTo(rows, 0, 0) = {}
    BY <1>8 DEF UpTo
  <2>2. EdgesOf(none) = {}
    BY DEF EdgesOf
  <2> DEFINE f == [x \in {} |-> x]
  <2>3. Paired({}, rows, none, f, f)
    BY <2>2 DEF Paired
  <2> QED
    BY <1>7, <2>1, <2>3 DEF Carried
<1>10. ASSUME NEW k \in 1 .. N PROVE UpTo(rows, k - 1, Len(rows[k])) = UpTo(rows, k, 0)
  <2>1. ASSUME NEW e \in EdgesOf(rows)
        PROVE  e[1] < k - 1 \/ (e[1] = k - 1 /\ e[2] <= Len(rows[k])) <=> e[1] < k \/ (e[1] = k /\ e[2] <= 0)
    <3>1. k \in Int /\ e[1] \in Int /\ e[2] \in Nat /\ ~(e[2] <= 0)
      BY <1>8
    <3>2. e[1] = k - 1 => e[2] <= Len(rows[k])
      <4>1. e[1] = k - 1 => e[1] + 1 = k
        BY <3>1
      <4>2. e[1] = k - 1 => e[2] \in 1 .. Len(rows[k])
        BY <1>8, <4>1
      <4>3. Len(rows[k]) \in Nat
        BY <1>3
      <4> QED
        BY <4>2, <4>3
    <3>3. e[1] < k <=> e[1] < k - 1 \/ e[1] = k - 1
      BY <3>1
    <3> QED
      BY <3>1, <3>2, <3>3
  <2> QED
    BY <2>1 DEF UpTo
<1>11. turn[N] \in S /\ Carried(UpTo(rows, N, 0), rows, turn[N])
  <2> DEFINE good == {k \in 0 .. N : turn[k] \in S /\ Carried(UpTo(rows, k, 0), rows, turn[k])}
  <2>1. 0 \in good
    BY <1>1, <1>4, <1>7, <1>9
  <2>2. ASSUME NEW k \in 1 .. N PROVE k - 1 \in good => k \in good
    <3>1. k \in 0 .. N
      BY <1>1
    <3>2. turn[k] = Do(turn[k - 1], k)
      BY <1>7
    <3> QED
      BY <1>5, <1>10, <3>1, <3>2
  <2>3. N \in good
    <3> HIDE DEF good
    <3>1. \A k \in 0 .. N : k \in good
      BY <1>1, <2>1, <2>2, Turn
    <3>2. N \in 0 .. N
      BY <1>1
    <3> QED
      BY <3>1, <3>2
  <2> QED
    BY <2>3
<1>12. UpTo(rows, N, 0) = EdgesOf(rows)
  <2>1. \A e \in EdgesOf(rows) : e[1] < N
    BY <1>1, <1>8
  <2> QED
    BY <2>1 DEF UpTo
<1> QED
  BY <1>2, <1>11, <1>12 DEF S, N

LEMMA CarriedBack ==
  ASSUME NEW a, NEW b, Carried(EdgesOf(a), a, b)
  PROVE  Carried(EdgesOf(b), b, a)
<1>1. PICK f, g : Paired(EdgesOf(a), a, b, f, g)
  BY DEF Carried
<1>2. Paired(EdgesOf(b), b, a, g, f)
  BY <1>1 DEF Paired
<1> QED
  BY <1>2 DEF Carried

\* Each way has a way back in the other graph.
LEMMA WaysBack ==
  ASSUME NEW a, NEW b, NEW N \in Nat, Len(a) = N, Len(b) = N,
         a \in Seq(Seq(0 .. N - 1)), b \in Seq(Seq(0 .. N - 1)),
         Carried(EdgesOf(a), a, b), NEW from, NEW to
  PROVE  ExistsInjection(Routes(a, from, to, {}), Routes(b, to, from, {}))
<1>1. PICK f, g : Paired(EdgesOf(a), a, b, f, g)
  BY DEF Carried
<1> DEFINE A == Routes(a, from, to, {})
           B == Routes(b, to, from, {})
           Turn1(h) == [k \in 1 .. Len(h) |-> f[h[Len(h) + 1 - k]]]
           back == [h \in A |-> Turn1(h)]
<1>2. /\ \A e \in EdgesOf(a) : /\ f[e] \in EdgesOf(b) /\ g[f[e]] = e
                               /\ f[e][1] = End(a, e) /\ End(b, f[e]) = e[1]
  BY <1>1 DEF Paired
<1>3. ASSUME NEW h \in A
      PROVE  /\ Len(h) \in Nat /\ h \in Seq(Hops(a)) /\ IsRoute(a, h, from, to, {})
             /\ \A k \in 1 .. Len(h) : h[k] \in EdgesOf(a) /\ End(a, h[k]) = Stop(h, to, k + 1)
  <2>1. h \in Seq(Hops(a)) /\ IsRoute(a, h, from, to, {}) /\ Len(h) \in Nat
    BY DEF Routes
  <2>2. ASSUME NEW k \in 1 .. Len(h) PROVE h[k] \in EdgesOf(a) /\ End(a, h[k]) = Stop(h, to, k + 1)
    <3>1. h[k] \in (0 .. N - 1) \X Nat
      BY <2>1 DEF Hops
    <3>2. h[k][2] \in 1 .. Len(a[h[k][1] + 1]) /\ a[h[k][1] + 1][h[k][2]] = Stop(h, to, k + 1)
      BY <2>1 DEF IsRoute
    <3>3. h[k] \in Int \X Nat /\ h[k][1] + 1 \in DOMAIN a
      <4>1. h[k][1] \in 0 .. N - 1 /\ DOMAIN a = 1 .. N
        BY <3>1
      <4> QED
        BY <3>1, <4>1
    <3> QED
      BY <3>2, <3>3 DEF EdgesOf, End
  <2> QED
    BY <2>1, <2>2
<1>4. ASSUME NEW h \in A PROVE Turn1(h) \in B
  <2> DEFINE n == Len(h)
             t == Turn1(h)
  <2>1. n \in Nat /\ \A k \in 1 .. n : n + 1 - k \in 1 .. n /\ h[n + 1 - k] \in EdgesOf(a)
    <3>1. n \in Nat
      BY <1>3
    <3>2. \A k \in 1 .. n : n + 1 - k \in 1 .. n
      BY <3>1
    <3> QED
      BY <1>3, <3>1, <3>2
  <2>2. \A k \in 1 .. n : t[k] = f[h[n + 1 - k]] /\ t[k] \in EdgesOf(b)
    BY <1>2, <2>1
  <2>3. \A e \in EdgesOf(b) : e \in Hops(b)
    <3>1. DOMAIN b = 1 .. N
      OBVIOUS
    <3>2. ASSUME NEW e \in EdgesOf(b) PROVE e \in Hops(b)
      <4>1. e \in Int \X Nat /\ e[1] + 1 \in 1 .. N
        BY <3>1 DEF EdgesOf
      <4>2. e[1] \in 0 .. N - 1 /\ e[2] \in Nat /\ e = <<e[1], e[2]>>
        BY <4>1
      <4> QED
        BY <4>2 DEF Hops
    <3> QED
      BY <3>2
  <2>4. t \in Seq(Hops(b)) /\ Len(t) = n
    <3>1. t \in [1 .. n -> Hops(b)]
      BY <2>2, <2>3
    <3> HIDE DEF n, t
    <3> QED
      BY <2>1, <3>1
  <2> HIDE DEF n, t
  <2>5. ASSUME NEW k \in 1 .. n + 1 PROVE Stop(t, from, k) = Stop(h, to, n + 2 - k)
    <3>1. CASE k <= n
      <4>1. k \in 1 .. n /\ (n + 1 - k) + 1 = n + 2 - k
        BY <2>1, <3>1
      <4>2. t[k][1] = End(a, h[n + 1 - k])
        BY <1>2, <2>1, <2>2, <4>1
      <4>3. End(a, h[n + 1 - k]) = Stop(h, to, n + 2 - k)
        BY <1>3, <2>1, <4>1 DEF n
      <4> QED
        BY <2>4, <3>1, <4>2, <4>3 DEF Stop
    <3>2. CASE ~(k <= n)
      <4>1. k = n + 1 /\ n + 2 - k = 1
        BY <2>1, <3>2
      <4>2. Stop(h, to, 1) = from
        BY <1>3 DEF IsRoute
      <4> QED
        BY <2>4, <3>2, <4>1, <4>2 DEF Stop
    <3> QED
      BY <3>1, <3>2
  <2>6. Stop(t, from, 1) = to
    <3>1. 1 \in 1 .. n + 1 /\ n + 2 - 1 = n + 1 /\ ~(n + 1 <= n)
      BY <2>1
    <3>2. Stop(h, to, n + 1) = to
      BY <3>1 DEF Stop, n
    <3> QED
      BY <2>5, <3>1, <3>2
  <2>7. ASSUME NEW k \in 1 .. n
        PROVE  t[k][2] \in 1 .. Len(b[t[k][1] + 1]) /\ b[t[k][1] + 1][t[k][2]] = Stop(t, from, k + 1)
    <3>1. t[k] \in EdgesOf(b) /\ t[k] = f[h[n + 1 - k]] /\ n + 1 - k \in 1 .. n /\ h[n + 1 - k] \in EdgesOf(a)
      BY <2>1, <2>2
    <3>2. End(b, t[k]) = h[n + 1 - k][1]
      BY <1>2, <3>1
    <3>3. k + 1 \in 1 .. n + 1 /\ n + 2 - (k + 1) = n + 1 - k /\ n + 1 - k <= n
      BY <2>1
    <3>4. Stop(t, from, k + 1) = Stop(h, to, n + 1 - k)
      BY <2>5, <3>3
    <3>5. Stop(h, to, n + 1 - k) = h[n + 1 - k][1]
      BY <3>3 DEF Stop, n
    <3> QED
      BY <3>1, <3>2, <3>4, <3>5 DEF EdgesOf, End
  <2>8. ASSUME NEW j \in 1 .. n + 1, NEW k \in 1 .. n + 1, Stop(t, from, j) = Stop(t, from, k) PROVE j = k
    <3>1. n + 2 - j \in 1 .. n + 1 /\ n + 2 - k \in 1 .. n + 1
      BY <2>1
    <3>2. Stop(h, to, n + 2 - j) = Stop(h, to, n + 2 - k)
      BY <2>5, <2>8
    <3>3. n + 2 - j = n + 2 - k
      BY <1>3, <3>1, <3>2 DEF IsRoute, n
    <3> QED
      BY <2>1, <3>3
  <2>9. IsRoute(b, t, to, from, {})
    BY <2>4, <2>6, <2>7, <2>8 DEF IsRoute
  <2> QED
    BY <2>4, <2>9 DEF Routes, t
<1>5. ASSUME NEW h \in A, NEW h2 \in A PROVE Turn1(h) = Turn1(h2) => h = h2
  <2>1. /\ Len(h) \in Nat /\ Len(h2) \in Nat /\ h \in Seq(Hops(a)) /\ h2 \in Seq(Hops(a))
        /\ \A k \in 1 .. Len(h) : h[k] \in EdgesOf(a)
        /\ \A k \in 1 .. Len(h2) : h2[k] \in EdgesOf(a)
    BY <1>3
  <2>2. DOMAIN Turn1(h) = 1 .. Len(h) /\ DOMAIN Turn1(h2) = 1 .. Len(h2)
    OBVIOUS
  <2>3. ASSUME NEW k \in 1 .. Len(h)
        PROVE  Len(h) + 1 - k \in 1 .. Len(h) /\ Turn1(h)[Len(h) + 1 - k] = f[h[k]]
    <3>1. Len(h) + 1 - k \in 1 .. Len(h) /\ Len(h) + 1 - (Len(h) + 1 - k) = k
      BY <2>1
    <3> QED
      BY <3>1
  <2>4. ASSUME NEW k \in 1 .. Len(h2)
        PROVE  Turn1(h2)[Len(h2) + 1 - k] = f[h2[k]]
    <3>1. Len(h2) + 1 - k \in 1 .. Len(h2) /\ Len(h2) + 1 - (Len(h2) + 1 - k) = k
      BY <2>1
    <3> QED
      BY <3>1
  <2> HIDE DEF Turn1
  <2>5. SUFFICES ASSUME Turn1(h) = Turn1(h2) PROVE h = h2
    OBVIOUS
  <2>6. Len(h) = Len(h2)
    <3>1. 1 .. Len(h) = 1 .. Len(h2)
      BY <2>2, <2>5
    <3>2. \A m, n \in Nat : 1 .. m = 1 .. n => m = n
      OBVIOUS
    <3> QED
      BY <2>1, <3>1, <3>2
  <2>7. ASSUME NEW k \in 1 .. Len(h) PROVE h[k] = h2[k]
    <3>1. f[h[k]] = f[h2[k]]
      BY <2>3, <2>4, <2>5, <2>6
    <3>2. g[f[h[k]]] = h[k] /\ g[f[h2[k]]] = h2[k]
      BY <1>2, <2>1, <2>6
    <3> QED
      BY <3>1, <3>2
  <2> QED
    BY <2>1, <2>6, <2>7, SeqEqual
<1> HIDE DEF A, B, Turn1
<1>6. back \in [A -> B] /\ \A h, h2 \in A : back[h] = back[h2] => h = h2
  BY <1>4, <1>5
<1> HIDE DEF back
<1>7. back \in Injection(A, B)
  BY <1>6 DEF Injection, IsInjective
<1> QED
  BY <1>7 DEF ExistsInjection, A, B

LEMMA NoMoreWays ==
  ASSUME NEW a, NEW b, NEW N \in Nat, Len(a) = N, Len(b) = N,
         a \in Seq(Seq(0 .. N - 1)), b \in Seq(Seq(0 .. N - 1)),
         Carried(EdgesOf(a), a, b), NEW from \in 0 .. N - 1, NEW to \in 0 .. N - 1
  PROVE  /\ Cardinality(Routes(a, from, to, {})) \in Nat
         /\ Cardinality(Routes(a, from, to, {})) <= Cardinality(Routes(b, to, from, {}))
<1> DEFINE A == Routes(a, from, to, {})
           B == Routes(b, to, from, {})
<1>1. IsFiniteSet(A)
  <2>1. a \in Seq(Seq(0 .. Len(a) - 1)) /\ from \in 0 .. Len(a) - 1 /\ {} \in SUBSET (0 .. Len(a) - 1)
    OBVIOUS
  <2> QED
    BY <2>1, FiniteRoutes
<1>2. IsFiniteSet(B)
  <2>1. b \in Seq(Seq(0 .. Len(b) - 1)) /\ to \in 0 .. Len(b) - 1 /\ {} \in SUBSET (0 .. Len(b) - 1)
    OBVIOUS
  <2> QED
    BY <2>1, FiniteRoutes
<1>3. ExistsInjection(A, B)
  BY WaysBack
<1> HIDE DEF A, B
<1>4. PICK back : back \in Injection(A, B)
  BY <1>3 DEF ExistsInjection
<1>5. Cardinality(A) <= Cardinality(B)
  BY <1>2, <1>4, FS_Injection
<1>6. Cardinality(A) \in Nat
  BY <1>1, FS_CardinalityType
<1> QED
  BY <1>5, <1>6 DEF A, B

\* Both counts are right on every graph.
LEMMA WaysOfRows ==
  ASSUME NEW rows, rows \in Seq(Seq(0 .. Len(rows) - 1)),
         NEW from \in 0 .. Len(rows) - 1, NEW to \in 0 .. Len(rows) - 1
  PROVE  /\ way_count(rows, from, to) = SimpleWays(rows, from, to)
         /\ way_count(revert_graph(rows), to, from) = SimpleWays(rows, from, to)
<1> DEFINE b == revert_graph(rows)
           N == Len(rows)
           there == Cardinality(Routes(rows, from, to, {}))
           back == Cardinality(Routes(b, to, from, {}))
<1>1. SimpleWays(rows, from, to) = there /\ way_count(rows, from, to) = there
  BY SimpleWaysAre, CountsRoutes
<1>2. N \in Nat /\ rows \in Seq(Seq(0 .. N - 1)) /\ from \in 0 .. N - 1 /\ to \in 0 .. N - 1
  OBVIOUS
<1>3. b \in [1 .. N -> Seq(0 .. N - 1)] /\ Carried(EdgesOf(rows), rows, b)
  BY RevertGraph
<1> HIDE DEF b
<1>4. Len(b) = N /\ b \in Seq(Seq(0 .. N - 1))
  <2> HIDE DEF N
  <2> QED
    BY <1>2, <1>3
<1>5. Carried(EdgesOf(b), b, rows)
  BY <1>3, CarriedBack
<1>6. way_count(b, to, from) = back
  <2>1. b \in Seq(Seq(0 .. Len(b) - 1)) /\ to \in 0 .. Len(b) - 1
    BY <1>2, <1>4
  <2> QED
    BY <2>1, CountsRoutes
<1>7. there \in Nat /\ back \in Nat /\ there <= back /\ back <= there
  <2>1. Len(rows) = N
    OBVIOUS
  <2> HIDE DEF N
  <2> QED
    BY <1>2, <1>3, <1>4, <1>5, <2>1, NoMoreWays
<1> HIDE DEF there, back
<1>8. there = back
  BY <1>7
<1> QED
  BY <1>1, <1>6, <1>8 DEF b

-----------------------------------------------------------------------------
(* The ends of all edges are vertices.                                     *)

\* Every end in a graph is one of its vertices.
InBounds(lists) == lists \in Seq(Seq(0 .. Len(lists) - 1))

\* What is kept of a row was in it, and was not the removed end.
LEMMA KeptEnds ==
  ASSUME NEW V, V \subseteq Int, NEW row \in Seq(V), NEW end
  PROVE  Kept(row, end, Len(row)) \in Seq(V \ {end})
<1> DEFINE n == Len(row)
           good == {k \in 0 .. n : Kept(row, end, k) \in Seq(V \ {end})}
<1>1. n \in Nat /\ row \in Seq(Int) /\ \A k \in 1 .. n : row[k] \in V
  <2>1. n \in Nat /\ row \in [1 .. n -> V]
    OBVIOUS
  <2>2. row \in [1 .. n -> Int]
    BY <2>1
  <2> HIDE DEF n
  <2> QED
    BY <2>1, <2>2
<1>2. /\ Kept(row, end, 0) = <<>>
      /\ \A k \in 0 .. n - 1 :
           Kept(row, end, k + 1) = IF row[k + 1] = end THEN Kept(row, end, k)
                                                        ELSE Append(Kept(row, end, k), row[k + 1])
  BY <1>1, KeptStep
<1> HIDE DEF n
<1>3. 0 \in good
  <2>1. 0 \in 0 .. n /\ <<>> \in Seq(V \ {end})
    BY <1>1
  <2> QED
    BY <1>2, <2>1
<1>4. ASSUME NEW k \in 1 .. n PROVE k - 1 \in good => k \in good
  <2>1. k - 1 \in 0 .. n - 1 /\ (k - 1) + 1 = k /\ k \in 0 .. n
    BY <1>1
  <2>2. Kept(row, end, k) = IF row[k] = end THEN Kept(row, end, k - 1)
                                            ELSE Append(Kept(row, end, k - 1), row[k])
    BY <1>2, <2>1
  <2>3. row[k] # end => row[k] \in V \ {end}
    BY <1>1
  <2>4. \A s \in Seq(V \ {end}) : \A x \in V \ {end} : Append(s, x) \in Seq(V \ {end})
    BY AppendProperties
  <2> QED
    BY <2>1, <2>2, <2>3, <2>4
<1>5. n \in good
  <2> HIDE DEF good
  <2>1. \A k \in 0 .. n : k \in good
    BY <1>1, <1>3, <1>4, Turn
  <2>2. n \in 0 .. n
    BY <1>1
  <2> QED
    BY <2>1, <2>2
<1> QED
  BY <1>5 DEF n

\* The abstract operations keep the ends in bounds.
LEMMA RowsInBounds ==
  ASSUME NEW N \in Nat, NEW b \in [1 .. N -> Seq(0 .. N - 1)]
  PROVE  InBounds(b)
<1>1. Len(b) = N /\ b \in Seq(Seq(0 .. N - 1))
  OBVIOUS
<1> QED
  BY <1>1 DEF InBounds

LEMMA BoundsInit == Abstract!Init => InBounds(Bar)
<1> SUFFICES ASSUME Bar \in Seq({<<>>}) PROVE InBounds(Bar)
  BY DEF Abstract!Init, Bar
<1> DEFINE a == Bar
           N == Len(a)
<1>1. N \in Nat /\ a \in [1 .. N -> {<<>>}]
  OBVIOUS
<1> HIDE DEF a, N
<1>2. <<>> \in Seq(0 .. N - 1)
  OBVIOUS
<1>3. a \in [1 .. N -> Seq(0 .. N - 1)]
  BY <1>1, <1>2
<1> QED
  BY <1>1, <1>3, RowsInBounds DEF a

\* The ends that are left when a vertex goes.
LEMMA GoneEnds ==
  ASSUME NEW N \in Nat, NEW vertex \in 0 .. N - 1, NEW row \in Seq(0 .. N - 1)
  PROVE  Moved(Kept(row, vertex, Len(row)), vertex) \in Seq(0 .. (N - 1) - 1)
<1> DEFINE V == 0 .. N - 1
           s == Kept(row, vertex, Len(row))
<1>1. s \in Seq(V \ {vertex})
  BY KeptEnds
<1> HIDE DEF s
<1>2. ASSUME NEW k \in 1 .. Len(s)
      PROVE  (IF s[k] > vertex THEN s[k] - 1 ELSE s[k]) \in 0 .. (N - 1) - 1
  <2>1. s[k] \in V \ {vertex}
    BY <1>1
  <2> QED
    BY <2>1
<1>3. Moved(s, vertex) = [k \in 1 .. Len(s) |-> IF s[k] > vertex THEN s[k] - 1 ELSE s[k]]
  BY <1>1 DEF Moved, Abstract!Moved
<1>4. Len(s) \in Nat
  BY <1>1
<1>5. Moved(s, vertex) \in [1 .. Len(s) -> 0 .. (N - 1) - 1]
  BY <1>2, <1>3
<1> HIDE DEF V
<1>6. Moved(s, vertex) \in Seq(0 .. (N - 1) - 1)
  BY <1>4, <1>5
<1> QED
  BY <1>6 DEF s

LEMMA BoundsKeep == InBounds(Bar) /\ AbstractStep => InBounds(Bar')
<1> SUFFICES ASSUME InBounds(Bar), AbstractStep PROVE InBounds(Bar')
  OBVIOUS
<1> DEFINE a == Bar
           b == Bar'
           N == Len(a)
           V == 0 .. N - 1
<1>1. N \in Nat /\ a \in Seq(Seq(V)) /\ a \in [1 .. N -> Seq(V)]
  BY DEF InBounds
<1> HIDE DEF a, b, N
<1>2. CASE b = a
  BY <1>2 DEF a, b
<1>3. CASE Abstract!add_vertex
  <2>1. b = Append(a, <<>>)
    BY <1>3 DEF Abstract!add_vertex, Bar, a, b
  <2>2. Len(b) = N + 1
    BY <1>1, <2>1 DEF N
  <2>3. \A k \in 1 .. N + 1 : b[k] = IF k \in 1 .. N THEN a[k] ELSE <<>>
    BY <1>1, <2>1 DEF N
  <2>4. \A s \in Seq(V) : s \in Seq(0 .. (N + 1) - 1)
    BY <1>1
  <2>5. \A k \in 1 .. N + 1 : b[k] \in Seq(0 .. (N + 1) - 1)
    <3>1. <<>> \in Seq(0 .. (N + 1) - 1)
      OBVIOUS
    <3>2. \A k \in 1 .. N : a[k] \in Seq(V)
      BY <1>1
    <3> HIDE DEF V
    <3> QED
      BY <2>3, <2>4, <3>1, <3>2
  <2>6. b \in Seq(Seq(Int))
    <3>1. a \in Seq(Seq(Int)) /\ <<>> \in Seq(Int)
      BY <1>1
    <3> QED
      BY <2>1, <3>1
  <2>7. b \in [1 .. N + 1 -> Seq(0 .. (N + 1) - 1)]
    BY <2>2, <2>5, <2>6
  <2>8. InBounds(b)
    BY <1>1, <2>7, RowsInBounds
  <2> QED
    BY <2>8 DEF b
<1>4. ASSUME NEW from \in V, NEW to \in V, Abstract!add_edge(from, to) PROVE InBounds(Bar')
  <2>1. b = [a EXCEPT ![from + 1] = Append(@, to)]
    BY <1>4 DEF Abstract!add_edge, Bar, a, b
  <2>2. from + 1 \in 1 .. N /\ Append(a[from + 1], to) \in Seq(V)
    BY <1>1
  <2>3. b \in [1 .. N -> Seq(V)]
    BY <1>1, <2>1, <2>2
  <2> QED
    BY <1>1, <2>3, RowsInBounds DEF b
<1>5. ASSUME NEW from \in V, NEW to \in V, Abstract!remove_edge(from, to) PROVE InBounds(Bar')
  <2>1. b = [a EXCEPT ![from + 1] = Kept(a[from + 1], to, Len(a[from + 1]))]
    BY <1>5 DEF Abstract!remove_edge, Bar, Kept, a, b
  <2>2. from + 1 \in 1 .. N /\ a[from + 1] \in Seq(V) /\ V \subseteq Int
    BY <1>1
  <2>3. Kept(a[from + 1], to, Len(a[from + 1])) \in Seq(V)
    <3> DEFINE s == Kept(a[from + 1], to, Len(a[from + 1]))
    <3>1. s \in Seq(V \ {to})
      BY <2>2, KeptEnds
    <3> HIDE DEF s, V
    <3>2. s \in Seq(V)
      BY <3>1
    <3> QED
      BY <3>2 DEF s
  <2>4. b \in [1 .. N -> Seq(V)]
    BY <1>1, <2>1, <2>2, <2>3
  <2> QED
    BY <1>1, <2>4, RowsInBounds DEF b
<1>6. ASSUME NEW vertex \in V, Abstract!remove_vertex(vertex) PROVE InBounds(Bar')
  <2> DEFINE others == [k \in 1 .. N - 1 |-> a[IF k <= vertex THEN k ELSE k + 1]]
             left(k) == Moved(Kept(others[k], vertex, Len(others[k])), vertex)
  <2>1. b = [k \in DOMAIN others |-> left(k)]
    BY <1>6 DEF Abstract!remove_vertex, Bar, Kept, Moved, N, a, b
  <2>2. DOMAIN others = 1 .. N - 1 /\ N - 1 \in Nat
    BY <1>1
  <2>3. ASSUME NEW k \in 1 .. N - 1 PROVE left(k) \in Seq(0 .. (N - 1) - 1)
    <3>1. (IF k <= vertex THEN k ELSE k + 1) \in 1 .. N
      BY <1>1
    <3>2. others[k] \in Seq(0 .. N - 1)
      BY <1>1, <3>1
    <3> HIDE DEF others
    <3> QED
      BY <1>1, <3>2, GoneEnds
  <2> HIDE DEF others, left
  <2>4. b \in [1 .. N - 1 -> Seq(0 .. (N - 1) - 1)]
    BY <2>1, <2>2, <2>3
  <2> QED
    BY <2>2, <2>4, RowsInBounds DEF b
<1> QED
  BY <1>2, <1>3, <1>4, <1>5, <1>6 DEF AbstractStep, Abstract!Next, Abstract!VerticesOf, Bar, N, a, b

LEMMA InvWays == IInv /\ InBounds(Bar) => Ways
<1> SUFFICES ASSUME IInv, InBounds(Bar), pc = "idle",
                    NEW from \in DOMAIN vertices, NEW to \in DOMAIN vertices
             PROVE  /\ way_count(Rows, from, to) = SimpleWays(Rows, from, to)
                    /\ way_count(revert_graph(Rows), to, from) = SimpleWays(Rows, from, to)
  BY DEF Ways
<1>1. Rows \in Seq(Seq(0 .. Len(Rows) - 1))
  BY DEF Bar, InBounds
<1>2. Abstract!VerticesOf(Rows) = DOMAIN vertices
  BY BarIdle DEF Bar
<1>3. from \in 0 .. Len(Rows) - 1 /\ to \in 0 .. Len(Rows) - 1
  BY <1>2 DEF Abstract!VerticesOf
<1> QED
  BY <1>1, <1>3, WaysOfRows

\* Whatever calls have built a graph: way_count counts the ways that visit no
\* vertex twice, although its calls share no marks, and revert_graph makes a
\* graph that has the same ways backwards.
THEOREM WaysAlways == Spec => []Ways
<1>1. Init => IInv
  BY InvInit
<1>2. IInv /\ [Next]_vars => IInv'
  BY InvKeeps
<1>3. IInv /\ Init => Progress /\ InBounds(Bar)
  BY ProgressInit, BoundsInit
<1>4. IInv /\ IInv' /\ Progress /\ InBounds(Bar) /\ [Next]_vars => Progress' /\ InBounds(Bar)'
  <2>1. InBounds(Bar)' <=> InBounds(Bar')
    BY DEF InBounds
  <2> QED
    BY <2>1, ProgressKeeps, BoundsKeep
<1>5. IInv /\ InBounds(Bar) => Ways
  BY InvWays
<1> QED
  BY <1>1, <1>2, <1>3, <1>4, <1>5, PTL DEF Spec
=============================================================================
