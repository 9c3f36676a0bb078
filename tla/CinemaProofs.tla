---------------------------- MODULE CinemaProofs ----------------------------
(***************************************************************************)
(* Theorems about module Cinema, for every number of clients and sellers   *)
(* and every hall, whether or not the message queue can be used.           *)
(***************************************************************************)
EXTENDS Cinema, FiniteSetTheorems, TLAPS

-----------------------------------------------------------------------------
(* Helpers of the message queue.                                           *)

\* A set of natural numbers that is not empty has a smallest element, and
\* Min returns it.
LEMMA MinOfNaturals ==
  ASSUME NEW S, S \subseteq Nat, S # {}
  PROVE  Min(S) \in S /\ \A y \in S : Min(S) <= y
<1> DEFINE R == {ss \in Nat \X Nat : ss[1] < ss[2]}
<1>1. IsWellFoundedOn(R, Nat)
  BY NatLessThanWellFounded DEF OpToRel
<1> HIDE DEF R
<1>2. PICK x \in S : \A y \in S : ~(<<y, x>> \in R)
  BY <1>1, WFMin
<1>3. ASSUME NEW y \in S PROVE x <= y
  <2>1. <<y, x>> \in Nat \X Nat /\ <<y, x>>[1] = y /\ <<y, x>>[2] = x
    OBVIOUS
  <2>2. ~(y < x)
    BY <1>2, <2>1 DEF R
  <2> QED
    BY <2>2
<1> QED
  BY <1>3 DEF Min

\* msgrcv takes a message that is in the queue.
LEMMA ReceivedIsThere ==
  ASSUME NEW T, NEW q \in Seq(T), NEW type, Wanted(q, type) # {}
  PROVE  Received(q, type) \in 1 .. Len(q)
<1>1. Wanted(q, type) \subseteq 1 .. Len(q)
  BY DEF Wanted
<1>2. Wanted(q, type) \subseteq Nat
  BY <1>1
<1> QED
  BY <1>1, <1>2, MinOfNaturals DEF Received

\* What is left of a queue when a message is taken from it is a queue.
LEMMA RemovedIsSequence ==
  ASSUME NEW T, NEW q \in Seq(T), NEW k \in 1 .. Len(q)
  PROVE  RemoveAt(q, k) \in Seq(T)
<1>1. SubSeq(q, 1, k - 1) \in Seq(T) /\ SubSeq(q, k + 1, Len(q)) \in Seq(T)
  OBVIOUS
<1> QED
  BY <1>1 DEF RemoveAt

\* The queue starts empty: a message of type -i, which is never positive, is
\* refused, and initializer() does not look at what msgsnd returned.
LEMMA NoTokens == Tokens[Sellers] = <<>>
<1> DEFINE Step(f, n) == IF n = 0 THEN <<>> ELSE Sent(f[n - 1], [mestype |-> -(n - 1), pid |-> -1])
           none == [n \in 0 .. Sellers |-> <<>>]
<1>1. \A q : \A n \in Nat \ {0} : Sent(q, [mestype |-> -(n - 1), pid |-> -1]) = q
  BY DEF Sent, Sendable
<1>2. none = [n \in 0 .. Sellers |-> Step(none, n)]
  BY <1>1, CinemaAssumption
<1>3. Tokens = [n \in 0 .. Sellers |-> Step(Tokens, n)]
  BY <1>2 DEF Tokens
<1> DEFINE wrong == {n \in 0 .. Sellers : Tokens[n] # <<>>}
<1>4. wrong = {}
  <2> SUFFICES ASSUME wrong # {} PROVE FALSE
    OBVIOUS
  <2>1. PICK n : n \in wrong /\ \A m \in wrong : n <= m
    <3> wrong \subseteq Nat
      OBVIOUS
    <3> HIDE DEF wrong
    <3> QED
      BY MinOfNaturals
  <2>2. Tokens[0] = <<>>
    BY <1>3, CinemaAssumption
  <2>3. n # 0 /\ n - 1 \in 0 .. Sellers
    BY <2>1, <2>2, CinemaAssumption
  <2>4. Tokens[n - 1] = <<>>
    BY <2>1, <2>3
  <2>5. Tokens[n] = Sent(Tokens[n - 1], [mestype |-> -(n - 1), pid |-> -1])
    BY <1>3, <2>1, <2>3
  <2> QED
    <3>1. n \in Nat \ {0}
      BY <2>1, <2>3
    <3> QED
      BY <1>1, <2>1, <2>4, <2>5, <3>1
<1> QED
  BY <1>4, CinemaAssumption

-----------------------------------------------------------------------------
(* Types.                                                                  *)

\* A seat is an index of the hall, or lies one row and one place past it.
LEMMA SeatInRange ==
  ASSUME NEW row \in 0 .. Rows, NEW pos \in 0 .. RowLength
  PROVE  RowLength * row + pos \in 0 .. RowLength * Rows + RowLength
<1>1. RowLength \in Nat /\ Rows \in Nat
  BY CinemaAssumption
<1>2. \A a, b, n \in Nat : a <= b => n * a \in Nat /\ n * b \in Nat /\ n * a <= n * b
  OBVIOUS
<1>3. RowLength * row \in Nat /\ RowLength * Rows \in Nat /\ RowLength * row <= RowLength * Rows
  BY <1>1, <1>2
<1> QED
  BY <1>1, <1>3

\* A client moves from one place of the program to another.
LEMMA GoMoves ==
  ASSUME TypeOK, NEW c \in Clients, NEW from, NEW to \in Places, Go(c, from, to)
  PROVE  /\ pc' \in [Clients -> Places]
         /\ pc[c] = from /\ pc'[c] = to
         /\ \A d \in Clients : d # c => pc'[d] = pc[d]
BY DEF TypeOK, Go

\* A client posts n to the door of seller s, if there is such a door.
LEMMA PostAdds ==
  ASSUME TypeOK, NEW s \in 0 .. Sellers, NEW n \in Nat, Post(s, n)
  PROVE  /\ door' \in [SellerNos -> Nat]
         /\ \A t \in SellerNos : door'[t] = door[t] + IF t = s THEN n ELSE 0
BY DEF TypeOK, Post

\* Whatever is sent, the queue is one of messages.
LEMMA SentIsQueue ==
  ASSUME NEW q \in Seq(Messages), NEW type \in Int, NEW p \in Int
  PROVE  Sent(q, [mestype |-> type, pid |-> p]) \in Seq(Messages)
<1>1. [mestype |-> type, pid |-> p] \in Messages
  BY DEF Messages
<1>2. Append(q, [mestype |-> type, pid |-> p]) \in Seq(Messages)
  BY <1>1
<1> QED
  BY <1>2 DEF Sent

\* A client that sits down has found a seat: TypeOK is not inductive without it.
FoundOne == \A c \in Clients : pc[c] = "sit" => seat[c] # NoSeat

LEMMA InitTypeOK == Init => TypeOK
BY NoTokens, CinemaAssumption DEF Init, TypeOK, SellerNos, Places, NoSeat

LEMMA TypeStep == TypeOK /\ FoundOne /\ [Next]_vars => TypeOK'
<1> SUFFICES ASSUME TypeOK, FoundOne, [Next]_vars PROVE TypeOK'
  OBVIOUS
<1> USE DEF TypeOK
<1>1. ASSUME NEW s \in SellerNos, Serve(s) PROVE TypeOK'
  <2>1. door[s] - phase[s] \in Nat /\ (IF phase[s] = 3 THEN 1 ELSE phase[s] + 1) \in 1 .. 3
    BY <1>1 DEF Serve
  <2> QED
    BY <1>1, <2>1 DEF Serve
<1>2. ASSUME NEW c \in Clients, Choose(c) PROVE TypeOK'
  <2>1. PICK s \in Draw(Sellers) :
          /\ seller_no' = [seller_no EXCEPT ![c] = s]
          /\ draws' = IF s = Sellers THEN draws + 1 ELSE draws
          /\ IF s = Sellers THEN Post(0, 1) /\ UNCHANGED counter
             ELSE counter' = [counter EXCEPT ![s] = @ + 1] /\ UNCHANGED door
    BY <1>2 DEF Choose
  <2>2. s \in 0 .. Sellers /\ draws' \in 0 .. LuckyDraws + 1
    BY <2>1, CinemaAssumption DEF Draw
  <2>3. counter' \in [SellerNos -> Nat] /\ door' \in [SellerNos -> Nat]
    <3>1. CASE s = Sellers
      <4>1. 0 \in 0 .. Sellers /\ Post(0, 1) /\ counter' = counter
        BY <2>1, <3>1, CinemaAssumption
      <4> QED
        BY <4>1, PostAdds
    <3>2. CASE s # Sellers
      <4>1. counter' = [counter EXCEPT ![s] = @ + 1] /\ door' = door
        BY <2>1, <3>2
      <4>2. s \in SellerNos
        BY <2>2, <3>2, CinemaAssumption DEF SellerNos
      <4>3. counter[s] + 1 \in Nat
        BY <4>2
      <4> QED
        BY <4>1, <4>3
    <3> QED
      BY <3>1, <3>2
  <2>4. pc' \in [Clients -> Places]
    BY <1>2, GoMoves DEF Choose, Places
  <2> QED
    BY <1>2, <2>1, <2>2, <2>3, <2>4 DEF Choose
<1>3. ASSUME NEW c \in Clients, ReadNumber(c) PROVE TypeOK'
  <2>1. (IF seller_no[c] = Sellers THEN door[0] ELSE counter[seller_no[c]]) \in Nat
    BY CinemaAssumption DEF SellerNos
  <2>2. pc' \in [Clients -> Places]
    BY <1>3, GoMoves DEF ReadNumber, Places
  <2> QED
    BY <1>3, <2>1, <2>2 DEF ReadNumber
<1>4. ASSUME NEW c \in Clients, AwaitTurn(c) PROVE TypeOK'
  <2>1. pc' \in [Clients -> Places]
    BY <1>4, GoMoves DEF AwaitTurn, Places
  <2>2. queue' \in Seq(Messages) /\ prevpid' \in [Clients -> Int]
    <3>1. CASE MsgAccess
      <4> DEFINE k == Received(queue, -seller_no[c])
      <4>1. k \in 1 .. Len(queue)
        BY <1>4, <3>1, ReceivedIsThere DEF AwaitTurn
      <4>2. queue' = RemoveAt(queue, k) /\ prevpid' = [prevpid EXCEPT ![c] = queue[k].pid]
        BY <1>4, <3>1 DEF AwaitTurn
      <4> HIDE DEF k
      <4>3. queue[k] \in Messages
        BY <4>1
      <4>4. queue[k].pid \in Int
        BY <4>3 DEF Messages
      <4> QED
        BY <4>1, <4>2, <4>4, RemovedIsSequence
    <3>2. CASE ~MsgAccess
      BY <1>4, <3>2 DEF AwaitTurn
    <3> QED
      BY <3>1, <3>2
  <2> QED
    BY <1>4, <2>1, <2>2 DEF AwaitTurn
<1>5. ASSUME NEW c \in Clients, NEW from, NEW to \in Places, Announce(c, from, to) PROVE TypeOK'
  <2>1. pc' \in [Clients -> Places]
    BY <1>5, GoMoves DEF Announce
  <2>2. -seller_no[c] \in Int /\ c \in Int
    BY CinemaAssumption
  <2>3. queue' \in Seq(Messages)
    BY <1>5, <2>2, SentIsQueue DEF Announce
  <2> QED
    BY <1>5, <2>1, <2>3 DEF Announce
<1>6. ASSUME NEW c \in Clients, AwaitPrevious(c) PROVE TypeOK'
  <2>1. pc' \in [Clients -> Places]
    BY <1>6, GoMoves DEF AwaitPrevious, Places
  <2>2. queue' \in Seq(Messages)
    <3>1. CASE MsgAccess
      <4>1. /\ Wanted(queue, prevpid[c]) # {}
            /\ queue' = RemoveAt(queue, Received(queue, prevpid[c]))
        BY <1>6, <3>1 DEF AwaitPrevious
      <4>2. Received(queue, prevpid[c]) \in 1 .. Len(queue)
        BY <4>1, ReceivedIsThere
      <4> QED
        BY <4>1, <4>2, RemovedIsSequence
    <3>2. CASE ~MsgAccess
      BY <1>6, <3>2 DEF AwaitPrevious
    <3> QED
      BY <3>1, <3>2
  <2> QED
    BY <1>6, <2>1, <2>2 DEF AwaitPrevious
<1>7. ASSUME NEW c \in Clients, KnockAtDoor(c) \/ TellSeat(c) \/ Thank(c) PROVE TypeOK'
  <2>1. pc' \in [Clients -> Places]
    BY <1>7, GoMoves DEF KnockAtDoor, TellSeat, Thank, Places
  <2>2. door' \in [SellerNos -> Nat]
    BY <1>7, PostAdds DEF KnockAtDoor, TellSeat, Thank
  <2> QED
    BY <1>7, <2>1, <2>2 DEF KnockAtDoor, TellSeat, Thank
<1>8. ASSUME NEW c \in Clients, FindSeat(c) PROVE TypeOK'
  <2>1. pc' \in [Clients -> Places]
    BY <1>8, GoMoves DEF FindSeat, Places
  <2>2. PICK row \in Draw(Rows), pos \in Draw(RowLength) :
          /\ seat' = [seat EXCEPT ![c] = RowLength * row + pos]
          /\ draws' = IF row = Rows \/ pos = RowLength THEN draws + 1 ELSE draws
    BY <1>8 DEF FindSeat
  <2>3. row \in 0 .. Rows /\ pos \in 0 .. RowLength /\ draws' \in 0 .. LuckyDraws + 1
    BY <2>2, CinemaAssumption DEF Draw
  <2>4. RowLength * row + pos \in 0 .. RowLength * Rows + RowLength
    BY <2>3, SeatInRange
  <2> QED
    BY <1>8, <2>1, <2>2, <2>3, <2>4 DEF FindSeat
<1>9. ASSUME NEW c \in Clients, TakeSeat(c) PROVE TypeOK'
  <2>1. pc' \in [Clients -> Places]
    BY <1>9, GoMoves DEF TakeSeat, Places
  <2>2. seat[c] \in 0 .. RowLength * Rows + RowLength
    BY <1>9 DEF TakeSeat, Go, FoundOne
  <2> QED
    BY <1>9, <2>1, <2>2 DEF TakeSeat
<1>10. ASSUME NEW c \in Clients, WakeNext(c) PROVE TypeOK'
  <2>1. pc' \in [Clients -> Places]
    BY <1>10, GoMoves DEF WakeNext, Places
  <2>2. queue' \in Seq(Messages)
    BY <1>10, SentIsQueue, CinemaAssumption DEF WakeNext
  <2> QED
    BY <1>10, <2>1, <2>2 DEF WakeNext
<1>11. CASE UNCHANGED vars
  BY <1>11 DEF vars
<1>12. {"previous", "door"} \subseteq Places
  BY DEF Places
<1> QED
  BY <1>1, <1>2, <1>3, <1>4, <1>5, <1>6, <1>7, <1>8, <1>9, <1>10, <1>11, <1>12
  DEF Next, ClientNext

-----------------------------------------------------------------------------
(* The balance of a door.                                                  *)

\* What seller s has taken beside 6 for each ticket: it gives the ticket
\* before it waits for the last 3.
Taken(s) == CASE phase[s] = 1 -> 0 [] phase[s] = 2 -> 1 [] phase[s] = 3 -> -3

\* A seller takes from its door exactly what was put there.
DoorBalance ==
  \A s \in SellerNos :
    door[s] + 6 * served[s] + Taken(s)
      = Cardinality(Came(s, Knocked)) + 2 * Cardinality(Came(s, Told))
          + 3 * Cardinality(Came(s, Thanked)) + Strays(s)

IInv == TypeOK /\ FoundOne /\ DoorBalance

\* Counting is only possible because there are finitely many clients.
LEMMA CameIsFinite ==
  ASSUME NEW s, NEW places
  PROVE  IsFiniteSet(Came(s, places)) /\ Cardinality(Came(s, places)) \in Nat
<1>1. Came(s, places) \in SUBSET Clients
  BY DEF Came
<1>2. IsFiniteSet(Came(s, places))
  BY <1>1, FS_Subset, CinemaAssumption
<1> QED
  BY <1>2, FS_CardinalityType

\* How the clients of seller s at some places change when one client moves.
LEMMA CameChanges ==
  ASSUME TypeOK, NEW c \in Clients, NEW from, NEW to \in Places, Go(c, from, to),
         seller_no' = seller_no, NEW CONSTANT s, NEW CONSTANT places
  PROVE  /\ (from \in places <=> to \in places) => Came(s, places)' = Came(s, places)
         /\ from \notin places /\ to \in places =>
              Cardinality(Came(s, places)') =
                Cardinality(Came(s, places)) + (IF seller_no[c] = s THEN 1 ELSE 0)
<1>1. /\ pc[c] = from /\ pc'[c] = to
      /\ \A d \in Clients : d # c => pc'[d] = pc[d]
  BY GoMoves
<1>2. Came(s, places)' = {d \in Clients : seller_no[d] = s /\ pc'[d] \in places}
  BY DEF Came
<1>3. (from \in places <=> to \in places) => Came(s, places)' = Came(s, places)
  BY <1>1, <1>2 DEF Came
<1>4. ASSUME from \notin places, to \in places, seller_no[c] = s
      PROVE  c \notin Came(s, places) /\ Came(s, places)' = Came(s, places) \union {c}
  BY <1>1, <1>2, <1>4 DEF Came
<1>5. ASSUME from \notin places, to \in places, seller_no[c] # s
      PROVE  Came(s, places)' = Came(s, places)
  BY <1>1, <1>2, <1>5 DEF Came
<1>6. \A x : x \notin Came(s, places) =>
        Cardinality(Came(s, places) \union {x}) = Cardinality(Came(s, places)) + 1
  BY CameIsFinite, FS_AddElement
<1> QED
  BY <1>3, <1>4, <1>5, <1>6, CameIsFinite

\* A client that is in the program posts to its door the amount that belongs
\* to its step: 1 when it knocks, 2 when it tells its seat, 3 when it thanks.
Owes(from, to) ==
  (IF from \notin Knocked /\ to \in Knocked THEN 1 ELSE 0)
    + 2 * (IF from \notin Told /\ to \in Told THEN 1 ELSE 0)
    + 3 * (IF from \notin Thanked /\ to \in Thanked THEN 1 ELSE 0)

LEMMA PayKeeps ==
  ASSUME TypeOK, DoorBalance, NEW c \in Clients, NEW from \in Places, NEW to \in Places,
         Go(c, from, to), UNCHANGED <<seller_no, phase, served>>,
         from # "start", to # "start",
         from \in Knocked => to \in Knocked,
         from \in Told => to \in Told,
         from \in Thanked => to \in Thanked,
         \A s \in SellerNos : door'[s] = door[s] + IF s = seller_no[c] THEN Owes(from, to) ELSE 0
  PROVE  DoorBalance'
<1> SUFFICES ASSUME NEW s \in SellerNos
             PROVE  door'[s] + 6 * served[s] + Taken(s)
                      = Cardinality(Came(s, Knocked)') + 2 * Cardinality(Came(s, Told)')
                          + 3 * Cardinality(Came(s, Thanked)') + Strays(s)'
  BY DEF DoorBalance, Taken, Came
<1>1. Came(Sellers, Places \ {"start"})' = Came(Sellers, Places \ {"start"})
  BY CameChanges
<1>2. Strays(s)' = Strays(s) /\ Strays(s) \in Nat
  BY <1>1, CameIsFinite DEF Strays, At
<1> DEFINE more(places) == IF from \notin places /\ to \in places THEN 1 ELSE 0
           mine == IF seller_no[c] = s THEN 1 ELSE 0
<1>3. /\ Cardinality(Came(s, Knocked)') = Cardinality(Came(s, Knocked)) + mine * more(Knocked)
      /\ Cardinality(Came(s, Told)') = Cardinality(Came(s, Told)) + mine * more(Told)
      /\ Cardinality(Came(s, Thanked)') = Cardinality(Came(s, Thanked)) + mine * more(Thanked)
  BY CameChanges, CameIsFinite
<1>4. door'[s] = door[s] + mine * (more(Knocked) + 2 * more(Told) + 3 * more(Thanked))
  BY DEF Owes, TypeOK
<1>5. door[s] + 6 * served[s] + Taken(s)
        = Cardinality(Came(s, Knocked)) + 2 * Cardinality(Came(s, Told))
            + 3 * Cardinality(Came(s, Thanked)) + Strays(s)
  BY DEF DoorBalance
<1>6. /\ door[s] \in Nat /\ served[s] \in Nat /\ Taken(s) \in Int
      /\ Cardinality(Came(s, Knocked)) \in Nat /\ Cardinality(Came(s, Told)) \in Nat
      /\ Cardinality(Came(s, Thanked)) \in Nat
  BY CameIsFinite DEF TypeOK, Taken
<1>7. mine \in {0, 1} /\ more(Knocked) \in {0, 1} /\ more(Told) \in {0, 1} /\ more(Thanked) \in {0, 1}
  OBVIOUS
<1> HIDE DEF mine, more
<1>8. CASE mine = 0
  BY <1>2, <1>3, <1>4, <1>5, <1>6, <1>7, <1>8
<1>9. CASE mine = 1
  <2>1. \A n \in {0, 1} : mine * n = n
    BY <1>9
  <2>2. /\ Cardinality(Came(s, Knocked)') = Cardinality(Came(s, Knocked)) + more(Knocked)
        /\ Cardinality(Came(s, Told)') = Cardinality(Came(s, Told)) + more(Told)
        /\ Cardinality(Came(s, Thanked)') = Cardinality(Came(s, Thanked)) + more(Thanked)
    BY <1>3, <1>7, <2>1
  <2>3. door'[s] = door[s] + (more(Knocked) + 2 * more(Told) + 3 * more(Thanked))
    <3> DEFINE n == more(Knocked) + 2 * more(Told) + 3 * more(Thanked)
    <3>1. n \in Nat
      BY <1>7
    <3> HIDE DEF n
    <3>2. mine * n = n
      BY <1>9, <3>1
    <3>3. door'[s] = door[s] + mine * n
      BY <1>4 DEF n
    <3>4. door'[s] = door[s] + n
      BY <3>2, <3>3
    <3> QED
      BY <3>4 DEF n
  <2> HIDE DEF more
  <2> QED
    <3>1. PICK a \in Nat, b \in Nat, e \in Nat : a = more(Knocked) /\ b = more(Told) /\ e = more(Thanked)
      BY <1>7
    <3>2. /\ Cardinality(Came(s, Knocked)') = Cardinality(Came(s, Knocked)) + a
          /\ Cardinality(Came(s, Told)') = Cardinality(Came(s, Told)) + b
          /\ Cardinality(Came(s, Thanked)') = Cardinality(Came(s, Thanked)) + e
      BY <2>2, <3>1
    <3>3. door'[s] = door[s] + (a + 2 * b + 3 * e)
      BY <2>3, <3>1
    <3>4. /\ Cardinality(Came(s, Knocked)') \in Nat /\ Cardinality(Came(s, Told)') \in Nat
          /\ Cardinality(Came(s, Thanked)') \in Nat /\ Strays(s)' \in Nat /\ door'[s] \in Nat
      BY <1>2, <1>6, <3>2, <3>3
    <3> QED
      BY <1>2, <1>5, <1>6, <3>2, <3>3, <3>4
<1> QED
  BY <1>7, <1>8, <1>9

LEMMA ServeKeeps ==
  ASSUME TypeOK, DoorBalance, NEW s \in SellerNos, Serve(s)
  PROVE  DoorBalance'
<1>1. \A t, places : Came(t, places)' = Came(t, places)
  BY DEF Serve, Came
<1>2. \A t : Strays(t)' = Strays(t)
  BY <1>1 DEF Strays, At
<1> SUFFICES ASSUME NEW t \in SellerNos
             PROVE  door'[t] + 6 * served'[t] + Taken(t)'
                      = door[t] + 6 * served[t] + Taken(t)
  BY <1>1, <1>2 DEF DoorBalance
<1>3. CASE t # s
  BY <1>3 DEF Serve, Taken, TypeOK
<1>4. CASE t = s
  <2>1. /\ door'[s] = door[s] - phase[s]
        /\ phase'[s] = IF phase[s] = 3 THEN 1 ELSE phase[s] + 1
        /\ served'[s] = IF phase[s] = 2 THEN served[s] + 1 ELSE served[s]
        /\ phase[s] \in 1 .. 3 /\ door[s] \in Nat /\ served[s] \in Nat
    BY DEF Serve, TypeOK
  <2>2. CASE phase[s] = 1
    BY <1>4, <2>1, <2>2 DEF Taken
  <2>3. CASE phase[s] = 2
    BY <1>4, <2>1, <2>3 DEF Taken
  <2>4. CASE phase[s] = 3
    BY <1>4, <2>1, <2>4 DEF Taken
  <2> QED
    BY <2>1, <2>2, <2>3, <2>4
<1> QED
  BY <1>3, <1>4

\* A client that counts itself has paid nothing yet, except the one that
\* counts itself at the door of seller 0: Strays is there for it.
LEMMA ChooseKeeps ==
  ASSUME TypeOK, DoorBalance, NEW c \in Clients, Choose(c)
  PROVE  DoorBalance'
<1>1. PICK s \in Draw(Sellers) :
        /\ seller_no' = [seller_no EXCEPT ![c] = s]
        /\ IF s = Sellers THEN Post(0, 1) /\ UNCHANGED counter
           ELSE counter' = [counter EXCEPT ![s] = @ + 1] /\ UNCHANGED door
  BY DEF Choose
<1>2. /\ pc[c] = "start" /\ pc'[c] = "count"
      /\ \A d \in Clients : d # c => pc'[d] = pc[d]
      /\ phase' = phase /\ served' = served
  BY GoMoves DEF Choose, Places
<1>3. seller_no'[c] = s /\ \A d \in Clients : d # c => seller_no'[d] = seller_no[d]
  BY <1>1 DEF TypeOK
<1>4. ASSUME NEW t \in SellerNos, NEW CONSTANT places, "start" \notin places, "count" \notin places
      PROVE  Came(t, places)' = Came(t, places)
  BY <1>2, <1>3, <1>4 DEF Came
<1>5. /\ c \notin At(Sellers)
      /\ At(Sellers)' = IF s = Sellers THEN At(Sellers) \union {c} ELSE At(Sellers)
  BY <1>2, <1>3 DEF At, Came, Places
<1>6. Cardinality(At(Sellers)') = Cardinality(At(Sellers)) + (IF s = Sellers THEN 1 ELSE 0)
  <2>1. IsFiniteSet(At(Sellers)) /\ Cardinality(At(Sellers)) \in Nat
    BY CameIsFinite DEF At
  <2>2. Cardinality(At(Sellers) \union {c}) = Cardinality(At(Sellers)) + 1
    BY <1>5, <2>1, FS_AddElement
  <2> QED
    BY <1>5, <2>1, <2>2
<1> SUFFICES ASSUME NEW t \in SellerNos
             PROVE  door'[t] + 6 * served[t] + Taken(t)
                      = Cardinality(Came(t, Knocked)') + 2 * Cardinality(Came(t, Told)')
                          + 3 * Cardinality(Came(t, Thanked)') + Strays(t)'
  BY <1>2 DEF DoorBalance, Taken, Came
<1>7. /\ Came(t, Knocked)' = Came(t, Knocked) /\ Came(t, Told)' = Came(t, Told)
      /\ Came(t, Thanked)' = Came(t, Thanked)
  BY <1>4 DEF Knocked, Told, Thanked
<1>8. Strays(t)' = Strays(t) + (IF t = 0 /\ s = Sellers THEN 1 ELSE 0) /\ Strays(t) \in Nat
  BY <1>6, CameIsFinite DEF Strays, At
<1>9. door'[t] = door[t] + (IF t = 0 /\ s = Sellers THEN 1 ELSE 0)
  <2>1. 0 \in 0 .. Sellers
    BY CinemaAssumption
  <2>2. CASE s = Sellers
    BY <1>1, <2>1, <2>2, PostAdds
  <2>3. CASE s # Sellers
    BY <1>1, <2>3 DEF TypeOK
  <2> QED
    BY <2>2, <2>3
<1>10. door[t] + 6 * served[t] + Taken(t)
         = Cardinality(Came(t, Knocked)) + 2 * Cardinality(Came(t, Told))
             + 3 * Cardinality(Came(t, Thanked)) + Strays(t)
  BY DEF DoorBalance
<1>11. /\ door[t] \in Nat /\ served[t] \in Nat /\ Taken(t) \in Int
       /\ Cardinality(Came(t, Knocked)) \in Nat /\ Cardinality(Came(t, Told)) \in Nat
       /\ Cardinality(Came(t, Thanked)) \in Nat
  BY CameIsFinite DEF TypeOK, Taken
<1> QED
  BY <1>7, <1>8, <1>9, <1>10, <1>11

LEMMA InitBalance == Init => DoorBalance
<1> SUFFICES ASSUME Init, NEW s \in SellerNos
             PROVE  door[s] + 6 * served[s] + Taken(s)
                      = Cardinality(Came(s, Knocked)) + 2 * Cardinality(Came(s, Told))
                          + 3 * Cardinality(Came(s, Thanked)) + Strays(s)
  BY DEF DoorBalance
<1>1. door[s] = 0 /\ served[s] = 0 /\ Taken(s) = 0
  BY DEF Init, Taken
<1>2. \A t, places : "start" \notin places => Came(t, places) = {}
  BY DEF Init, Came
<1>3. /\ Came(s, Knocked) = {} /\ Came(s, Told) = {} /\ Came(s, Thanked) = {}
      /\ At(Sellers) = {}
  BY <1>2 DEF Knocked, Told, Thanked, At
<1> QED
  BY <1>1, <1>3, FS_EmptySet DEF Strays

\* Every other step of a client goes on in the program and posts what it owes.
LEMMA ClientKeeps ==
  ASSUME TypeOK, DoorBalance, NEW c \in Clients, ClientNext(c)
  PROVE  DoorBalance'
<1>1. CASE Choose(c)
  BY <1>1, ChooseKeeps
<1> USE DEF Places, Knocked, Told, Thanked
<1> DEFINE Neutral(from, to) ==
             Go(c, from, to) /\ UNCHANGED <<door, phase, served, seller_no>>
<1>2. ASSUME NEW from \in Places, NEW to \in Places, Neutral(from, to),
             from # "start", to # "start",
             from \in Knocked <=> to \in Knocked,
             from \in Told <=> to \in Told,
             from \in Thanked <=> to \in Thanked
      PROVE  DoorBalance'
  <2>1. Owes(from, to) = 0
    BY <1>2 DEF Owes
  <2>2. \A s \in SellerNos : door'[s] = door[s] + IF s = seller_no[c] THEN Owes(from, to) ELSE 0
    BY <1>2, <2>1 DEF TypeOK
  <2> QED
    BY <1>2, <2>2, PayKeeps
<1>3. ASSUME NEW from \in Places, NEW to \in Places, NEW n \in Nat,
             Go(c, from, to), Post(seller_no[c], n), UNCHANGED <<seller_no, phase, served>>,
             <<from, to, n>> \in {<<"door", "look", 1>>, <<"tell", "thank", 2>>, <<"thank", "wake", 3>>}
      PROVE  DoorBalance'
  <2>1. Owes(from, to) = n
    BY <1>3 DEF Owes
  <2>2. \A s \in SellerNos : door'[s] = door[s] + IF s = seller_no[c] THEN Owes(from, to) ELSE 0
    BY <1>3, <2>1, PostAdds DEF TypeOK
  <2>3. /\ from # "start" /\ to # "start"
        /\ from \in Knocked => to \in Knocked
        /\ from \in Told => to \in Told
        /\ from \in Thanked => to \in Thanked
    BY <1>3
  <2> QED
    BY <1>3, <2>2, <2>3, PayKeeps
<1>4. CASE ReadNumber(c)
  <2>1. Neutral("count", "turn")
    BY <1>4 DEF ReadNumber
  <2> QED
    BY <1>2, <2>1
<1>5. CASE AwaitTurn(c)
  <2>1. Neutral("turn", "follow") \/ Neutral("turn", "announce")
    BY <1>5 DEF AwaitTurn
  <2> QED
    BY <1>2, <2>1
<1>6. CASE Announce(c, "follow", "previous") \/ Announce(c, "announce", "door")
  <2>1. Neutral("follow", "previous") \/ Neutral("announce", "door")
    BY <1>6 DEF Announce
  <2> QED
    BY <1>2, <2>1
<1>7. CASE AwaitPrevious(c)
  <2>1. Neutral("previous", "door")
    BY <1>7 DEF AwaitPrevious
  <2> QED
    BY <1>2, <2>1
<1>8. CASE KnockAtDoor(c)
  BY <1>3, <1>8 DEF KnockAtDoor
<1>9. CASE FindSeat(c)
  <2>1. Neutral("look", "sit")
    BY <1>9 DEF FindSeat
  <2> QED
    BY <1>2, <2>1
<1>10. CASE TakeSeat(c)
  <2>1. Neutral("sit", "tell")
    BY <1>10 DEF TakeSeat
  <2> QED
    BY <1>2, <2>1
<1>11. CASE TellSeat(c)
  BY <1>3, <1>11 DEF TellSeat
<1>12. CASE Thank(c)
  BY <1>3, <1>12 DEF Thank
<1>13. CASE WakeNext(c)
  <2>1. Neutral("wake", "gone")
    BY <1>13 DEF WakeNext
  <2> QED
    BY <1>2, <2>1
<1> QED
  BY <1>1, <1>4, <1>5, <1>6, <1>7, <1>8, <1>9, <1>10, <1>11, <1>12, <1>13 DEF ClientNext

\* Only FindSeat brings a client to its seat, and it writes the index there.
LEMMA FoundStays ==
  ASSUME TypeOK, FoundOne, [Next]_vars
  PROVE  FoundOne'
<1>1. ASSUME NEW c \in Clients, FindSeat(c) PROVE FoundOne'
  <2>1. PICK row \in Draw(Rows), pos \in Draw(RowLength) :
          seat' = [seat EXCEPT ![c] = RowLength * row + pos]
    BY <1>1 DEF FindSeat
  <2>2. row \in 0 .. Rows /\ pos \in 0 .. RowLength
    BY <2>1, CinemaAssumption DEF Draw
  <2>3. seat'[c] # NoSeat /\ \A d \in Clients : d # c => seat'[d] = seat[d]
    BY <2>1, <2>2, SeatInRange DEF TypeOK, NoSeat
  <2>4. \A d \in Clients : d # c => pc'[d] = pc[d]
    BY <1>1, GoMoves DEF FindSeat, Places
  <2> QED
    BY <2>3, <2>4 DEF FoundOne
<1>2. ASSUME NEW c \in Clients, NEW from, NEW to \in Places, to # "sit",
             Go(c, from, to), UNCHANGED seat
      PROVE  FoundOne'
  BY <1>2, GoMoves DEF FoundOne
<1>3. ASSUME UNCHANGED <<pc, seat>> PROVE FoundOne'
  BY <1>3 DEF FoundOne
<1>4. ASSUME NEW c \in Clients, ClientNext(c) PROVE FoundOne'
  <2>1. CASE FindSeat(c)
    BY <1>1, <2>1
  <2>2. CASE ~FindSeat(c)
    <3>1. UNCHANGED seat /\ \E from \in Places, to \in Places \ {"sit"} : Go(c, from, to)
      BY <1>4, <2>2 DEF ClientNext, Choose, ReadNumber, AwaitTurn, Announce, AwaitPrevious,
                        KnockAtDoor, TakeSeat, TellSeat, Thank, WakeNext, Places
    <3> QED
      BY <1>2, <3>1
  <2> QED
    BY <2>1, <2>2
<1> QED
  BY <1>3, <1>4 DEF Next, Serve, vars

LEMMA Invariant == SafeSpec => []IInv
<1>1. Init => IInv
  BY InitTypeOK, InitBalance DEF Init, IInv, FoundOne
<1>2. IInv /\ [Next]_vars => IInv'
  <2> SUFFICES ASSUME IInv, [Next]_vars PROVE IInv'
    OBVIOUS
  <2>1. TypeOK' /\ FoundOne'
    BY TypeStep, FoundStays DEF IInv
  <2>2. ASSUME UNCHANGED vars PROVE DoorBalance'
    BY <2>2 DEF IInv, vars, DoorBalance, Taken, Came, Strays, At
  <2>3. DoorBalance'
    BY <2>2, ServeKeeps, ClientKeeps DEF Next, IInv
  <2> QED
    BY <2>1, <2>3 DEF IInv
<1> QED
  BY <1>1, <1>2, PTL DEF SafeSpec

\* The queue holds messages, the hall knows no place outside its rows and the
\* one past them, and no semaphore goes below 0, however the calls mix.
THEOREM TypeCorrect == SafeSpec => []TypeOK
<1>1. IInv => TypeOK
  BY DEF IInv
<1> QED
  BY <1>1, Invariant, PTL

\* However the posts of any number of clients mix at the doors, a seller whose
\* clients have gone has given each of them one ticket, and begins anew.
THEOREM SellersStartOverAlways == SafeSpec => []SellersStartOver
<1>1. IInv => SellersStartOver
  <2> SUFFICES ASSUME IInv, NEW s \in SellerNos,
                      Came(s, Knocked \ Thanked) = {}, Strays(s) = 0, door[s] < phase[s]
               PROVE  phase[s] = 1 /\ door[s] = 0 /\ served[s] = Cardinality(Came(s, Thanked))
    BY DEF SellersStartOver
  <2>1. Came(s, Knocked) = Came(s, Thanked) /\ Came(s, Told) = Came(s, Thanked)
    BY DEF Came, Knocked, Told, Thanked
  <2>2. PICK n \in Nat : n = Cardinality(Came(s, Thanked))
    BY CameIsFinite
  <2>3. door[s] + 6 * served[s] + Taken(s) = n + 2 * n + 3 * n
    BY <2>1, <2>2, CameIsFinite DEF IInv, DoorBalance, TypeOK, Taken
  <2>4. door[s] \in Nat /\ served[s] \in Nat /\ phase[s] \in 1 .. 3
    BY DEF IInv, TypeOK
  <2>5. CASE phase[s] = 1
    BY <2>2, <2>3, <2>4, <2>5 DEF Taken
  <2>6. CASE phase[s] = 2
    BY <2>3, <2>4, <2>6 DEF Taken
  <2>7. CASE phase[s] = 3
    BY <2>3, <2>4, <2>7 DEF Taken
  <2> QED
    BY <2>4, <2>5, <2>6, <2>7
<1> QED
  BY <1>1, Invariant, PTL

=============================================================================
