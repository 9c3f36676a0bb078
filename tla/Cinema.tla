------------------------------- MODULE Cinema -------------------------------
(***************************************************************************)
(* c11: sellers and clients of a cinema, over System V IPC.                *)
(*                                                                         *)
(* Every seller has a door semaphore and waits on it for 1, then for 2,    *)
(* then for 3; a client posts 1 when its turn comes, 2 when it has chosen  *)
(* a seat and 3 when it says good bye.  Turns are meant to be passed by    *)
(* messages.  The hall is shared memory without a lock.  No result of      *)
(* semop, msgsnd or msgrcv is looked at.                                   *)
(*                                                                         *)
(* rand() may return RAND_MAX, and rand() * (n / RAND_MAX) is then n, one  *)
(* past the last index: of the sellers, of the rows and of a row.          *)
(***************************************************************************)
EXTENDS Integers, Sequences, FiniteSets, SequencesExt, FiniteSetsExt

CONSTANTS
  Clients,     \* the clients ever started, identified by their pids: the bound
  Sellers,     \* SELLERS_COUNT
  Rows,        \* ROWS_COUNT
  RowLength,   \* ROW_LENGTH
  MsgAccess,   \* may these processes use the queue?  msgget creates it with
               \* mode 066, which gives its owner nothing: only root may
  LuckyDraws   \* how many calls of rand() may return RAND_MAX: a bound

ASSUME CinemaAssumption ==
  /\ Clients \subseteq Nat \ {0}
  /\ IsFiniteSet(Clients)
  /\ Sellers \in Nat \ {0}
  /\ Rows \in Nat \ {0}
  /\ RowLength \in Nat \ {0}
  /\ MsgAccess \in BOOLEAN
  /\ LuckyDraws \in Nat

SellerNos == 0 .. Sellers - 1

VARIABLES
  counter,   \* semaphores 0 .. Sellers-1: clients that came to each seller
  door,      \* semaphores Sellers .. 2*Sellers-1
  queue,     \* the message queue: messages [mestype, pid], oldest first
  addr,      \* indexes of the shared hall that hold 1
  phase,     \* phase[s]: how much seller s waits for on its door, 1, 2 or 3
  served,    \* served[s]: tickets that seller s has given
  pc,        \* pc[c]: what client c does next
  seller_no, \* seller_no[c]
  prevpid,   \* prevpid[c]: whom client c waits for
  number,    \* number[c]: its num_in_queue, 0 before it is read
  seat,      \* seat[c]: the index it found free, or NoSeat
  draws      \* lucky draws so far

vars == <<counter, door, queue, addr, phase, served,
          pc, seller_no, prevpid, number, seat, draws>>

NoSeat == -1

-----------------------------------------------------------------------------
(* System V message queues: a type must be positive to be sent; a negative *)
(* request takes the lowest type up to its absolute value, 0 takes any.    *)

Sendable(m) == MsgAccess /\ m.mestype > 0

Sent(q, m) == IF Sendable(m) THEN Append(q, m) ELSE q

Wanted(q, type) ==
  LET fits == {k \in DOMAIN q : \/ type = 0
                                \/ type > 0 /\ q[k].mestype = type
                                \/ type < 0 /\ q[k].mestype <= -type}
  IN  IF type >= 0 THEN fits
      ELSE {k \in fits : \A j \in fits : q[k].mestype <= q[j].mestype}

\* The index of the message that msgrcv takes, if there is one.
Received(q, type) == Min(Wanted(q, type))

\* The queue after n turns of the loop in which initializer() sends one token
\* to each seller, with type -i.
Tokens[n \in 0 .. Sellers] ==
  IF n = 0 THEN <<>> ELSE Sent(Tokens[n - 1], [mestype |-> -(n - 1), pid |-> -1])

Init ==
  /\ counter = [s \in SellerNos |-> 0]
  /\ door = [s \in SellerNos |-> 0]
  /\ queue = Tokens[Sellers]
  /\ addr = {}
  /\ phase = [s \in SellerNos |-> 1]
  /\ served = [s \in SellerNos |-> 0]
  /\ pc = [c \in Clients |-> "start"]
  /\ seller_no = [c \in Clients |-> 0]
  /\ prevpid = [c \in Clients |-> -1]
  /\ number = [c \in Clients |-> 0]
  /\ seat = [c \in Clients |-> NoSeat]
  /\ draws = 0

Go(c, from, to) == pc[c] = from /\ pc' = [pc EXCEPT ![c] = to]

\* n indexes, and the one past them when rand() returns RAND_MAX.
Draw(n) == 0 .. (IF draws < LuckyDraws THEN n ELSE n - 1)

-----------------------------------------------------------------------------
(* A seller.                                                               *)

Serve(s) ==
  /\ door[s] >= phase[s]
  /\ door' = [door EXCEPT ![s] = @ - phase[s]]
  /\ phase' = [phase EXCEPT ![s] = IF @ = 3 THEN 1 ELSE @ + 1]
  /\ served' = IF phase[s] = 2 THEN [served EXCEPT ![s] = @ + 1] ELSE served
  /\ UNCHANGED <<counter, queue, addr, pc, seller_no, prevpid, number, seat, draws>>

-----------------------------------------------------------------------------
(* A client.                                                               *)

\* Mutant: semop with the sign of the seller's own operation.
PostNegative(s, n) ==
  door' = IF s \in SellerNos THEN [door EXCEPT ![s] = @ - n] ELSE door

\* Semaphores are numbered on from the counters to the doors, so one past
\* the last counter is the door of seller 0, and one past the last door is
\* none: semop fails.
Post(s, n) ==
  door' = IF s \in SellerNos THEN [door EXCEPT ![s] = @ + n] ELSE door

Choose(c) ==
  /\ Go(c, "start", "count")
  /\ \E s \in Draw(Sellers) :
       /\ seller_no' = [seller_no EXCEPT ![c] = s]
       /\ draws' = IF s = Sellers THEN draws + 1 ELSE draws
       /\ IF s = Sellers THEN Post(0, 1) /\ UNCHANGED counter
          ELSE counter' = [counter EXCEPT ![s] = @ + 1] /\ UNCHANGED door
  /\ UNCHANGED <<queue, addr, phase, served, prevpid, number, seat>>

\* semctl(GETVAL) is a system call of its own.
ReadNumber(c) ==
  /\ Go(c, "count", "turn")
  /\ number' = [number EXCEPT ![c] =
                  IF seller_no[c] = Sellers THEN door[0] ELSE counter[seller_no[c]]]
  /\ UNCHANGED <<counter, door, queue, addr, phase, served, seller_no, prevpid, seat, draws>>

\* msgrcv blocks, or fails and leaves msg uninitialised.
AwaitTurn(c) ==
  /\ pc[c] = "turn"
  /\ IF MsgAccess
     THEN /\ Wanted(queue, -seller_no[c]) # {}
          /\ LET k == Received(queue, -seller_no[c])
             IN  /\ queue' = RemoveAt(queue, k)
                 /\ prevpid' = [prevpid EXCEPT ![c] = queue[k].pid]
                 /\ Go(c, "turn", IF queue[k].pid # -1 THEN "follow" ELSE "announce")
     ELSE /\ \E next \in {"follow", "announce"} : Go(c, "turn", next)
          /\ UNCHANGED <<queue, prevpid>>
  /\ UNCHANGED <<counter, door, addr, phase, served, seller_no, number, seat, draws>>

Announce(c, from, to) ==
  /\ Go(c, from, to)
  /\ queue' = Sent(queue, [mestype |-> -seller_no[c], pid |-> c])
  /\ UNCHANGED <<counter, door, addr, phase, served, seller_no, prevpid, number, seat, draws>>

AwaitPrevious(c) ==
  /\ Go(c, "previous", "door")
  /\ IF MsgAccess
     THEN /\ Wanted(queue, prevpid[c]) # {}
          /\ queue' = RemoveAt(queue, Received(queue, prevpid[c]))
     ELSE UNCHANGED queue
  /\ UNCHANGED <<counter, door, addr, phase, served, seller_no, prevpid, number, seat, draws>>

KnockAtDoor(c) ==
  /\ Go(c, "door", "look")
  /\ Post(seller_no[c], 1)
  /\ UNCHANGED <<counter, queue, addr, phase, served, seller_no, prevpid, number, seat, draws>>

\* The loop ends at a seat that holds 0; a taken one changes nothing, so the
\* turns of the loop before the last one are stuttering.
FindSeat(c) ==
  /\ Go(c, "look", "sit")
  /\ \E row \in Draw(Rows), pos \in Draw(RowLength) :
       /\ RowLength * row + pos \notin addr
       /\ seat' = [seat EXCEPT ![c] = RowLength * row + pos]
       /\ draws' = IF row = Rows \/ pos = RowLength THEN draws + 1 ELSE draws
  /\ UNCHANGED <<counter, door, queue, addr, phase, served, seller_no, prevpid, number>>

TakeSeat(c) ==
  /\ Go(c, "sit", "tell")
  /\ addr' = addr \union {seat[c]}
  /\ UNCHANGED <<counter, door, queue, phase, served, seller_no, prevpid, number, seat, draws>>

\* Mutant: the seller is not told.
TellSeatSilent(c) ==
  /\ Go(c, "tell", "thank")
  /\ UNCHANGED <<counter, door, queue, addr, phase, served, seller_no, prevpid, number, seat, draws>>

TellSeat(c) ==
  /\ Go(c, "tell", "thank")
  /\ Post(seller_no[c], 2)
  /\ UNCHANGED <<counter, queue, addr, phase, served, seller_no, prevpid, number, seat, draws>>

\* Mutant: the good bye is sent with the amount of the chosen seat.
ThankShort(c) ==
  /\ Go(c, "thank", "wake")
  /\ Post(seller_no[c], 2)
  /\ UNCHANGED <<counter, queue, addr, phase, served, seller_no, prevpid, number, seat, draws>>

Thank(c) ==
  /\ Go(c, "thank", "wake")
  /\ Post(seller_no[c], 3)
  /\ UNCHANGED <<counter, queue, addr, phase, served, seller_no, prevpid, number, seat, draws>>

WakeNext(c) ==
  /\ Go(c, "wake", "gone")
  /\ queue' = Sent(queue, [mestype |-> c, pid |-> c])
  /\ UNCHANGED <<counter, door, addr, phase, served, seller_no, prevpid, number, seat, draws>>

ClientNext(c) ==
  \/ Choose(c) \/ ReadNumber(c)
  \/ AwaitTurn(c) \/ Announce(c, "follow", "previous") \/ Announce(c, "announce", "door")
  \/ AwaitPrevious(c)
  \/ KnockAtDoor(c) \/ FindSeat(c) \/ TakeSeat(c) \/ TellSeat(c) \/ Thank(c)
  \/ WakeNext(c)

-----------------------------------------------------------------------------
Next == (\E s \in SellerNos : Serve(s)) \/ \E c \in Clients : ClientNext(c)

SafeSpec == Init /\ [][Next]_vars

\* The kernel runs every process; the random search of a client that has a
\* free seat to find does find one.
Fairness ==
  /\ \A s \in SellerNos : WF_vars(Serve(s))
  /\ \A c \in Clients : WF_vars(ClientNext(c))

Spec == SafeSpec /\ Fairness

-----------------------------------------------------------------------------
(* Properties.                                                             *)

Places == {"start", "count", "turn", "follow", "announce", "previous", "door",
           "look", "sit", "tell", "thank", "wake", "gone"}

\* A message of the queue.
Messages == [mestype : Int, pid : Int]

TypeOK ==
  /\ counter \in [SellerNos -> Nat]
  /\ door \in [SellerNos -> Nat]
  /\ queue \in Seq(Messages)
  /\ addr \subseteq 0 .. RowLength * Rows + RowLength
  /\ phase \in [SellerNos -> 1 .. 3]
  /\ served \in [SellerNos -> Nat]
  /\ pc \in [Clients -> Places]
  /\ seller_no \in [Clients -> 0 .. Sellers]
  /\ prevpid \in [Clients -> Int]
  /\ number \in [Clients -> Nat]
  /\ seat \in [Clients -> (0 .. RowLength * Rows + RowLength) \union {NoSeat}]
  /\ draws \in 0 .. LuckyDraws + 1

\* The clients of seller s that are at one of the places.
Came(s, places) == {c \in Clients : seller_no[c] = s /\ pc[c] \in places}

\* Those who counted themselves at its door, and those whose seller it is not:
\* they counted themselves at door 0 instead.
At(s) == Came(s, Places \ {"start"})
Strays(s) == IF s = 0 THEN Cardinality(At(Sellers)) ELSE 0

\* Where a client is once it has posted 1, 2 and 3.
Thanked == {"wake", "gone"}
Told == {"thank"} \union Thanked
Knocked == {"look", "sit", "tell"} \union Told

\* The posts of several clients mix at one door, and a seller cannot tell whose
\* they are: three knocks are enough for a ticket, and the ticket is given
\* before the last 3 is there (main.c:173, 178).  Still nothing is lost or left
\* over: when those who came to it have gone and it sleeps, a seller is back at
\* its first wait, and has given one ticket to each.
SellersStartOver ==
  \A s \in SellerNos :
    Came(s, Knocked \ Thanked) = {} /\ Strays(s) = 0 /\ door[s] < phase[s] =>
      phase[s] = 1 /\ door[s] = 0 /\ served[s] = Cardinality(Came(s, Thanked))

\* Where the queue cannot be used nobody waits for a turn: every client gets
\* a seat and leaves, and the sellers serve them all.
EverybodyServed ==
  (\A c \in Clients : pc[c] # "start") ~>
     /\ \A c \in Clients : pc[c] = "gone"
     /\ At(Sellers) = {} => \A s \in SellerNos : served[s] = Cardinality(At(s))

\* "I will be waken up by previous client in my queue" (main.c:223): whoever
\* sleeps until its turn gets it.
TurnComes == \A c \in Clients : pc[c] = "turn" ~> pc[c] = "door"

\* "client chooses its room place himself" (main.c:171): its own place, which
\* nobody else has.
OneSeatEach ==
  \A c, d \in Clients :
    c # d /\ {pc[c], pc[d]} \subseteq {"tell", "thank", "wake", "gone"} => seat[c] # seat[d]
=============================================================================
