---------------------------- MODULE ParentProofs ----------------------------
(***************************************************************************)
(* Theorems about module Parent, for any set of children.                  *)
(***************************************************************************)
EXTENDS Parent, FiniteSetTheorems, TLAPS

\* Every step keeps the state well typed.
LEMMA TypeStep == ParentTypeOK /\ [ParentNext]_parentVars => ParentTypeOK'
<1> SUFFICES ASSUME ParentTypeOK, [ParentNext]_parentVars PROVE ParentTypeOK'
  OBVIOUS
<1> USE ParentAssumption DEF ParentTypeOK, Alive
<1>1. CASE Boot
  BY <1>1 DEF Boot, AllChildren
<1>2. ASSUME NEW c \in Children, Fork(c) PROVE ParentTypeOK'
  BY <1>2 DEF Fork, AllChildren
<1>3. CASE Deliver
  BY <1>3 DEF Deliver
<1>4. CASE RemoveZombie
  BY <1>4 DEF RemoveZombie, Zombies
<1>5. ASSUME NEW c \in Children, Exit(c) PROVE ParentTypeOK'
  BY <1>5 DEF Exit, AllChildren
<1>6. CASE CtrlZ
  BY <1>6 DEF CtrlZ
<1>7. ASSUME NEW p \in AllChildren \union {main}, Stop(p) PROVE ParentTypeOK'
  BY <1>7 DEF Stop
<1>8. CASE Fg
  BY <1>8 DEF Fg
<1>9. CASE UNCHANGED parentVars
  BY <1>9 DEF parentVars
<1> QED
  BY <1>1, <1>2, <1>3, <1>4, <1>5, <1>6, <1>7, <1>8, <1>9 DEF ParentNext, MainNext

\* The zombies are finitely many.
LEMMA ZombiesFinite == IsFiniteSet(Zombies) /\ Cardinality(Zombies) \in Nat
<1>1. IsFiniteSet(AllChildren)
  BY ParentAssumption, FS_AddElement DEF AllChildren
<1>2. Zombies \in SUBSET AllChildren
  BY DEF Zombies
<1> QED
  BY <1>1, <1>2, FS_Subset, FS_CardinalityType

\* What one step does to the zombies and to the calls the handler owes, as
\* long as nobody has pressed Ctrl+Z: a call that is owed has its zombie, and
\* a zombie too many is never made up for.
LEMMA Balance ==
  ASSUME ParentTypeOK, CallsCovered, [ParentNext]_parentVars, freezes' = 0
  PROVE  /\ freezes = 0 /\ stopSent' = {} /\ stopped' = {}
         /\ Cardinality(Zombies)' - Owed' >= Cardinality(Zombies) - Owed
<1> USE DEF ParentTypeOK
<1>1. freezes = 0 /\ stopSent = {} /\ stopped = {} /\ Cardinality(Zombies) >= Owed
  BY DEF CallsCovered, ParentNext, MainNext, Boot, Fork, Deliver, RemoveZombie, Exit, CtrlZ, Stop, Fg, parentVars
<1>2. Owed \in Nat /\ Cardinality(Zombies) \in Nat
  BY ZombiesFinite DEF Owed
<1>3. CASE Boot
  <2>1. Zombies' = Zombies
    BY <1>3 DEF Boot, Zombies, AllChildren
  <2> QED
    BY <1>1, <1>2, <1>3, <2>1 DEF Boot, Owed
<1>4. ASSUME NEW c \in Children, Fork(c)
      PROVE  Zombies' = Zombies /\ Owed' = Owed /\ stopSent' = {} /\ stopped' = {}
  BY <1>1, <1>4 DEF Fork, Zombies, Owed, AllChildren
<1>5. CASE Deliver
  BY <1>1, <1>2, <1>5 DEF Deliver, Zombies, Owed
<1>6. CASE RemoveZombie
  <2>1. PICK c \in Zombies : child' = [child EXCEPT ![c] = "reaped"]
    <3>1. Zombies # {}
      BY <1>1, <1>2, <1>6, FS_EmptySet DEF RemoveZombie, Owed
    <3> QED
      BY <1>6, <3>1 DEF RemoveZombie
  <2>2. Zombies' = Zombies \ {c}
    BY <2>1 DEF Zombies
  <2>3. Cardinality(Zombies)' = Cardinality(Zombies) - 1
    BY <2>2, ZombiesFinite, FS_RemoveElement
  <2> QED
    BY <1>1, <1>2, <1>6, <2>3 DEF RemoveZombie, Owed
<1>7. ASSUME NEW c \in Children, Exit(c)
      PROVE  /\ stopSent' = {} /\ stopped' = {}
             /\ Cardinality(Zombies)' - Owed' >= Cardinality(Zombies) - Owed
  <2>1. Zombies' = Zombies \union {c} /\ c \notin Zombies
    BY <1>7 DEF Exit, Zombies, AllChildren
  <2>2. Cardinality(Zombies)' = Cardinality(Zombies) + 1
    BY <2>1, ZombiesFinite, FS_AddElement
  <2>3. Owed' <= Owed + 1 /\ Owed' \in Nat
    BY <1>7 DEF Exit, Owed
  <2> QED
    BY <1>1, <1>2, <1>7, <2>2, <2>3 DEF Exit
<1>8. ~CtrlZ /\ ~Fg /\ \A p \in AllChildren \union {main} : ~Stop(p)
  BY <1>1 DEF CtrlZ, Fg, Stop
<1>9. CASE UNCHANGED parentVars
  BY <1>1, <1>2, <1>9 DEF parentVars, Zombies, Owed
<1> QED
  BY <1>1, <1>2, <1>3, <1>4, <1>5, <1>6, <1>7, <1>8, <1>9 DEF ParentNext, MainNext

\* The inductive invariant of the parent.
LEMMA CoveredInvariant == ParentSafeSpec => [](ParentTypeOK /\ CallsCovered)
<1>1. ParentInit => ParentTypeOK /\ CallsCovered
  <2> SUFFICES ASSUME ParentInit PROVE ParentTypeOK /\ CallsCovered
    OBVIOUS
  <2>1. Zombies = {}
    BY DEF ParentInit, Zombies
  <2>2. Cardinality(Zombies) = 0
    BY <2>1, FS_EmptySet
  <2>3. ParentTypeOK
    <3>1. booted \in BOOLEAN /\ pending \in BOOLEAN
      BY Zenon DEF ParentInit
    <3>2. child \in [AllChildren -> {"none", "alive", "zombie", "reaped"}]
      BY DEF ParentInit
    <3>3. freezes \in 0 .. MaxFreezes
      BY ParentAssumption DEF ParentInit
    <3> QED
      BY <3>1, <3>2, <3>3 DEF ParentInit, ParentTypeOK
  <2>4. Owed = 0
    BY DEF ParentInit, Owed
  <2>5. stopSent = {} /\ stopped = {}
    BY DEF ParentInit
  <2> QED
    BY <2>2, <2>3, <2>4, <2>5 DEF CallsCovered
<1>2. ParentTypeOK /\ CallsCovered /\ [ParentNext]_parentVars => (ParentTypeOK /\ CallsCovered)'
  <2> SUFFICES ASSUME ParentTypeOK, CallsCovered, [ParentNext]_parentVars PROVE ParentTypeOK' /\ CallsCovered'
    OBVIOUS
  <2>1. ParentTypeOK'
    BY TypeStep
  <2>3. ASSUME freezes' = 0
        PROVE  stopSent' = {} /\ stopped' = {} /\ Cardinality(Zombies)' >= Owed'
    <3>1. /\ freezes = 0 /\ stopSent' = {} /\ stopped' = {}
          /\ Cardinality(Zombies)' - Owed' >= Cardinality(Zombies) - Owed
      BY <2>3, Balance
    <3>2. Owed \in Nat /\ Cardinality(Zombies) \in Nat /\ Cardinality(Zombies) >= Owed
      BY <3>1, ZombiesFinite DEF Owed, CallsCovered
    <3>3. Owed' \in Nat
      BY DEF Owed
    <3>4. Cardinality(Zombies)' \in Nat
      <4>1. IsFiniteSet(Zombies) /\ Cardinality(Zombies) \in Nat
        BY ZombiesFinite
      <4>2. (IsFiniteSet(Zombies) /\ Cardinality(Zombies) \in Nat)'
        BY ZombiesFinite, PTL
      <4> QED
        BY <4>2
    <3> QED
      BY <3>1, <3>2, <3>3, <3>4
  <2> QED
    BY <2>1, <2>3 DEF CallsCovered
<1> QED
  BY <1>1, <1>2, PTL DEF ParentSafeSpec

\* Type correctness of the parent.
THEOREM ParentTypeCorrect == ParentSafeSpec => []ParentTypeOK
<1> QED
  BY CoveredInvariant, PTL

\* Whatever the number of children and the order of exits, deliveries and
\* forks: until the first Ctrl+Z the wait(0) of remove_zombie never blocks.
THEOREM NeverBlocks == ParentSafeSpec => []HandlerNeverBlocks
<1>1. ParentTypeOK /\ CallsCovered => HandlerNeverBlocks
  <2> SUFFICES ASSUME ParentTypeOK, CallsCovered, freezes = 0, handler = "wait"
               PROVE  Zombies # {}
    BY DEF HandlerNeverBlocks
  <2>1. Owed \in {1, 2} /\ Cardinality(Zombies) >= Owed
    BY DEF Owed, CallsCovered
  <2> QED
    BY <2>1, FS_EmptySet
<1> QED
  BY <1>1, CoveredInvariant, PTL
=============================================================================
