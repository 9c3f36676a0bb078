---------------------------- MODULE SearchProofs ----------------------------
(***************************************************************************)
(* Theorems about module SearchBox, for all pages of results, texts and    *)
(* bounds.  Each method of the class is an operator from pages to pages,   *)
(* and has a lemma that says what it keeps of a good page.                 *)
(***************************************************************************)
EXTENDS SearchBox, FiniteSetTheorems, SequenceTheorems, TLAPS

-----------------------------------------------------------------------------
(* The inductive invariant.                                                *)

\* The pages that a handler can meet on its way: the bounds of the timers
\* and of the messages hold only when it has ended.
Uis ==
  [field : Texts \cup {Label, <<>>}, active : BOOLEAN, searchActive : BOOLEAN,
   searchIndex : 0 .. Count, last : Seq(Nat), shown : BOOLEAN, select : BOOLEAN,
   focus : Spots, keyTimeout : BOOLEAN, searches : Nat, hides : Nat,
   request : {NoRequest} \cup (Pages \X Seq(Nat)), posted : Nat, doc : Docs]

\* InactiveShowsLabel and LastIsInFrame of any page.
Labelled(u) ==
  ~u.active =>
    /\ u.field = Label
    /\ ~u.searchActive
    /\ u.focus # Field
    /\ u.shown => u.last = Label

WantedWord(u) == IF u.request = NoRequest THEN u.doc.word ELSE u.request[2]
Remembered(u) == u.last # <<>> => WantedWord(u) = u.last

\* The timer that OnSearchFieldChange would stop is still pending.
Armed(u) == u.keyTimeout => u.searches > 0

\* What is visible has no gaps, only items with children are open, and what
\* will be visible has no gaps, either.
Navigable(d) ==
  /\ \A i, k \in d.visible : i .. k \subseteq d.visible
  /\ \A i \in d.open : Kids(d, i) > 0

\* The items shown are the ones that were found when the page loaded.
Found(d) == d.page # NoMatches => d.visible = Matching(d.page, d.word)

Tidy(u) ==
  /\ Navigable(u.doc)
  /\ Found(u.doc)
  /\ u.request # NoRequest => u.request[2] \in Words

Good(u) == u \in Uis /\ Labelled(u) /\ Remembered(u) /\ Armed(u) /\ Tidy(u)

\* Nothing starts, and no message is sent.
Calm(u, v) == v.searches = u.searches /\ v.hides = u.hides /\ v.posted = u.posted

\* While the mouse is over the filters, no timer is about to close them.
IInv ==
  /\ Good(ui)
  /\ ui.searches <= MaxTimers /\ ui.hides <= 1 /\ ui.posted <= MaxPosted
  /\ held \in Keys \cup {"none"} /\ mouse \in BOOLEAN /\ version \in {"1.8.17", "1.8.18"}
  /\ mouse => ui.hides = 0

-----------------------------------------------------------------------------
(* Places and texts.                                                       *)

\* Filters are numbered from 0.
LEMMA Filters == Count \in Nat /\ Sections = 0 .. Count - 1
BY SectionsAssumption, FS_CardinalityType DEF Count

\* A set of natural numbers that is not empty has a smallest element, and
\* Min returns it.
LEMMA MinOfNaturals ==
  ASSUME NEW S, S \subseteq Nat, S # {}
  PROVE  Min(S) \in S /\ \A y \in S : Min(S) <= y
<1> DEFINE R == {ss \in Nat \X Nat : ss[1] < ss[2]}
<1>1. IsWellFoundedOn(R, Nat)
  BY NatLessThanWellFounded DEF OpToRel
<1> HIDE DEF R
<1>2. PICK x \in S : \A y \in S : ~(<<y, x>> \in R)
  BY <1>1, WFMin
<1>3. ASSUME NEW y \in S PROVE x <= y
  <2>1. <<y, x>> \in Nat \X Nat /\ <<y, x>>[1] = y /\ <<y, x>>[2] = x
    OBVIOUS
  <2>2. ~(y < x)
    BY <1>2, <2>1 DEF R
  <2> QED
    BY <2>2
<1> QED
  BY <1>3 DEF Min

\* What is left of a text without its leading spaces is a text.
LEMMA NoLeadingIsText ==
  ASSUME NEW t \in Seq(Nat)
  PROVE  NoLeading(t) \in Seq(Nat)
<1>1. CASE Inked(t) = {}
  BY <1>1 DEF NoLeading
<1>2. CASE Inked(t) # {}
  <2>1. Inked(t) \subseteq Nat /\ Inked(t) \subseteq 1 .. Len(t)
    BY DEF Inked
  <2>2. Min(Inked(t)) \in 1 .. Len(t)
    BY <1>2, <2>1, MinOfNaturals
  <2> QED
    BY <1>2, <2>2 DEF NoLeading
<1> QED
  BY <1>1, <1>2

\* The label has no leading space.
LEMMA LabelStays == NoLeading(Label) = Label
<1>1. Label \in Seq(Nat) /\ Len(Label) >= 1 /\ 1 \in Inked(Label)
  BY TextsAssumption DEF Inked
<1>2. Inked(Label) \subseteq Nat /\ Inked(Label) \subseteq 1 .. Len(Label)
  BY <1>1 DEF Inked
<1>3. Min(Inked(Label)) = 1
  <2>1. Min(Inked(Label)) \in 1 .. Len(Label) /\ Min(Inked(Label)) <= 1
    BY <1>1, <1>2, MinOfNaturals
  <2> QED
    BY <2>1
<1>4. SubSeq(Label, 1, Len(Label)) = Label
  BY <1>1
<1> QED
  BY <1>1, <1>3, <1>4 DEF NoLeading

\* The page that is asked for exists.
LEMMA PageExists ==
  ASSUME NEW section \in Sections, NEW word
  PROVE  PageFor(section, word) \in Pages
<1> DEFINE at == {k \in DOMAIN Letters[section] :
                    word = <<>> \/ Letters[section][k] = ToLower(word)[1]}
<1>1. CASE at = {}
  BY <1>1 DEF PageFor, Pages
<1>2. CASE at # {}
  <2>1. Letters[section] \in Seq(Nat)
    BY SectionsAssumption
  <2>2. at \subseteq DOMAIN Letters[section] /\ at \subseteq Nat
    BY <2>1
  <2> HIDE DEF at
  <2>3. Min(at) \in DOMAIN Letters[section]
    BY <1>2, <2>2, MinOfNaturals
  <2>4. <<section, Min(at) - 1>> \in DOMAIN searchData
    BY <2>3, PagesAssumption
  <2> QED
    BY <1>2, <2>4 DEF PageFor, Pages, at
<1> QED
  BY <1>1, <1>2

\* A document that has loaded.
LEMMA LoadedIsDoc ==
  ASSUME NEW page \in Pages, NEW word \in Seq(Nat)
  PROVE  /\ Loaded(page, word) \in Docs /\ Loaded(page, word).word = word
         /\ word \in Words => Navigable(Loaded(page, word))
         /\ Found(Loaded(page, word))
<1>1. CASE page = NoMatches
  BY <1>1 DEF Loaded, Docs, Navigable, Found
<1>2. CASE page # NoMatches
  <2>1. searchData[page] \in Seq([name : Seq(Nat), number : Seq(Nat), id : Seq(Nat), kids : Nat])
    BY <1>2, PagesAssumption DEF Pages
  <2>2. Len(searchData[page]) \in Nat
    BY <2>1
  <2>3. Matching(page, word) \subseteq Nat
    BY <2>2 DEF Matching
  <2>4. word \in Words => \A i, k \in Matching(page, word) : i .. k \subseteq Matching(page, word)
    BY <1>2, SortedAssumption DEF Pages
  <2> QED
    BY <1>2, <2>3, <2>4 DEF Loaded, Docs, Navigable, Found
<1> QED
  BY <1>1, <1>2

\* An item has a number of children.
LEMMA KidsAreNat ==
  ASSUME NEW d \in Docs, NEW i
  PROVE  Kids(d, i) \in Nat /\ (Kids(d, i) > 0 => i \in Nat)
<1> DEFINE R == [name : Seq(Nat), number : Seq(Nat), id : Seq(Nat), kids : Nat]
<1>1. CASE i \in Items(d)
  <2>1. d.page # NoMatches => searchData[d.page] \in Seq(R)
    BY PagesAssumption DEF Pages, Docs
  <2> HIDE DEF R
  <2>2. Rows(d) \in Seq(R)
    BY <2>1 DEF Rows
  <2>3. i \in Nat /\ i + 1 \in 1 .. Len(Rows(d))
    BY <1>1, <2>2 DEF Items
  <2>4. Rows(d)[i + 1] \in R
    BY <2>2, <2>3
  <2>5. Rows(d)[i + 1].kids \in Nat
    BY <2>4 DEF R
  <2> QED
    BY <1>1, <2>3, <2>5 DEF Kids
<1>2. CASE i \notin Items(d)
  BY <1>2 DEF Kids
<1> QED
  BY <1>1, <1>2

\* What the handlers give to Focus.
Aim(f) ==
  \/ f \in {Field, Select, Nowhere}
  \/ \E i : f = Item(i)
  \/ \E i, c : f = Child(i, c)

\* A place that can have the focus is one of the places of its document.
LEMMA FocusableIsPlace ==
  ASSUME NEW d \in Docs, NEW f, Aim(f)
  PROVE  /\ InFrame(f) /\ Focusable(d, f) => f \in Spots /\ f \in Places(d)
         /\ ~InFrame(f) => f \in {Field, Select, Nowhere}
         /\ f \in {Field, Select, Nowhere} => f \in Spots /\ ~InFrame(f)
<1>1. CASE f \in {Field, Select, Nowhere}
  BY <1>1 DEF Spots, InFrame, Field, Select, Nowhere
<1>2. ASSUME NEW i, f = Item(i)
      PROVE  /\ InFrame(f) /\ f \notin {Field, Select, Nowhere}
             /\ Focusable(d, f) => f \in Spots /\ f \in Places(d)
  <2>1. f[1] = "item" /\ f[2] = i
    BY <1>2 DEF Item
  <2>2. InFrame(f) /\ f \notin {Field, Select, Nowhere}
    BY <2>1 DEF InFrame, Field, Select, Nowhere
  <2>3. Focusable(d, f) => i \in d.visible /\ i \in Nat
    BY <2>1 DEF Focusable, Docs
  <2>4. i \in Nat => f \in Spots
    BY <1>2 DEF Spots, Item
  <2>5. i \in d.visible => f \in Places(d)
    BY <1>2 DEF Places
  <2> QED
    BY <2>2, <2>3, <2>4, <2>5
<1>3. ASSUME NEW i, NEW c, f = Child(i, c)
      PROVE  /\ InFrame(f) /\ f \notin {Field, Select, Nowhere}
             /\ Focusable(d, f) => f \in Spots /\ f \in Places(d)
  <2>1. f[1] = "child" /\ f[2] = i /\ f[3] = c
    BY <1>3 DEF Child
  <2>2. InFrame(f) /\ f \notin {Field, Select, Nowhere}
    BY <2>1 DEF InFrame, Field, Select, Nowhere
  <2>3. Focusable(d, f) => i \in d.visible \cap d.open /\ c \in 0 .. Kids(d, i) - 1
    BY <2>1 DEF Focusable
  <2>4. i \in d.visible => i \in Nat
    BY DEF Docs
  <2>5. i \in Nat /\ c \in Nat => f \in Spots
    BY <1>3 DEF Spots, Child
  <2>6. i \in d.visible \cap d.open /\ c \in 0 .. Kids(d, i) - 1 => f \in Places(d)
    BY <1>3 DEF Places
  <2>7. c \in 0 .. Kids(d, i) - 1 => c \in Nat
    BY KidsAreNat
  <2> QED
    BY <2>2, <2>3, <2>4, <2>5, <2>6, <2>7
<1> QED
  BY <1>1, <1>2, <1>3 DEF Aim

\* The arrow keys aim at places.
LEMMA KeysAim ==
  ASSUME NEW d, NEW f
  PROVE  /\ Aim(Above(d, f))
         /\ Aim(Below(d, f))
<1>1. Aim(UpFrom(d, f[2])) /\ Aim(ChildUp(f[2], f[3]))
  BY DEF Aim, UpFrom, ChildUp
<1>2. Aim(DownFrom(d, f[2])) /\ Aim(ChildDown(d, f[2], f[3]))
  BY DEF Aim, DownFrom, ChildDown
<1> QED
  BY <1>1, <1>2 DEF Above, Below

-----------------------------------------------------------------------------
(* Texts and their encoding.                                               *)

\* One step of FlattenSeq.
Glued(seqs, g, i) == IF i = 1 THEN seqs[i] ELSE g[i - 1] \o seqs[i]

Gluing(seqs, g) == g = [i \in 1 .. Len(seqs) |-> Glued(seqs, g, i)]

\* Only one function does what FlattenSeq does step by step.
LEMMA FlattenIs ==
  ASSUME NEW seqs, Len(seqs) \in Nat \ {0}, NEW g, Gluing(seqs, g)
  PROVE  FlattenSeq(seqs) = g[Len(seqs)]
<1> DEFINE L == Len(seqs)
           f == CHOOSE f : f = [i \in 1 .. L |-> Glued(seqs, f, i)]
           wrong == {i \in 1 .. L : f[i] # g[i]}
<1>0. L \in Nat \ {0}
  OBVIOUS
<1>1. f = [i \in 1 .. L |-> Glued(seqs, f, i)] /\ g = [i \in 1 .. L |-> Glued(seqs, g, i)]
  BY DEF Gluing
<1>2. FlattenSeq(seqs) = f[L]
  BY DEF FlattenSeq, Glued
<1> HIDE DEF f, L
<1>3. wrong = {}
  <2> SUFFICES ASSUME wrong # {} PROVE FALSE
    OBVIOUS
  <2>1. PICK n : n \in wrong /\ \A m \in wrong : n <= m
    <3>1. wrong \subseteq Nat
      BY <1>0
    <3> HIDE DEF wrong
    <3> QED
      BY <3>1, MinOfNaturals
  <2>2. n \in 1 .. L /\ f[n] # g[n]
    BY <2>1
  <2>3. f[n] = Glued(seqs, f, n) /\ g[n] = Glued(seqs, g, n)
    BY <1>1, <2>2
  <2>4. CASE n = 1
    BY <2>2, <2>3, <2>4 DEF Glued
  <2>5. CASE n # 1
    <3>1. n - 1 \in 1 .. L /\ ~(n <= n - 1)
      BY <1>0, <2>2, <2>5
    <3>2. f[n - 1] = g[n - 1]
      BY <2>1, <3>1
    <3> QED
      BY <2>2, <2>3, <2>5, <3>2 DEF Glued
  <2> QED
    BY <2>4, <2>5
<1> QED
  BY <1>0, <1>2, <1>3 DEF L

\* There is such a function.
LEMMA GluingExists ==
  ASSUME NEW T, NEW seqs \in Seq(Seq(T)), Len(seqs) # 0
  PROVE  \E g \in [1 .. Len(seqs) -> Seq(T)] : Gluing(seqs, g)
<1> DEFINE L == Len(seqs)
           To(n, g) == g \in [1 .. n -> Seq(T)] /\ \A i \in 1 .. n : g[i] = Glued(seqs, g, i)
           short == {n \in 1 .. L : \A g : ~To(n, g)}
<1>1. L \in Nat \ {0} /\ \A i \in 1 .. L : seqs[i] \in Seq(T)
  BY ElementOfSeq
<1> HIDE DEF L
<1>2. short = {}
  <2> SUFFICES ASSUME short # {} PROVE FALSE
    OBVIOUS
  <2>1. PICK n : n \in short /\ \A m \in short : n <= m
    <3>1. short \subseteq Nat
      BY <1>1
    <3> HIDE DEF short
    <3> QED
      BY <3>1, MinOfNaturals
  <2>2. n \in 1 .. L
    BY <2>1
  <2>3. CASE n = 1
    <3> DEFINE g == [i \in 1 .. 1 |-> seqs[1]]
    <3>1. To(1, g)
      BY <1>1 DEF Glued
    <3> QED
      BY <2>1, <2>3, <3>1
  <2>4. CASE n # 1
    <3>1. n - 1 \in 1 .. L /\ ~(n <= n - 1)
      BY <1>1, <2>2, <2>4
    <3>2. PICK h : To(n - 1, h)
      BY <2>1, <3>1
    <3> DEFINE g == [i \in 1 .. n |-> IF i = n THEN h[n - 1] \o seqs[n] ELSE h[i]]
    <3>3. h[n - 1] \in Seq(T) /\ seqs[n] \in Seq(T)
      BY <1>1, <2>2, <3>1, <3>2
    <3>4. h[n - 1] \o seqs[n] \in Seq(T)
      BY <3>3, ConcatProperties
    <3>5. g \in [1 .. n -> Seq(T)]
      BY <1>1, <2>2, <3>2, <3>4
    <3>6. ASSUME NEW i \in 1 .. n PROVE g[i] = Glued(seqs, g, i)
      <4>1. CASE i = n
        <5>1. n \in 1 .. n /\ n - 1 \in 1 .. n /\ n - 1 # n
          BY <1>1, <2>2, <3>1
        <5>2. g[n] = h[n - 1] \o seqs[n] /\ g[n - 1] = h[n - 1]
          BY <5>1
        <5> QED
          BY <2>4, <4>1, <5>2 DEF Glued
      <4>2. CASE i # n
        <5>1. i \in 1 .. n - 1 /\ (i # 1 => i - 1 \in 1 .. n - 1)
          BY <1>1, <2>2, <4>2
        <5>2. h[i] = Glued(seqs, h, i)
          BY <3>2, <5>1
        <5> QED
          BY <1>1, <2>2, <4>2, <5>1, <5>2 DEF Glued
      <4> QED
        BY <4>1, <4>2
    <3>7. To(n, g)
      BY <3>5, <3>6
    <3> QED
      BY <2>1, <3>7
  <2> QED
    BY <2>3, <2>4
<1>3. PICK g : To(L, g)
  <2>1. L \in 1 .. L
    BY <1>1
  <2>2. ~(\A g : ~To(L, g))
    <3> HIDE DEF To
    <3> QED
      BY <1>2, <2>1
  <2> HIDE DEF To
  <2> QED
    BY <2>2
<1>4. Gluing(seqs, g)
  BY <1>3 DEF Gluing, L
<1> QED
  BY <1>3, <1>4 DEF L

\* With the zero in front, every code has two digits.
LEMMA EncodedIs ==
  ASSUME NEW c \in Nat
  PROVE  Encoded(c) = IF Kept(c) THEN <<c>> ELSE <<95, HexDigit(c \div 16), HexDigit(c % 16)>>
<1>1. CASE c < 16
  <2>1. c \div 16 = 0 /\ c % 16 = c
    BY <1>1
  <2>2. HexDigit(0) = 48
    BY DEF HexDigit
  <2> QED
    BY <1>1, <2>1, <2>2 DEF Encoded
<1>2. CASE ~(c < 16)
  BY <1>2 DEF Encoded
<1> QED
  BY <1>1, <1>2

\* search.js encodes a text as Doxygen does.
LEMMA EncodesAlike ==
  ASSUME NEW t \in Seq(Nat)
  PROVE  convertToId(t) = Escape(t)
<1>1. ASSUME NEW c \in Nat PROVE Encoded(c) = Escaped(c)
  <2>1. CASE Kept(c)
    BY <2>1, EncodedIs DEF Kept, Escaped
  <2>2. CASE ~Kept(c)
    <3>1. c \div 16 \in 0 .. 15 /\ c % 16 \in 0 .. 15
      BY <2>2 DEF Kept
    <3>2. ASSUME NEW d \in 0 .. 15 PROVE HexDigits[d] = HexDigit(d)
      <4>1. HexDigits[d] = IF d \in 0 .. 9 THEN 48 + d ELSE 97 + (d - 10)
        BY DEF HexDigits
      <4>2. CASE d < 10
        BY <4>1, <4>2 DEF HexDigit
      <4>3. CASE d >= 10
        BY <4>1, <4>3 DEF HexDigit
      <4> QED
        BY <4>2, <4>3
    <3>3. Encoded(c) = <<95, HexDigit(c \div 16), HexDigit(c % 16)>>
      BY <2>2, EncodedIs
    <3>4. Escaped(c) = <<95, HexDigits[c \div 16], HexDigits[c % 16]>>
      BY <2>2 DEF Kept, Escaped
    <3>5. HexDigits[c \div 16] = HexDigit(c \div 16) /\ HexDigits[c % 16] = HexDigit(c % 16)
      BY <3>1, <3>2
    <3> QED
      BY <3>3, <3>4, <3>5
  <2> QED
    BY <2>1, <2>2
<1>2. \A k \in DOMAIN t : Encoded(t[k]) = Escaped(t[k])
  BY <1>1
<1>3. [k \in DOMAIN t |-> Encoded(t[k])] = [k \in DOMAIN t |-> Escaped(t[k])]
  BY <1>2
<1> QED
  BY <1>3 DEF convertToId, Escape

\* The codes of a text, one after another.
Codes(t) == [k \in DOMAIN t |-> Encoded(t[k])]

LEMMA CodesAreTexts ==
  /\ \A c \in Nat : Encoded(c) \in Seq(Nat) /\ Len(Encoded(c)) \in {1, 3}
  /\ \A t \in Seq(Nat) : Codes(t) \in Seq(Seq(Nat)) /\ Len(Codes(t)) = Len(t)
<1>1. ASSUME NEW c \in Nat PROVE Encoded(c) \in Seq(Nat) /\ Len(Encoded(c)) \in {1, 3}
  <2>1. ASSUME NEW d \in Nat PROVE HexDigit(d) \in Nat
    BY DEF HexDigit
  <2>2. c \div 16 \in Nat /\ c % 16 \in Nat
    OBVIOUS
  <2>3. CASE Kept(c)
    <3>1. Encoded(c) = <<c>>
      BY <2>3, EncodedIs
    <3> QED
      BY <3>1
  <2>4. CASE ~Kept(c)
    <3>1. Encoded(c) = <<95, HexDigit(c \div 16), HexDigit(c % 16)>>
      BY <2>4, EncodedIs
    <3>2. HexDigit(c \div 16) \in Nat /\ HexDigit(c % 16) \in Nat
      BY <2>1, <2>2
    <3>3. \A x, y \in Nat : <<95, x, y>> \in Seq(Nat) /\ Len(<<95, x, y>>) = 3
      OBVIOUS
    <3> QED
      BY <3>1, <3>2, <3>3
  <2> QED
    BY <2>3, <2>4
<1>2. ASSUME NEW t \in Seq(Nat) PROVE Codes(t) \in Seq(Seq(Nat)) /\ Len(Codes(t)) = Len(t)
  <2>1. DOMAIN t = 1 .. Len(t) /\ Len(t) \in Nat /\ \A k \in DOMAIN t : t[k] \in Nat
    OBVIOUS
  <2>2. Codes(t) \in [1 .. Len(t) -> Seq(Nat)]
    BY <1>1, <2>1 DEF Codes
  <2> QED
    <3> DEFINE S == Seq(Nat)
               n == Len(t)
    <3>1. Codes(t) \in [1 .. n -> S] /\ n \in Nat
      BY <2>1, <2>2
    <3> HIDE DEF S, n
    <3>2. Codes(t) \in Seq(S) /\ Len(Codes(t)) = n
      BY <3>1, SMTT(30)
    <3> QED
      BY <3>2 DEF S, n
<1> QED
  BY <1>1, <1>2

\* The code of a longer text.
LEMMA EncodeAppend ==
  ASSUME NEW t \in Seq(Nat), NEW c \in Nat
  PROVE  /\ convertToId(t) \in Seq(Nat)
         /\ convertToId(<<>>) = <<>>
         /\ convertToId(<<c>>) = Encoded(c)
         /\ convertToId(Append(t, c)) = convertToId(t) \o Encoded(c)
<1>0. Encoded(c) \in Seq(Nat) /\ Append(t, c) \in Seq(Nat) /\ Len(Append(t, c)) = Len(t) + 1
  BY CodesAreTexts
<1>1. \A u : convertToId(u) = FlattenSeq(Codes(u))
  BY DEF convertToId, Codes
<1>2. convertToId(<<>>) = <<>>
  <2>1. Codes(<<>>) = <<>>
    BY DEF Codes
  <2> QED
    BY <1>1, <2>1 DEF FlattenSeq
<1>3. convertToId(<<c>>) = Encoded(c)
  <2>1. Codes(<<c>>) = <<Encoded(c)>>
    BY DEF Codes
  <2>2. Gluing(<<Encoded(c)>>, <<Encoded(c)>>)
    BY DEF Gluing, Glued
  <2> QED
    BY <1>1, <2>1, <2>2, FlattenIs
<1>4. CASE Len(t) = 0
  <2>1. t = <<>> /\ Append(t, c) = <<c>> /\ <<>> \in Seq(Nat)
    BY <1>4
  <2>2. <<>> \o Encoded(c) = Encoded(c)
    BY <1>0, ConcatEmptySeq
  <2> QED
    BY <1>2, <1>3, <2>1, <2>2
<1>5. CASE Len(t) # 0
  <2> DEFINE n == Len(t)
             both == Append(t, c)
  <2>0. n \in Nat \ {0} /\ both \in Seq(Nat) /\ Len(both) = n + 1
    BY <1>0, <1>5
  <2> HIDE DEF both
  <2>1. /\ n \in Nat \ {0} /\ Codes(t) \in Seq(Seq(Nat)) /\ Len(Codes(t)) = n
        /\ Codes(both) \in Seq(Seq(Nat)) /\ Len(Codes(both)) = n + 1
    BY <2>0, CodesAreTexts
  <2>2. PICK g \in [1 .. n -> Seq(Nat)] : Gluing(Codes(t), g)
    BY <2>1, GluingExists
  <2>3. convertToId(t) = g[n] /\ g[n] \in Seq(Nat)
    <3>1. Len(Codes(t)) \in Nat \ {0} /\ n \in 1 .. n
      BY <2>1
    <3>2. FlattenSeq(Codes(t)) = g[Len(Codes(t))]
      BY <2>2, <3>1, FlattenIs
    <3> QED
      BY <1>1, <2>1, <2>2, <3>1, <3>2
  <2> DEFINE h == [i \in 1 .. n + 1 |-> IF i = n + 1 THEN g[n] \o Encoded(c) ELSE g[i]]
  <2>4. ASSUME NEW i \in 1 .. n + 1 PROVE h[i] = Glued(Codes(both), h, i)
    <3>1. CASE i = n + 1
      <4>1. Codes(both)[i] = Encoded(c)
        BY <1>0, <2>1, <3>1 DEF Codes, both
      <4>2. n \in 1 .. n + 1 /\ n # n + 1 /\ n + 1 \in 1 .. n + 1 /\ i - 1 = n /\ i # 1
        BY <2>1, <3>1
      <4>3. h[i] = g[n] \o Encoded(c) /\ h[n] = g[n]
        BY <3>1, <4>2
      <4> HIDE DEF h, n
      <4> QED
        BY <4>1, <4>2, <4>3 DEF Glued
    <3>2. CASE i # n + 1
      <4>1. i \in 1 .. n /\ (i # 1 => i - 1 \in 1 .. n)
        BY <2>1, <3>2
      <4>2. Codes(both)[i] = Codes(t)[i]
        BY <1>0, <4>1 DEF Codes, both
      <4>3. g[i] = Glued(Codes(t), g, i)
        BY <2>1, <2>2, <4>1 DEF Gluing
      <4>4. h[i] = g[i] /\ (i # 1 => h[i - 1] = g[i - 1])
        BY <2>1, <4>1, SMTT(30)
      <4> HIDE DEF h, n
      <4> QED
        BY <4>2, <4>3, <4>4 DEF Glued
    <3> QED
      BY <3>1, <3>2
  <2>5. Gluing(Codes(both), h)
    BY <2>1, <2>4 DEF Gluing
  <2>6. h[n + 1] = g[n] \o Encoded(c)
    BY <2>1
  <2> HIDE DEF h
  <2>7. convertToId(both) = h[n + 1]
    BY <1>1, <2>1, <2>5, FlattenIs
  <2> QED
    BY <1>2, <1>3, <2>3, <2>6, <2>7 DEF both
<1> QED
  BY <1>4, <1>5

LEMMA AppendConcat ==
  ASSUME NEW x \in Seq(Nat), NEW y \in Seq(Nat), NEW e \in Nat
  PROVE  x \o Append(y, e) = Append(x \o y, e) /\ x \o y \in Seq(Nat)
  BY SMTT(30)

LEMMA ConcatTexts ==
  \A x \in Seq(Nat) : \A y \in Seq(Nat) : \A z \in Seq(Nat) : (x \o y) \o z = x \o (y \o z)
<1>1. ASSUME NEW x \in Seq(Nat), NEW y \in Seq(Nat), NEW z \in Seq(Nat)
      PROVE  (x \o y) \o z = x \o (y \o z)
  BY ConcatAssociative
<1> QED
  BY <1>1, Zenon

\* The code of two texts is that of one and that of the other.
LEMMA EncodeConcat ==
  ASSUME NEW s \in Seq(Nat), NEW t \in Seq(Nat)
  PROVE  convertToId(s \o t) = convertToId(s) \o convertToId(t)
<1> DEFINE Fine(k) == convertToId(s \o SubSeq(t, 1, k)) = convertToId(s) \o convertToId(SubSeq(t, 1, k))
           wrong == {k \in 0 .. Len(t) : ~Fine(k)}
<1>1. \A u \in Seq(Nat) : convertToId(u) \in Seq(Nat)
  BY EncodeAppend
<1>2. Fine(0)
  <2>1. SubSeq(t, 1, 0) = <<>> /\ s \o <<>> = s /\ convertToId(s) \o <<>> = convertToId(s)
    BY <1>1, ConcatEmptySeq
  <2> QED
    BY <2>1, EncodeAppend
<1>3. ASSUME NEW k \in 1 .. Len(t), Fine(k - 1) PROVE Fine(k)
  <2> DEFINE u == SubSeq(t, 1, k - 1)
  <2>1. u \in Seq(Nat) /\ t[k] \in Nat /\ SubSeq(t, 1, k) = Append(u, t[k])
    OBVIOUS
  <2>2. s \o Append(u, t[k]) = Append(s \o u, t[k]) /\ s \o u \in Seq(Nat)
    <3> HIDE DEF Fine, u
    <3> QED
      BY <2>1, AppendConcat, Zenon
  <2>3. convertToId(s \o u) = convertToId(s) \o convertToId(u)
    BY <1>3
  <2> HIDE DEF u
  <2>4. \A x \in Seq(Nat) : \A c \in Nat : convertToId(Append(x, c)) = convertToId(x) \o Encoded(c)
    <3> HIDE DEF Fine
    <3>1. ASSUME NEW x \in Seq(Nat), NEW c \in Nat
          PROVE  convertToId(Append(x, c)) = convertToId(x) \o Encoded(c)
      BY EncodeAppend, Zenon
    <3> QED
      BY <3>1, Zenon
  <2>5. convertToId(s \o SubSeq(t, 1, k)) = convertToId(s \o u) \o Encoded(t[k])
    <3> HIDE DEF Fine
    <3>1. convertToId(Append(s \o u, t[k])) = convertToId(s \o u) \o Encoded(t[k])
      BY <2>1, <2>2, <2>4, Zenon
    <3>2. s \o SubSeq(t, 1, k) = Append(s \o u, t[k])
      BY <2>1, <2>2, Zenon
    <3> QED
      BY <3>1, <3>2, Zenon
  <2>6. convertToId(SubSeq(t, 1, k)) = convertToId(u) \o Encoded(t[k])
    <3> HIDE DEF Fine
    <3> QED
      BY <2>1, <2>4, Zenon
  <2>7. (convertToId(s) \o convertToId(u)) \o Encoded(t[k]) = convertToId(s) \o (convertToId(u) \o Encoded(t[k]))
    <3>1. convertToId(s) \in Seq(Nat) /\ convertToId(u) \in Seq(Nat) /\ Encoded(t[k]) \in Seq(Nat)
      BY <1>1, <2>1, CodesAreTexts
    <3> HIDE DEF Fine
    <3>2. \A y \in Seq(Nat) : \A z \in Seq(Nat) :
            (convertToId(s) \o y) \o z = convertToId(s) \o (y \o z)
      BY <3>1, ConcatTexts, Zenon
    <3> QED
      BY <3>1, <3>2, Zenon
  <2> QED
    BY <2>3, <2>5, <2>6, <2>7
<1>4. wrong = {}
  <2> SUFFICES ASSUME wrong # {} PROVE FALSE
    OBVIOUS
  <2> HIDE DEF Fine
  <2>1. PICK n : n \in wrong /\ \A m \in wrong : n <= m
    <3>1. wrong \subseteq Nat
      OBVIOUS
    <3> HIDE DEF wrong
    <3> QED
      BY <3>1, MinOfNaturals
  <2>2. n # 0 /\ n \in 0 .. Len(t) /\ ~Fine(n)
    BY <1>2, <2>1
  <2>3. n \in 1 .. Len(t) /\ n - 1 \in 0 .. Len(t) /\ ~(n <= n - 1)
    BY <2>2
  <2>4. Fine(n - 1)
    BY <2>1, <2>3
  <2> QED
    BY <1>3, <2>2, <2>3, <2>4
<1>5. Fine(Len(t)) /\ SubSeq(t, 1, Len(t)) = t
  <2>1. Len(t) \in 0 .. Len(t)
    OBVIOUS
  <2> HIDE DEF Fine
  <2> QED
    BY <1>4, <2>1
<1> QED
  BY <1>5

-----------------------------------------------------------------------------
(* Prefixes.                                                               *)

LEMMA PrefixIs ==
  ASSUME NEW s \in Seq(Nat), NEW t \in Seq(Nat)
  PROVE  IsPrefix(s, t) <=> Len(s) <= Len(t) /\ \A k \in 1 .. Len(s) : s[k] = t[k]
<1>1. ASSUME Len(s) <= Len(t)
      PROVE  /\ SubSeq(s, 1, Len(s)) = s
             /\ SubSeq(t, 1, Len(s)) = [k \in 1 .. Len(s) |-> t[k]]
             /\ s = [k \in 1 .. Len(s) |-> s[k]]
  BY <1>1
<1> QED
  BY <1>1 DEF IsPrefix

\* What two texts have in common at the start does not matter.
LEMMA PrefixBehind ==
  ASSUME NEW a \in Seq(Nat), NEW s \in Seq(Nat), NEW t \in Seq(Nat)
  PROVE  IsPrefix(a \o s, a \o t) <=> IsPrefix(s, t)
<1>1. /\ a \o s \in Seq(Nat) /\ Len(a \o s) = Len(a) + Len(s)
      /\ a \o t \in Seq(Nat) /\ Len(a \o t) = Len(a) + Len(t)
      /\ Len(a) \in Nat /\ Len(s) \in Nat /\ Len(t) \in Nat
  BY ConcatProperties
<1>2. /\ \A k \in 1 .. Len(a) + Len(s) : (a \o s)[k] = IF k <= Len(a) THEN a[k] ELSE s[k - Len(a)]
      /\ \A k \in 1 .. Len(a) + Len(t) : (a \o t)[k] = IF k <= Len(a) THEN a[k] ELSE t[k - Len(a)]
  BY ConcatProperties
<1>3. ASSUME IsPrefix(a \o s, a \o t) PROVE IsPrefix(s, t)
  <2>0. Len(a \o s) <= Len(a \o t) /\ \A k \in 1 .. Len(a \o s) : (a \o s)[k] = (a \o t)[k]
    BY <1>1, <1>3, PrefixIs
  <2>1. Len(s) <= Len(t) /\ \A k \in 1 .. Len(a) + Len(s) : (a \o s)[k] = (a \o t)[k]
    <3>1. Len(a) + Len(s) <= Len(a) + Len(t)
      BY <1>1, <2>0
    <3>2. \A k \in 1 .. Len(a) + Len(s) : (a \o s)[k] = (a \o t)[k]
      BY <1>1, <2>0
    <3> QED
      BY <1>1, <3>1, <3>2
  <2>2. ASSUME NEW k \in 1 .. Len(s) PROVE s[k] = t[k]
    <3>1. /\ Len(a) + k \in 1 .. Len(a) + Len(s) /\ Len(a) + k \in 1 .. Len(a) + Len(t)
          /\ ~(Len(a) + k <= Len(a)) /\ Len(a) + k - Len(a) = k
      BY <1>1, <2>1
    <3>2. (a \o s)[Len(a) + k] = s[k] /\ (a \o t)[Len(a) + k] = t[k]
      BY <1>2, <3>1
    <3> QED
      BY <2>1, <3>1, <3>2
  <2> QED
    BY <2>1, <2>2, PrefixIs
<1>4. ASSUME IsPrefix(s, t) PROVE IsPrefix(a \o s, a \o t)
  <2>1. Len(s) <= Len(t) /\ \A k \in 1 .. Len(s) : s[k] = t[k]
    BY <1>4, PrefixIs
  <2>2. ASSUME NEW k \in 1 .. Len(a) + Len(s) PROVE (a \o s)[k] = (a \o t)[k]
    <3>1. k \in 1 .. Len(a) + Len(t) /\ (~(k <= Len(a)) => k - Len(a) \in 1 .. Len(s))
      BY <1>1, <2>1
    <3> QED
      BY <1>2, <2>1, <3>1
  <2>3. Len(a \o s) <= Len(a \o t) /\ \A k \in 1 .. Len(a \o s) : (a \o s)[k] = (a \o t)[k]
    BY <1>1, <2>1, <2>2
  <2> QED
    BY <1>1, <2>3, PrefixIs
<1> QED
  BY <1>3, <1>4

LEMMA PrefixSplits ==
  ASSUME NEW s \in Seq(Nat), NEW t \in Seq(Nat), IsPrefix(s, t)
  PROVE  /\ SubSeq(t, Len(s) + 1, Len(t)) \in Seq(Nat)
         /\ t = s \o SubSeq(t, Len(s) + 1, Len(t))
<1>1. Len(s) \in Nat /\ Len(t) \in Nat /\ Len(s) <= Len(t) /\ \A k \in 1 .. Len(s) : s[k] = t[k]
  BY PrefixIs
<1> DEFINE r == SubSeq(t, Len(s) + 1, Len(t))
<1>2. r \in Seq(Nat) /\ Len(r) = Len(t) - Len(s) /\ \A k \in 1 .. Len(r) : r[k] = t[Len(s) + k]
  BY <1>1
<1> HIDE DEF r
<1>3. s \o r \in Seq(Nat) /\ Len(s \o r) = Len(t)
      /\ \A k \in 1 .. Len(t) : (s \o r)[k] = IF k <= Len(s) THEN s[k] ELSE r[k - Len(s)]
  BY <1>1, <1>2, ConcatProperties
<1>4. ASSUME NEW k \in 1 .. Len(t) PROVE (s \o r)[k] = t[k]
  <2>1. k <= Len(s) => k \in 1 .. Len(s)
    BY <1>1
  <2>2. ~(k <= Len(s)) => k - Len(s) \in 1 .. Len(r) /\ Len(s) + (k - Len(s)) = k
    BY <1>1, <1>2
  <2> QED
    BY <1>1, <1>2, <1>3, <2>1, <2>2
<1>5. t = s \o r
  BY <1>3, <1>4, SeqEqual
<1> QED
  BY <1>2, <1>5 DEF r

\* How a text with the code of a character in front starts.
LEMMA CodeInFront ==
  ASSUME NEW x \in Nat, NEW y \in Seq(Nat)
  PROVE  /\ Kept(x) => Len(Encoded(x)) = 1 /\ (Encoded(x) \o y)[1] = x /\ x # 95
         /\ ~Kept(x) => /\ Len(Encoded(x)) = 3 /\ (Encoded(x) \o y)[1] = 95
                         /\ (Encoded(x) \o y)[2] = HexDigit(x \div 16)
                         /\ (Encoded(x) \o y)[3] = HexDigit(x % 16)
<1>1. Encoded(x) \in Seq(Nat)
  BY CodesAreTexts
<1>2. \A k \in 1 .. Len(Encoded(x)) : (Encoded(x) \o y)[k] = Encoded(x)[k]
  BY <1>1, ConcatProperties
<1> DEFINE e == Encoded(x)
           both == e \o y
<1>3. \A k \in 1 .. Len(e) : both[k] = e[k]
  BY <1>2
<1>4. /\ Kept(x) => e = <<x>> /\ x # 95
      /\ ~Kept(x) => e = <<95, HexDigit(x \div 16), HexDigit(x % 16)>>
  BY EncodedIs DEF Kept
<1> HIDE DEF both, e
<1>5. CASE Kept(x)
  <2>1. Len(e) = 1 /\ e[1] = x /\ x # 95
    BY <1>4, <1>5
  <2>2. both[1] = e[1]
    BY <1>3, <2>1
  <2> QED
    BY <1>5, <2>1, <2>2 DEF both, e
<1>6. CASE ~Kept(x)
  <2>1. Len(e) = 3 /\ e[1] = 95 /\ e[2] = HexDigit(x \div 16) /\ e[3] = HexDigit(x % 16)
    BY <1>4, <1>6
  <2>2. both[1] = e[1] /\ both[2] = e[2] /\ both[3] = e[3]
    BY <1>3, <2>1
  <2> QED
    BY <1>6, <2>1, <2>2 DEF both, e
<1> QED
  BY <1>5, <1>6

\* The codes of two different characters go apart.
LEMMA CodesGoApart ==
  ASSUME NEW c \in Nat, NEW d \in Nat, c # d, NEW s \in Seq(Nat), NEW t \in Seq(Nat)
  PROVE  ~IsPrefix(Encoded(c) \o s, Encoded(d) \o t)
<1> DEFINE a == Encoded(c) \o s
           b == Encoded(d) \o t
<1>2. a \in Seq(Nat) /\ b \in Seq(Nat) /\ Len(a) = Len(Encoded(c)) + Len(s)
  BY CodesAreTexts, ConcatProperties
<1>3. /\ Kept(c) => Len(Encoded(c)) = 1 /\ a[1] = c /\ c # 95
      /\ ~Kept(c) => /\ Len(Encoded(c)) = 3 /\ a[1] = 95
                      /\ a[2] = HexDigit(c \div 16) /\ a[3] = HexDigit(c % 16)
  BY CodeInFront
<1>4. /\ Kept(d) => b[1] = d /\ d # 95
      /\ ~Kept(d) => b[1] = 95 /\ b[2] = HexDigit(d \div 16) /\ b[3] = HexDigit(d % 16)
  BY CodeInFront
<1> HIDE DEF a, b
<1>5. IsPrefix(a, b) => \A k \in 1 .. Len(a) : a[k] = b[k]
  BY <1>2, PrefixIs
<1>6. IsPrefix(a, b) => a[1] = b[1] /\ (~Kept(c) => a[2] = b[2] /\ a[3] = b[3])
  <2>1. Len(s) \in Nat /\ Len(Encoded(c)) \in {1, 3}
    BY CodesAreTexts
  <2>2. Len(a) = Len(Encoded(c)) + Len(s) /\ (~Kept(c) => Len(Encoded(c)) = 3)
    BY <1>2, <1>3
  <2>3. \A n \in Nat, m \in {1, 3} : 1 \in 1 .. m + n /\ (m = 3 => 2 \in 1 .. m + n /\ 3 \in 1 .. m + n)
    OBVIOUS
  <2>4. 1 \in 1 .. Len(a) /\ (~Kept(c) => 2 \in 1 .. Len(a) /\ 3 \in 1 .. Len(a))
    BY <2>1, <2>2, <2>3
  <2> QED
    BY <1>5, <2>4
<1>7. CASE Kept(c) \/ Kept(d)
  BY <1>3, <1>4, <1>6, <1>7 DEF a, b
<1>8. CASE ~Kept(c) /\ ~Kept(d)
  <2>1. \A x, y \in 0 .. 15 : HexDigit(x) = HexDigit(y) => x = y
    BY DEF HexDigit
  <2>2. c < 128 /\ d < 128
    BY <1>8 DEF Kept
  <2>3. /\ c \div 16 \in 0 .. 15 /\ c % 16 \in 0 .. 15 /\ c = 16 * (c \div 16) + (c % 16)
        /\ d \div 16 \in 0 .. 15 /\ d % 16 \in 0 .. 15 /\ d = 16 * (d \div 16) + (d % 16)
    BY <2>2
  <2>4. HexDigit(c \div 16) # HexDigit(d \div 16) \/ HexDigit(c % 16) # HexDigit(d % 16)
    BY <2>1, <2>3
  <2>5. ~IsPrefix(a, b)
    BY <1>3, <1>4, <1>6, <1>8, <2>4
  <2> QED
    BY <2>5 DEF a, b
<1> QED
  BY <1>7, <1>8

\* A text, cut at one of its characters.
LEMMA SplitAt ==
  ASSUME NEW s \in Seq(Nat), NEW k \in 1 .. Len(s)
  PROVE  /\ SubSeq(s, 1, k - 1) \in Seq(Nat) /\ SubSeq(s, k + 1, Len(s)) \in Seq(Nat)
         /\ s = SubSeq(s, 1, k - 1) \o (<<s[k]>> \o SubSeq(s, k + 1, Len(s)))
<1> DEFINE p == SubSeq(s, 1, k - 1)
           u == SubSeq(s, k + 1, Len(s))
           cu == <<s[k]>> \o u
<1>1. /\ p \in Seq(Nat) /\ Len(p) = k - 1 /\ \A m \in 1 .. k - 1 : p[m] = s[m]
      /\ u \in Seq(Nat) /\ Len(u) = Len(s) - k /\ \A m \in 1 .. Len(s) - k : u[m] = s[k + m]
  OBVIOUS
<1> HIDE DEF p, u
<1>2. <<s[k]>> \in Seq(Nat) /\ Len(<<s[k]>>) = 1 /\ <<s[k]>>[1] = s[k]
  OBVIOUS
<1>3. /\ cu \in Seq(Nat) /\ Len(cu) = 1 + Len(u)
      /\ \A m \in 1 .. 1 + Len(u) : cu[m] = IF m <= 1 THEN <<s[k]>>[m] ELSE u[m - 1]
  BY <1>1, <1>2, ConcatProperties
<1> HIDE DEF cu
<1>4. /\ p \o cu \in Seq(Nat) /\ Len(p \o cu) = Len(p) + Len(cu)
      /\ \A m \in 1 .. Len(p) + Len(cu) : (p \o cu)[m] = IF m <= Len(p) THEN p[m] ELSE cu[m - Len(p)]
  BY <1>1, <1>3, ConcatProperties
<1>5. Len(s) \in Nat /\ k \in Nat /\ Len(p \o cu) = Len(s)
  BY <1>1, <1>3, <1>4
<1>6. ASSUME NEW m \in 1 .. Len(s) PROVE s[m] = (p \o cu)[m]
  <2>1. (p \o cu)[m] = IF m <= k - 1 THEN p[m] ELSE cu[m - (k - 1)]
    BY <1>1, <1>3, <1>4, <1>5
  <2>2. CASE m <= k - 1
    BY <1>1, <1>5, <2>1, <2>2
  <2>3. CASE m = k
    <3>1. cu[1] = s[k] /\ m - (k - 1) = 1
      BY <1>1, <1>2, <1>3, <1>5, <2>3, SMTT(30)
    <3> QED
      BY <1>5, <2>1, <2>3, <3>1
  <2>4. CASE m > k
    <3>1. /\ m - (k - 1) \in 1 .. 1 + Len(u) /\ ~(m - (k - 1) <= 1)
          /\ m - (k - 1) - 1 = m - k /\ m - k \in 1 .. Len(s) - k /\ k + (m - k) = m
      BY <1>1, <1>5, <2>4
    <3>2. cu[m - (k - 1)] = u[m - k] /\ u[m - k] = s[m]
      BY <1>1, <1>3, <3>1
    <3> QED
      BY <1>5, <2>1, <2>4, <3>2
  <2> QED
    BY <1>5, <2>2, <2>3, <2>4
<1>7. s = p \o cu
  BY <1>4, <1>5, <1>6, SeqEqual
<1> QED
  BY <1>1, <1>7 DEF p, u, cu

\* Two texts of which none is a prefix of the other go apart at some place.
LEMMA GoApart ==
  ASSUME NEW s \in Seq(Nat), NEW t \in Seq(Nat), ~IsPrefix(s, t), ~IsPrefix(t, s)
  PROVE  \E p, u, v \in Seq(Nat) : \E c, d \in Nat :
            c # d /\ s = p \o (<<c>> \o u) /\ t = p \o (<<d>> \o v)
<1> DEFINE L == IF Len(s) <= Len(t) THEN Len(s) ELSE Len(t)
           wrong == {k \in 1 .. L : s[k] # t[k]}
<1>1. Len(s) \in Nat /\ Len(t) \in Nat /\ L \in Nat /\ L <= Len(s) /\ L <= Len(t)
  OBVIOUS
<1>2. wrong # {}
  <2>1. CASE Len(s) <= Len(t)
    <3>1. ~(\A k \in 1 .. Len(s) : s[k] = t[k])
      BY <2>1, PrefixIs
    <3> QED
      BY <2>1, <3>1
  <2>2. CASE ~(Len(s) <= Len(t))
    <3>1. ~(\A k \in 1 .. Len(t) : t[k] = s[k])
      BY <1>1, <2>2, PrefixIs
    <3> QED
      BY <2>2, <3>1
  <2> QED
    BY <2>1, <2>2
<1>3. PICK k : k \in wrong /\ \A m \in wrong : k <= m
  <2>1. wrong \subseteq Nat
    OBVIOUS
  <2> HIDE DEF wrong
  <2> QED
    BY <1>2, <2>1, MinOfNaturals
<1>4. k \in 1 .. L /\ s[k] # t[k] /\ \A m \in 1 .. k - 1 : s[m] = t[m]
  <2>1. k \in 1 .. L /\ s[k] # t[k]
    BY <1>3
  <2>2. ASSUME NEW m \in 1 .. k - 1 PROVE s[m] = t[m]
    <3>1. m \in 1 .. L /\ ~(k <= m)
      BY <1>1, <2>1
    <3> QED
      BY <1>3, <3>1
  <2> QED
    BY <2>1, <2>2
<1> HIDE DEF L, wrong
<1>5. k \in 1 .. Len(s) /\ k \in 1 .. Len(t) /\ s[k] \in Nat /\ t[k] \in Nat
  BY <1>1, <1>4
<1> DEFINE p == SubSeq(s, 1, k - 1)
           u == SubSeq(s, k + 1, Len(s))
           v == SubSeq(t, k + 1, Len(t))
<1>6. p \in Seq(Nat) /\ u \in Seq(Nat) /\ v \in Seq(Nat)
  <2>1. p \in Seq(Nat) /\ u \in Seq(Nat)
    BY <1>5, SplitAt, Zenon
  <2>2. v \in Seq(Nat)
    BY <1>5, SplitAt, Zenon
  <2> QED
    BY <2>1, <2>2, Zenon
<1>7. s = p \o (<<s[k]>> \o u)
  BY <1>5, SplitAt
<1>8. t = p \o (<<t[k]>> \o v)
  <2>1. p = SubSeq(t, 1, k - 1)
    BY <1>4, <1>5
  <2>2. t = SubSeq(t, 1, k - 1) \o (<<t[k]>> \o v)
    BY <1>5, SplitAt
  <2> QED
    BY <2>1, <2>2
<1> HIDE DEF p, u, v
<1> QED
  BY <1>4, <1>5, <1>6, <1>7, <1>8

\* The id of a name starts with the code of a word if the name starts with
\* the word; or the word with the name, and what follows is in the number.
LEMMA IdStartsWith ==
  ASSUME NEW word \in Seq(Nat), NEW name \in Seq(Nat), NEW tail \in Seq(Nat)
  PROVE  IsPrefix(convertToId(word), convertToId(name) \o tail)
           <=> \/ IsPrefix(word, name)
               \/ /\ IsPrefix(name, word)
                  /\ IsPrefix(convertToId(SubSeq(word, Len(name) + 1, Len(word))), tail)
<1>1. \A t \in Seq(Nat) : convertToId(t) \in Seq(Nat)
  BY EncodeAppend
<1>2. \A x \in Seq(Nat) : \A y \in Seq(Nat) : x \o y \in Seq(Nat)
  BY SMTT(30)
<1>6. \A x \in Seq(Nat) : \A y \in Seq(Nat) :
        convertToId(x \o y) = convertToId(x) \o convertToId(y)
  <2>1. ASSUME NEW x \in Seq(Nat), NEW y \in Seq(Nat)
        PROVE  convertToId(x \o y) = convertToId(x) \o convertToId(y)
    BY EncodeConcat, Zenon
  <2> QED
    BY <2>1, Zenon
<1>3. CASE IsPrefix(word, name)
  <2> DEFINE r == SubSeq(name, Len(word) + 1, Len(name))
             behind == convertToId(r) \o tail
  <2>1. r \in Seq(Nat) /\ name = word \o r
    BY <1>3, PrefixSplits
  <2> HIDE DEF r
  <2>2. convertToId(name) = convertToId(word) \o convertToId(r)
    BY <2>1, EncodeConcat
  <2>3. convertToId(name) \o tail = convertToId(word) \o behind /\ behind \in Seq(Nat)
    <3>1. convertToId(word) \in Seq(Nat) /\ convertToId(r) \in Seq(Nat)
      BY <1>1, <2>1, Zenon
    <3>2. (convertToId(word) \o convertToId(r)) \o tail = convertToId(word) \o (convertToId(r) \o tail)
      BY <3>1, ConcatTexts, Zenon
    <3>3. convertToId(r) \o tail \in Seq(Nat)
      BY <3>1, <1>2, Zenon
    <3> QED
      BY <2>2, <3>2, <3>3, Zenon DEF behind
  <2>4. convertToId(word) \o <<>> = convertToId(word) /\ <<>> \in Seq(Nat)
    BY <1>1, ConcatEmptySeq
  <2> HIDE DEF behind
  <2>5. IsPrefix(<<>>, behind)
    <3>1. Len(<<>>) = 0 /\ 0 <= Len(behind) /\ 1 .. 0 = {}
      BY <2>3
    <3> QED
      BY <2>3, <2>4, <3>1, PrefixIs
  <2>6. IsPrefix(convertToId(word) \o <<>>, convertToId(word) \o behind)
    BY <1>1, <2>3, <2>4, <2>5, PrefixBehind
  <2> QED
    BY <1>3, <2>3, <2>4, <2>6
<1>4. CASE ~IsPrefix(word, name) /\ IsPrefix(name, word)
  <2> DEFINE r == SubSeq(word, Len(name) + 1, Len(word))
  <2>1. r \in Seq(Nat) /\ word = name \o r
    BY <1>4, PrefixSplits
  <2> HIDE DEF r
  <2>2. convertToId(word) = convertToId(name) \o convertToId(r)
    BY <2>1, EncodeConcat
  <2>3. IsPrefix(convertToId(word), convertToId(name) \o tail) <=> IsPrefix(convertToId(r), tail)
    BY <1>1, <2>1, <2>2, PrefixBehind
  <2> QED
    BY <1>4, <2>3 DEF r
<1>5. CASE ~IsPrefix(word, name) /\ ~IsPrefix(name, word)
  <2>1. PICK p \in Seq(Nat), u \in Seq(Nat), v \in Seq(Nat), c \in Nat, d \in Nat :
          c # d /\ word = p \o (<<c>> \o u) /\ name = p \o (<<d>> \o v)
    BY <1>5, GoApart
  <2>2. /\ <<c>> \in Seq(Nat) /\ convertToId(<<c>>) = Encoded(c) /\ Encoded(c) \in Seq(Nat)
        /\ <<d>> \in Seq(Nat) /\ convertToId(<<d>>) = Encoded(d) /\ Encoded(d) \in Seq(Nat)
    <3>1. ASSUME NEW e \in Nat
          PROVE  <<e>> \in Seq(Nat) /\ convertToId(<<e>>) = Encoded(e) /\ Encoded(e) \in Seq(Nat)
      <4>1. <<e>> \in Seq(Nat)
        OBVIOUS
      <4> QED
        BY <4>1, EncodeAppend, CodesAreTexts
    <3> QED
      BY <3>1
  <2> DEFINE x == convertToId(u)
             y == convertToId(v)
             z == y \o tail
  <2>3. x \in Seq(Nat) /\ y \in Seq(Nat) /\ z \in Seq(Nat)
    BY <1>1, <1>2
  <2>4. convertToId(<<c>> \o u) = Encoded(c) \o x /\ convertToId(<<d>> \o v) = Encoded(d) \o y
        /\ <<c>> \o u \in Seq(Nat) /\ <<d>> \o v \in Seq(Nat)
    <3>1. ASSUME NEW e \in Nat, NEW w \in Seq(Nat)
          PROVE  /\ <<e>> \o w \in Seq(Nat)
                 /\ convertToId(<<e>> \o w) = convertToId(<<e>>) \o convertToId(w)
      <4>1. <<e>> \in Seq(Nat)
        OBVIOUS
      <4> QED
        BY <4>1, EncodeConcat, ConcatProperties
    <3> QED
      BY <2>2, <3>1
  <2>5. convertToId(word) = convertToId(p) \o (Encoded(c) \o x)
    <3> HIDE DEF x, y
    <3>1. convertToId(p \o (<<c>> \o u)) = convertToId(p) \o convertToId(<<c>> \o u)
      BY <1>6, <2>4, Zenon
    <3> QED
      BY <2>1, <2>4, <3>1, Zenon
  <2>6. convertToId(name) = convertToId(p) \o (Encoded(d) \o y)
    <3> HIDE DEF x, y
    <3>1. convertToId(p \o (<<d>> \o v)) = convertToId(p) \o convertToId(<<d>> \o v)
      BY <1>6, <2>4, Zenon
    <3> QED
      BY <2>1, <2>4, <3>1, Zenon
  <2>7. /\ convertToId(p) \in Seq(Nat) /\ Encoded(c) \o x \in Seq(Nat)
        /\ Encoded(d) \o y \in Seq(Nat) /\ Encoded(d) \o z \in Seq(Nat)
    BY <1>1, <1>2, <2>2, <2>3
  <2>8. convertToId(name) \o tail = convertToId(p) \o (Encoded(d) \o z)
    <3>1. (convertToId(p) \o (Encoded(d) \o y)) \o tail = convertToId(p) \o ((Encoded(d) \o y) \o tail)
      <4> HIDE DEF x, y, z
      <4>1. \A g \in Seq(Nat) : \A h \in Seq(Nat) :
              (convertToId(p) \o g) \o h = convertToId(p) \o (g \o h)
        BY <2>7, ConcatTexts, Zenon
      <4>2. convertToId(p) \in Seq(Nat) /\ Encoded(d) \o y \in Seq(Nat) /\ tail \in Seq(Nat)
        BY <2>7
      <4> QED
        BY <4>1, <4>2, Zenon
    <3>2. (Encoded(d) \o y) \o tail = Encoded(d) \o z
      <4> HIDE DEF y
      <4>1. y \in Seq(Nat) /\ Encoded(d) \in Seq(Nat) /\ tail \in Seq(Nat)
        BY <2>2, <2>3
      <4>2. \A g \in Seq(Nat) : \A h \in Seq(Nat) : (Encoded(d) \o g) \o h = Encoded(d) \o (g \o h)
        BY <4>1, ConcatTexts, Zenon
      <4>3. (Encoded(d) \o y) \o tail = Encoded(d) \o (y \o tail)
        BY <4>1, <4>2, Zenon
      <4> QED
        BY <4>3 DEF z
    <3> HIDE DEF x, y, z
    <3> QED
      BY <2>6, <3>1, <3>2, Zenon
  <2> HIDE DEF x, y, z
  <2>9. ~IsPrefix(Encoded(c) \o x, Encoded(d) \o z)
    BY <2>1, <2>3, CodesGoApart
  <2>10. ~IsPrefix(convertToId(word), convertToId(name) \o tail)
    <3>1. IsPrefix(convertToId(p) \o (Encoded(c) \o x), convertToId(p) \o (Encoded(d) \o z))
            <=> IsPrefix(Encoded(c) \o x, Encoded(d) \o z)
      BY <2>7, PrefixBehind, Zenon
    <3> QED
      BY <2>5, <2>8, <2>9, <3>1, Zenon
  <2> QED
    BY <1>5, <2>10
<1> QED
  BY <1>3, <1>4, <1>5

\* An id that Doxygen wrote, in small letters.
LEMMA IdIs ==
  ASSUME NEW page \in DOMAIN searchData, NEW k \in DOMAIN searchData[page]
  PROVE  LET row == searchData[page][k]
         IN  ToLower(row.id) = Escape(row.name) \o <<95>> \o row.number
<1> DEFINE id == searchData[page][k].id
<1>1. searchData[page] \in Seq([name : Seq(Nat), number : Seq(Nat), id : Seq(Nat), kids : Nat])
  BY PagesAssumption
<1>2. id \in Seq(Nat)
  <2>1. k \in 1 .. Len(searchData[page])
    BY <1>1
  <2>2. searchData[page][k] \in [name : Seq(Nat), number : Seq(Nat), id : Seq(Nat), kids : Nat]
    BY <1>1, <2>1, ElementOfSeq
  <2> QED
    BY <2>2
<1>3. \A j \in DOMAIN id : id[j] \notin 65 .. 90
  BY IdsAssumption
<1> HIDE DEF id
<1>4. ToLower(id) = [j \in DOMAIN id |-> id[j]]
  BY <1>3 DEF ToLower
<1>5. ToLower(id) = id
  BY <1>2, <1>4
<1> QED
  BY <1>5, IdsAssumption DEF id

\* The same of the id of a row.
LEMMA RowStartsWith ==
  ASSUME NEW word \in Seq(Nat), NEW row, row.name \in Seq(Nat), row.number \in Seq(Nat)
  PROVE  ToLower(row.id) = Escape(row.name) \o <<95>> \o row.number
           => (IsPrefix(convertToId(word), ToLower(row.id))
                 <=> \/ IsPrefix(word, row.name)
                     \/ /\ IsPrefix(row.name, word)
                        /\ IsPrefix(Escape(SubSeq(word, Len(row.name) + 1, Len(word))),
                                    <<95>> \o row.number))
<1>0. HAVE ToLower(row.id) = Escape(row.name) \o <<95>> \o row.number
<1>1. <<95>> \in Seq(Nat)
  OBVIOUS
<1>2. convertToId(row.name) \in Seq(Nat) /\ convertToId(row.name) = Escape(row.name)
  BY EncodeAppend, EncodesAlike
<1>3. <<95>> \o row.number \in Seq(Nat)
  BY <1>1, ConcatProperties
<1>4. \A y \in Seq(Nat) : \A z \in Seq(Nat) :
        (convertToId(row.name) \o y) \o z = convertToId(row.name) \o (y \o z)
  BY <1>2, ConcatTexts, Zenon
<1>5. (convertToId(row.name) \o <<95>>) \o row.number = convertToId(row.name) \o (<<95>> \o row.number)
  BY <1>1, <1>2, <1>4, Zenon
<1>6. ToLower(row.id) = convertToId(row.name) \o (<<95>> \o row.number)
  BY <1>0, <1>2, <1>5, Zenon
<1> QED
  <2> DEFINE name == row.name
             tail == <<95>> \o row.number
             r == SubSeq(word, Len(name) + 1, Len(word))
  <2>1. name \in Seq(Nat) /\ tail \in Seq(Nat)
    BY <1>3
  <2>2. IsPrefix(name, word) => convertToId(r) = Escape(r)
    <3>1. SUFFICES ASSUME IsPrefix(name, word) PROVE r \in Seq(Nat)
      BY EncodesAlike, Zenon
    <3> HIDE DEF name
    <3> QED
      BY <2>1, <3>1, PrefixSplits
  <2> HIDE DEF name, tail
  <2>3. IsPrefix(convertToId(word), convertToId(name) \o tail)
          <=> \/ IsPrefix(word, name)
              \/ /\ IsPrefix(name, word)
                 /\ IsPrefix(convertToId(r), tail)
    BY <2>1, IdStartsWith, Zenon
  <2> HIDE DEF r
  <2>4. IsPrefix(convertToId(word), convertToId(name) \o tail)
          <=> \/ IsPrefix(word, name)
              \/ IsPrefix(name, word) /\ IsPrefix(Escape(r), tail)
    BY <2>2, <2>3, Zenon
  <2> QED
    BY <1>6, <2>4, Zenon DEF name, tail, r

\* What Search looks for is a text.
LEMMA TrimmedIsText ==
  ASSUME NEW t \in Seq(Nat)
  PROVE  ToLower(NoTrailing(NoLeading(t))) \in Seq(Nat)
<1>1. ASSUME NEW s \in Seq(Nat) PROVE NoTrailing(s) \in Seq(Nat)
  <2>1. CASE Inked(s) = {}
    BY <2>1 DEF NoTrailing
  <2>2. CASE Inked(s) # {}
    <3> DEFINE S == Inked(s)
               R == {Len(s) - k : k \in S}
    <3>1. S \subseteq 1 .. Len(s) /\ Len(s) \in Nat
      BY DEF Inked
    <3> HIDE DEF S
    <3>2. R \subseteq Nat /\ R # {}
      BY <2>2, <3>1 DEF S
    <3>3. PICK k \in S : \A m \in S : Len(s) - k <= Len(s) - m
      <4>1. Min(R) \in R /\ \A y \in R : Min(R) <= y
        BY <3>2, MinOfNaturals
      <4> QED
        BY <4>1
    <3>4. \A m \in S : k >= m
      BY <3>1, <3>3
    <3>5. Max(S) \in S
      BY <3>3, <3>4 DEF Max
    <3>6. Max(S) \in 1 .. Len(s)
      BY <3>1, <3>5
    <3>7. NoTrailing(s) = SubSeq(s, 1, Max(S))
      BY <2>2 DEF NoTrailing, S
    <3> QED
      BY <3>6, <3>7
  <2> QED
    BY <2>1, <2>2
<1>2. ASSUME NEW s \in Seq(Nat) PROVE ToLower(s) \in Seq(Nat)
  <2>1. DOMAIN s = 1 .. Len(s) /\ Len(s) \in Nat /\ \A k \in DOMAIN s : s[k] \in Nat
    OBVIOUS
  <2>2. ToLower(s) \in [1 .. Len(s) -> Nat]
    BY <2>1 DEF ToLower
  <2> QED
    BY <2>1, <2>2, SeqDef
<1> QED
  BY <1>1, <1>2, NoLeadingIsText

-----------------------------------------------------------------------------
(* The way through a page.                                                 *)

\* What a place is made of.
LEMMA Parts ==
  ASSUME NEW i, NEW c
  PROVE  /\ Item(i)[1] = "item" /\ Item(i)[2] = i
         /\ Child(i, c)[1] = "child" /\ Child(i, c)[2] = i /\ Child(i, c)[3] = c
         /\ Field[1] = "field" /\ Nowhere[1] = "nowhere"
BY DEF Item, Child, Field, Nowhere

LEMMA PlaceIs ==
  ASSUME NEW d, NEW f \in Places(d)
  PROVE  \/ \E i \in d.visible : f = Item(i)
         \/ \E i \in d.visible \cap d.open : \E c \in 0 .. Kids(d, i) - 1 : f = Child(i, c)
BY DEF Places

\* In a page without gaps the next item is the neighbour.
LEMMA Neighbours ==
  ASSUME NEW d \in Docs, Navigable(d), NEW i \in d.visible
  PROVE  /\ i \in Nat
         /\ NavNext(d, i + 1) = IF i + 1 \in d.visible THEN i + 1 ELSE NoRow
         /\ NavPrev(d, i - 1) = IF i - 1 \in d.visible THEN i - 1 ELSE NoRow
<1> DEFINE V == d.visible
           later == {j \in V : j >= i + 1}
           earlier == {j \in V : j <= i - 1}
<1>1. V \subseteq Nat /\ i \in Nat /\ \A j, k \in V : j .. k \subseteq V
  BY DEF Docs, Navigable
<1>2. /\ NavNext(d, i + 1) = IF later = {} THEN NoRow ELSE Min(later)
      /\ NavPrev(d, i - 1) = IF earlier = {} THEN NoRow ELSE Max(earlier)
  BY DEF NavNext, NavPrev
<1> HIDE DEF V
<1>3. \A j \in later : i + 1 \in V
  <2> SUFFICES ASSUME NEW j \in later PROVE i + 1 \in V
    OBVIOUS
  <2>1. j \in V /\ i \in V /\ i + 1 \in i .. j
    BY <1>1 DEF V
  <2> QED
    BY <1>1, <2>1
<1>4. \A j \in earlier : i - 1 \in V
  <2> SUFFICES ASSUME NEW j \in earlier PROVE i - 1 \in V
    OBVIOUS
  <2>1. j \in V /\ i \in V /\ i - 1 \in j .. i
    BY <1>1 DEF V
  <2> QED
    BY <1>1, <2>1
<1>5. i + 1 \in V => later # {} /\ Min(later) = i + 1
  <2> SUFFICES ASSUME i + 1 \in V PROVE later # {} /\ Min(later) = i + 1
    OBVIOUS
  <2>1. i + 1 \in later /\ \A y \in later : i + 1 <= y /\ y \in Nat
    BY <1>1
  <2>2. Min(later) \in later /\ \A y \in later : Min(later) <= y
    BY <1>1, <2>1, MinOfNaturals
  <2> HIDE DEF later
  <2>3. Min(later) \in Nat /\ i + 1 <= Min(later) /\ Min(later) <= i + 1
    BY <2>1, <2>2
  <2> QED
    BY <1>1, <2>1, <2>3
<1>6. i - 1 \in V => earlier # {} /\ Max(earlier) = i - 1
  <2> SUFFICES ASSUME i - 1 \in V PROVE earlier # {} /\ Max(earlier) = i - 1
    OBVIOUS
  <2>1. i - 1 \in earlier /\ \A y \in earlier : i - 1 >= y /\ y \in Nat
    BY <1>1
  <2> HIDE DEF earlier
  <2>2. Max(earlier) \in earlier /\ \A y \in earlier : Max(earlier) >= y
    BY <2>1 DEF Max
  <2> QED
    BY <1>1, <2>1, <2>2
<1>7. /\ NavNext(d, i + 1) = IF i + 1 \in V THEN i + 1 ELSE NoRow
      /\ NavPrev(d, i - 1) = IF i - 1 \in V THEN i - 1 ELSE NoRow
  <2>1. i + 1 \notin V => later = {}
    BY <1>3
  <2>2. i - 1 \notin V => earlier = {}
    BY <1>4
  <2> HIDE DEF later, earlier
  <2> QED
    BY <1>2, <1>5, <1>6, <2>1, <2>2
<1> QED
  BY <1>1, <1>7 DEF V

\* The next item leads up to the last place that belongs to this one.
LEMMA Across ==
  ASSUME NEW d \in Docs, Navigable(d), NEW i \in d.visible
  PROVE  /\ i + 1 \in d.visible =>
              Above(d, Item(i + 1)) = IF i \in d.open THEN Child(i, Kids(d, i) - 1) ELSE Item(i)
         /\ Above(d, Item(i)) = Field <=> i = NavNext(d, 0)
<1>1. i \in Nat /\ (i + 1) - 1 = i /\ NoRow = -1 /\ i # NoRow
  BY Neighbours DEF NoRow
<1>2. \A j : Above(d, Item(j)) = UpFrom(d, j)
  BY Parts DEF Above
<1>3. i \in d.open => Kids(d, i) > 0
  BY DEF Navigable
<1>4. ASSUME i + 1 \in d.visible
      PROVE  Above(d, Item(i + 1)) = IF i \in d.open THEN Child(i, Kids(d, i) - 1) ELSE Item(i)
  <2>1. NavPrev(d, i) = i
    BY <1>1, <1>4, Neighbours
  <2> QED
    BY <1>1, <1>2, <1>3, <2>1 DEF UpFrom
<1>5. Above(d, Item(i)) = Field <=> NavPrev(d, i - 1) = NoRow
  BY <1>2, Parts DEF UpFrom
<1>6. NavPrev(d, i - 1) = NoRow <=> i - 1 \notin d.visible
  <2>1. i - 1 = NoRow => i - 1 \notin d.visible
    BY <1>1 DEF Docs
  <2> QED
    BY <2>1, Neighbours
<1>7. i - 1 \notin d.visible <=> i = NavNext(d, 0)
  <2> DEFINE V == d.visible
  <2>1. V \subseteq Nat /\ i \in V /\ \A j, k \in V : j .. k \subseteq V
    BY DEF Docs, Navigable
  <2>2. NavNext(d, 0) = Min(V)
    <3>1. {j \in V : j >= 0} = V
      BY <2>1
    <3> QED
      BY <2>1, <3>1 DEF NavNext
  <2> HIDE DEF V
  <2>3. Min(V) \in V /\ \A y \in V : Min(V) <= y
    BY <2>1, MinOfNaturals
  <2>4. ASSUME Min(V) # i PROVE i - 1 \in V
    <3> DEFINE first == Min(V)
    <3>1. first \in V /\ first \in Nat /\ first <= i /\ first # i
      BY <2>1, <2>3, <2>4
    <3> HIDE DEF first
    <3>2. i - 1 \in first .. i
      BY <1>1, <3>1
    <3> QED
      BY <2>1, <3>1, <3>2
  <2>5. ASSUME Min(V) = i PROVE i - 1 \notin V
    BY <1>1, <2>3, <2>5
  <2> QED
    BY <2>2, <2>4, <2>5 DEF V
<1> QED
  BY <1>4, <1>5, <1>6, <1>7

LEMMA UpDown ==
  ASSUME NEW d \in Docs, Navigable(d), NEW f \in Places(d)
  PROVE  /\ Below(d, f) # Nowhere => Below(d, f) \in Places(d) /\ Above(d, Below(d, f)) = f
         /\ Above(d, f) = Field <=> f = Item(NavNext(d, 0))
<1>1. \A i, c : /\ Above(d, Child(i, c)) = ChildUp(i, c)
                /\ Below(d, Item(i)) = DownFrom(d, i) /\ Below(d, Child(i, c)) = ChildDown(d, i, c)
  BY Parts DEF Above, Below
<1>2. \A i \in d.visible : Item(i) \in Places(d)
  BY DEF Places
<1>3. \A i \in d.visible \cap d.open : \A c \in 0 .. Kids(d, i) - 1 : Child(i, c) \in Places(d)
  BY DEF Places
<1>4. ASSUME NEW i \in d.visible
      PROVE  NavNext(d, i + 1) # NoRow => i + 1 \in d.visible /\ NavNext(d, i + 1) = i + 1
  BY Neighbours
<1>5. ASSUME NEW i \in d.visible, f = Item(i)
      PROVE  /\ Below(d, f) # Nowhere => Below(d, f) \in Places(d) /\ Above(d, Below(d, f)) = f
             /\ Above(d, f) = Field <=> f = Item(NavNext(d, 0))
  <2>3. Above(d, f) = Field <=> f = Item(NavNext(d, 0))
    <3>1. \A j : Item(i) = Item(j) => i = j
      BY DEF Item
    <3>2. Above(d, Item(i)) = Field <=> i = NavNext(d, 0)
      BY Across
    <3> QED
      BY <1>5, <3>1, <3>2
  <2>1. CASE i \in d.open
    <3>1. 0 \in 0 .. Kids(d, i) - 1
      BY <2>1, KidsAreNat DEF Navigable
    <3>2. Below(d, f) = Child(i, 0) /\ Child(i, 0) \in Places(d)
      BY <1>1, <1>3, <1>5, <2>1, <3>1 DEF DownFrom
    <3>3. Above(d, Child(i, 0)) = Item(i)
      BY <1>1 DEF ChildUp
    <3> QED
      BY <1>5, <2>3, <3>2, <3>3
  <2>2. CASE i \notin d.open
    <3>1. Below(d, f) = IF NavNext(d, i + 1) = NoRow THEN Nowhere ELSE Item(NavNext(d, i + 1))
      BY <1>1, <1>5, <2>2 DEF DownFrom
    <3>2. Below(d, f) # Nowhere => i + 1 \in d.visible /\ Below(d, f) = Item(i + 1)
      BY <1>4, <3>1
    <3>3. i + 1 \in d.visible => Above(d, Item(i + 1)) = Item(i)
      BY <2>2, Across
    <3> QED
      BY <1>2, <1>5, <2>3, <3>2, <3>3
  <2> QED
    BY <2>1, <2>2
<1>6. ASSUME NEW i \in d.visible \cap d.open, NEW c \in 0 .. Kids(d, i) - 1, f = Child(i, c)
      PROVE  /\ Below(d, f) # Nowhere => Below(d, f) \in Places(d) /\ Above(d, Below(d, f)) = f
             /\ Above(d, f) = Field <=> f = Item(NavNext(d, 0))
  <2>1. Kids(d, i) \in Nat /\ c \in Nat
    BY KidsAreNat
  <2>2. f # Item(NavNext(d, 0)) /\ Above(d, f) # Field
    BY <1>1, <1>6, Parts DEF ChildUp
  <2>3. CASE c + 1 < Kids(d, i)
    <3>1. Below(d, f) = Child(i, c + 1)
      BY <1>1, <1>6, <2>3 DEF ChildDown
    <3>2. c + 1 \in 0 .. Kids(d, i) - 1 /\ c + 1 > 0 /\ (c + 1) - 1 = c
      BY <2>1, <2>3
    <3>3. Above(d, Child(i, c + 1)) = Child(i, c)
      BY <1>1, <3>2 DEF ChildUp
    <3> QED
      BY <1>3, <1>6, <2>2, <3>1, <3>2, <3>3
  <2>4. CASE ~(c + 1 < Kids(d, i))
    <3>1. c = Kids(d, i) - 1
      BY <2>1, <2>4
    <3>2. Below(d, f) = IF NavNext(d, i + 1) = NoRow THEN Nowhere ELSE Item(NavNext(d, i + 1))
      BY <1>1, <1>6, <2>4 DEF ChildDown
    <3>3. Below(d, f) # Nowhere => i + 1 \in d.visible /\ Below(d, f) = Item(i + 1)
      BY <1>4, <3>2
    <3>4. i + 1 \in d.visible => Above(d, Item(i + 1)) = Child(i, c)
      BY <3>1, Across
    <3> QED
      BY <1>2, <1>6, <2>2, <3>3, <3>4
  <2> QED
    BY <2>3, <2>4
<1> QED
  BY <1>5, <1>6, PlaceIs

-----------------------------------------------------------------------------
(* The methods.                                                            *)

\* A field that loses the focus is no longer in use, unless the results are
\* open.
LEMMA DeactivateKeeps ==
  ASSUME NEW u, Good(u), u.focus # Field
  PROVE  /\ Good(Activate(u, FALSE)) /\ Calm(u, Activate(u, FALSE))
         /\ Activate(u, FALSE).focus = u.focus
<1> DEFINE v == Activate(u, FALSE)
<1>1. u \in Uis
  BY DEF Good
<1>2. v \in Uis
  <2>1. v = IF u.shown
            THEN IF u.field = Label
                 THEN [u EXCEPT !.active = TRUE, !.field = <<>>, !.searchActive = TRUE]
                 ELSE [u EXCEPT !.active = TRUE]
            ELSE [u EXCEPT !.active = FALSE, !.field = Label, !.searchActive = FALSE, !.last = <<>>]
    BY DEF Activate
  <2>2. <<>> \in Seq(Nat) /\ <<>> \in Texts \cup {Label, <<>>} /\ Label \in Texts \cup {Label, <<>>}
    OBVIOUS
  <2>3. CASE u.shown
    BY <1>1, <2>1, <2>2, <2>3, ZenonT(120) DEF Uis
  <2>4. CASE ~u.shown
    BY <1>1, <2>1, <2>2, <2>4, ZenonT(120) DEF Uis
  <2> QED
    BY <2>3, <2>4
<1>3. /\ v.shown = u.shown /\ v.select = u.select /\ v.focus = u.focus
      /\ v.doc = u.doc /\ v.request = u.request /\ v.keyTimeout = u.keyTimeout
      /\ v.searches = u.searches /\ v.hides = u.hides /\ v.posted = u.posted
      /\ v.last = u.last \/ v.last = <<>>
  BY <1>1 DEF Activate, Uis
<1>4. v.active \/ (v.field = Label /\ ~v.searchActive /\ ~v.shown)
  <2>1. CASE u.shown
    BY <1>1, <2>1 DEF Activate, Uis
  <2>2. CASE ~u.shown
    BY <1>1, <2>2 DEF Activate, Uis
  <2> QED
    BY <2>1, <2>2
<1> HIDE DEF v
<1>5. Labelled(v)
  BY <1>3, <1>4 DEF Labelled
<1>6. Remembered(v) /\ Tidy(v)
  BY <1>3 DEF Good, Remembered, WantedWord, Tidy
<1>7. Armed(v) /\ Calm(u, v)
  BY <1>3 DEF Good, Armed, Calm
<1> QED
  BY <1>2, <1>3, <1>5, <1>6, <1>7 DEF Good, v

\* What Activate(TRUE) changes.
LEMMA ActivateKeeps ==
  ASSUME NEW u \in Uis, Remembered(u), Armed(u), Tidy(u)
  PROVE  /\ Good(Activate(u, TRUE)) /\ Calm(u, Activate(u, TRUE))
         /\ Activate(u, TRUE).focus = u.focus
<1> DEFINE v == Activate(u, TRUE)
<1>1. v \in Uis
  BY DEF Activate, Uis
<1>2. /\ v.shown = u.shown /\ v.select = u.select /\ v.focus = u.focus
      /\ v.doc = u.doc /\ v.request = u.request /\ v.keyTimeout = u.keyTimeout
      /\ v.searches = u.searches /\ v.hides = u.hides /\ v.posted = u.posted
      /\ v.last = u.last /\ v.active
  BY DEF Activate, Uis
<1> HIDE DEF v
<1>3. Labelled(v) /\ Remembered(v) /\ Tidy(v)
  BY <1>2 DEF Labelled, Remembered, WantedWord, Tidy
<1>4. Armed(v) /\ Calm(u, v)
  BY <1>2 DEF Armed, Calm
<1> QED
  BY <1>1, <1>2, <1>3, <1>4 DEF Good, v

\* The focus goes only to what is displayed, and leaves the field with it.
LEMMA FocusKeeps ==
  ASSUME NEW u, Good(u), NEW f, Aim(f)
  PROVE  /\ Good(Focus(u, f)) /\ Calm(u, Focus(u, f))
         /\ f \in {Field, Nowhere} => Focus(u, f).focus = f
         /\ Focus(u, f).doc = u.doc /\ Focus(u, f).shown = u.shown /\ Focus(u, f).select = u.select
         /\ InFrame(f) /\ u.shown /\ Focusable(u.doc, f) => Focus(u, f).focus = f
<1> DEFINE displayed == CASE InFrame(f) -> u.shown /\ Focusable(u.doc, f)
                         [] f = Select -> u.select
                         [] OTHER -> TRUE
           moved == [u EXCEPT !.focus = f]
           left == IF u.focus = Field THEN Activate(moved, FALSE) ELSE moved
<1>1. u \in Uis
  BY DEF Good
<1>2. u.doc \in Docs
  BY <1>1 DEF Uis
<1>3. Focus(u, f) = IF f = u.focus \/ ~displayed THEN u
                    ELSE IF f = Field THEN Activate(left, TRUE) ELSE left
  BY DEF Focus
<1>4. f \in {Field, Nowhere} => ~InFrame(f) /\ f # Select
  BY DEF InFrame, Field, Nowhere, Select
<1>5. CASE f = u.focus \/ ~displayed
  <2>1. Focus(u, f) = u
    BY <1>3, <1>5
  <2>2. f \in {Field, Nowhere} => f = u.focus
    BY <1>4, <1>5
  <2>3. InFrame(f) /\ u.shown /\ Focusable(u.doc, f) => f = u.focus
    <3>1. InFrame(f) => f # Select
      BY DEF InFrame, Select
    <3> QED
      BY <1>5, <3>1
  <2> HIDE DEF displayed
  <2> QED
    BY <2>1, <2>2, <2>3 DEF Calm
<1>6. CASE f # u.focus /\ displayed
  <2>1. f \in Spots /\ (InFrame(f) => u.shown /\ f \in Places(u.doc)) /\ (f = Select => u.select)
    BY <1>2, <1>6, FocusableIsPlace
  <2>2. moved \in Uis
    BY <1>1, <2>1 DEF Uis
  <2>3. /\ moved.focus = f /\ moved.shown = u.shown /\ moved.select = u.select
        /\ moved.doc = u.doc /\ moved.request = u.request /\ moved.keyTimeout = u.keyTimeout
        /\ moved.searches = u.searches /\ moved.hides = u.hides /\ moved.posted = u.posted
        /\ moved.last = u.last /\ moved.active = u.active /\ moved.field = u.field
        /\ moved.searchActive = u.searchActive
    BY <1>1 DEF Uis
  <2> HIDE DEF moved
  <2>4. Remembered(moved) /\ Armed(moved) /\ Tidy(moved) /\ Calm(u, moved)
    BY <2>1, <2>3 DEF Good, Remembered, WantedWord, Armed, Tidy, Calm
  <2>5. CASE f = Field
    <3>1. left = moved
      BY <1>6, <2>5
    <3>2. Focus(u, f) = Activate(moved, TRUE)
      BY <1>3, <1>6, <2>5, <3>1
    <3>3. /\ Activate(moved, TRUE).doc = moved.doc /\ Activate(moved, TRUE).shown = moved.shown
          /\ Activate(moved, TRUE).select = moved.select
      BY <2>2 DEF Activate, Uis
    <3> QED
      BY <2>2, <2>3, <2>4, <2>5, <3>2, <3>3, ActivateKeeps DEF Calm
  <2>6. CASE f # Field
    <3>1. Labelled(moved)
      BY <2>3, <2>6 DEF Good, Labelled
    <3>2. Good(moved)
      BY <2>2, <2>4, <3>1 DEF Good
    <3>3. Focus(u, f) = left
      BY <1>3, <1>6, <2>6
    <3>4. CASE u.focus = Field
      <4>1. Focus(u, f) = Activate(moved, FALSE)
        BY <3>3, <3>4
      <4>2. /\ Activate(moved, FALSE).doc = moved.doc /\ Activate(moved, FALSE).shown = moved.shown
            /\ Activate(moved, FALSE).select = moved.select
        BY <2>2 DEF Activate, Uis
      <4> QED
        BY <2>3, <2>4, <2>6, <3>2, <4>1, <4>2, DeactivateKeeps DEF Calm
    <3>5. CASE u.focus # Field
      BY <2>3, <2>4, <3>2, <3>3, <3>5
    <3> QED
      BY <3>4, <3>5
  <2> QED
    BY <2>5, <2>6
<1> QED
  BY <1>5, <1>6

\* The window of the results closes, and nothing in it keeps the focus.
LEMMA HideResultsKeeps ==
  ASSUME NEW u, Good(u)
  PROVE  /\ Good(HideResults(u)) /\ Calm(u, HideResults(u)) /\ ~HideResults(u).shown
         /\ u.focus # Field => HideResults(u).focus # Field
<1> DEFINE v == HideResults(u)
<1>1. u \in Uis
  BY DEF Good
<1>2. ~InFrame(Nowhere) /\ Nowhere # Select /\ Nowhere # Field /\ Nowhere \in Spots
  BY DEF InFrame, Nowhere, Select, Field, Spots
<1>3. v \in Uis
  BY <1>1, <1>2 DEF HideResults, Uis
<1>4. /\ ~v.shown /\ v.focus = IF InFrame(u.focus) THEN Nowhere ELSE u.focus
      /\ v.select = u.select /\ v.doc = u.doc /\ v.request = u.request
      /\ v.keyTimeout = u.keyTimeout /\ v.searches = u.searches /\ v.hides = u.hides
      /\ v.posted = u.posted /\ v.last = u.last /\ v.active = u.active /\ v.field = u.field
      /\ v.searchActive = u.searchActive
  BY <1>1 DEF HideResults, Uis
<1> HIDE DEF v
<1>5. Labelled(v)
  BY <1>2, <1>4 DEF Good, Labelled
<1>6. Remembered(v) /\ Armed(v) /\ Tidy(v) /\ Calm(u, v)
  BY <1>4 DEF Good, Remembered, WantedWord, Armed, Tidy, Calm
<1> QED
  BY <1>2, <1>3, <1>4, <1>5, <1>6 DEF Good, v

\* The search forgets nothing but the last value.
LEMMA ForgetKeeps ==
  ASSUME NEW u, Good(u), ~u.shown
  PROVE  /\ Good([u EXCEPT !.last = <<>>]) /\ Calm(u, [u EXCEPT !.last = <<>>])
         /\ [u EXCEPT !.last = <<>>].focus = u.focus
<1> DEFINE v == [u EXCEPT !.last = <<>>]
<1>1. u \in Uis
  BY DEF Good
<1>2. v \in Uis
  <2>1. <<>> \in Seq(Nat)
    OBVIOUS
  <2> QED
    BY <1>1, <2>1 DEF Uis
<1>3. /\ ~v.shown /\ v.focus = u.focus /\ v.select = u.select /\ v.doc = u.doc
      /\ v.keyTimeout = u.keyTimeout /\ v.searches = u.searches /\ v.hides = u.hides
      /\ v.posted = u.posted /\ v.last = <<>> /\ v.active = u.active /\ v.field = u.field
      /\ v.searchActive = u.searchActive /\ v.request = u.request
  BY <1>1 DEF Uis
<1> HIDE DEF v
<1>4. Labelled(v) /\ Remembered(v) /\ Armed(v) /\ Tidy(v) /\ Calm(u, v)
  BY <1>3 DEF Good, Labelled, Remembered, Armed, Tidy, Calm
<1> QED
  BY <1>2, <1>3, <1>4 DEF Good, v

\* Search asks the frame for the page of the word that it remembers, even
\* where the field that it reads shows the label.
LEMMA SearchKeeps ==
  ASSUME NEW u, Good(u)
  PROVE  Good(Search(u)) /\ Calm(u, Search(u))
<1> DEFINE v == Search(u)
           word == NoLeading(u.field)
<1>1. u \in Uis
  BY DEF Good
<1>2. word \in Seq(Nat) /\ word \in Words
  <2>1. u.field \in Texts \cup {Label, <<>>}
    BY <1>1 DEF Uis
  <2>2. u.field \in Seq(Nat)
    <3>1. <<>> \in Seq(Nat)
      OBVIOUS
    <3> QED
      BY <2>1, <3>1, TextsAssumption
  <2> QED
    BY <2>1, <2>2, NoLeadingIsText DEF Words
<1>3. u.searchIndex # Count => PageFor(u.searchIndex, word) \in Pages
  BY <1>1, Filters, PageExists DEF Uis
<1>4. <<PageFor(u.searchIndex, word), word>> # NoRequest
  BY DEF NoRequest
<1> HIDE DEF word
<1>5. v = IF u.searchIndex = Count THEN [u EXCEPT !.keyTimeout = FALSE]
          ELSE [u EXCEPT !.keyTimeout = FALSE, !.shown = TRUE, !.last = word,
                         !.request = <<PageFor(u.searchIndex, word), word>>]
  BY <1>1 DEF Search, word, Uis
<1>6. v \in Uis
  <2>1. CASE u.searchIndex = Count
    BY <1>1, <1>5, <2>1 DEF Uis
  <2>2. CASE u.searchIndex # Count
    <3> DEFINE asked == <<PageFor(u.searchIndex, word), word>>
    <3>1. asked \in Pages \X Seq(Nat)
      BY <1>2, <1>3, <2>2
    <3> HIDE DEF asked
    <3>2. v = [u EXCEPT !.keyTimeout = FALSE, !.shown = TRUE, !.last = word, !.request = asked]
      BY <1>5, <2>2 DEF asked
    <3> HIDE DEF v
    <3> QED
      BY <1>1, <1>2, <3>1, <3>2 DEF Uis
  <2> QED
    BY <2>1, <2>2
<1>7. /\ v.focus = u.focus /\ v.select = u.select /\ v.doc = u.doc
      /\ ~v.keyTimeout /\ v.searches = u.searches /\ v.hides = u.hides
      /\ v.posted = u.posted /\ v.active = u.active /\ v.field = u.field
      /\ v.searchActive = u.searchActive
  BY <1>1, <1>5 DEF Uis
<1>8. \/ v.shown = u.shown /\ v.last = u.last /\ v.request = u.request
      \/ v.shown /\ v.last = word /\ v.request = <<PageFor(u.searchIndex, word), word>>
  BY <1>1, <1>5 DEF Uis
<1> HIDE DEF v
<1>9. Labelled(v)
  BY <1>7, <1>8, LabelStays DEF Good, Labelled, word
<1>10. Remembered(v) /\ Tidy(v)
  <2>1. CASE v.last = u.last /\ v.request = u.request
    BY <1>7, <2>1 DEF Good, Remembered, WantedWord, Tidy
  <2>2. CASE v.last = word /\ v.request = <<PageFor(u.searchIndex, word), word>>
    <3>1. v.request # NoRequest /\ v.request[2] = word
      BY <1>4, <2>2
    <3> QED
      BY <1>2, <1>7, <2>2, <3>1 DEF Good, Remembered, WantedWord, Tidy
  <2> QED
    BY <1>8, <2>1, <2>2
<1>11. Armed(v) /\ Calm(u, v)
  BY <1>7, <1>8 DEF Good, Armed, Calm
<1> QED
  BY <1>6, <1>9, <1>10, <1>11 DEF Good, v

\* The results close, with the focus elsewhere than in the field.
LEMMA CloseResultsKeeps ==
  ASSUME NEW u, Good(u), u.focus # Field
  PROVE  Good(CloseResultsWindow(u)) /\ Calm(u, CloseResultsWindow(u))
<1>1. Good(HideResults(u)) /\ Calm(u, HideResults(u)) /\ HideResults(u).focus # Field
  BY HideResultsKeeps
<1>2. /\ Good(Activate(HideResults(u), FALSE))
      /\ Calm(HideResults(u), Activate(HideResults(u), FALSE))
  BY <1>1, DeactivateKeeps
<1> QED
  BY <1>1, <1>2 DEF CloseResultsWindow, Calm

\* The window of the filters closes.
LEMMA CloseSelectionKeeps ==
  ASSUME NEW u, Good(u)
  PROVE  Good(CloseSelectionWindow(u)) /\ Calm(u, CloseSelectionWindow(u))
<1> DEFINE v == CloseSelectionWindow(u)
<1>1. u \in Uis
  BY DEF Good
<1>2. ~InFrame(Nowhere) /\ Nowhere # Select /\ Nowhere # Field /\ Nowhere \in Spots
  BY DEF InFrame, Nowhere, Select, Field, Spots
<1>3. v \in Uis
  BY <1>1, <1>2 DEF CloseSelectionWindow, Uis
<1>4. /\ ~v.select /\ v.focus = IF u.focus = Select THEN Nowhere ELSE u.focus
      /\ v.shown = u.shown /\ v.doc = u.doc /\ v.request = u.request
      /\ v.keyTimeout = u.keyTimeout /\ v.searches = u.searches /\ v.hides = u.hides
      /\ v.posted = u.posted /\ v.last = u.last /\ v.active = u.active /\ v.field = u.field
      /\ v.searchActive = u.searchActive
  BY <1>1 DEF CloseSelectionWindow, Uis
<1> HIDE DEF v
<1>5. Labelled(v)
  BY <1>2, <1>4 DEF Good, Labelled
<1>6. Remembered(v) /\ Armed(v) /\ Tidy(v) /\ Calm(u, v)
  BY <1>4 DEF Good, Remembered, WantedWord, Armed, Tidy, Calm
<1> QED
  BY <1>3, <1>5, <1>6 DEF Good, v

\* A page that differs in what no part of Good looks at, but for its type.
Alike(u, v) ==
  /\ v.focus = u.focus /\ v.shown = u.shown /\ (u.select => v.select)
  /\ v.doc = u.doc /\ v.request = u.request /\ v.last = u.last
  /\ v.active = u.active /\ v.field = u.field /\ v.searchActive = u.searchActive

LEMMA AlikeKeeps ==
  ASSUME NEW u, Good(u), NEW v \in Uis, Alike(u, v), Armed(v)
  PROVE  Good(v)
<1>1. Labelled(v)
  BY DEF Good, Labelled, Alike
<1>2. Remembered(v) /\ Tidy(v)
  BY DEF Good, Remembered, WantedWord, Tidy, Alike
<1> QED
  BY <1>1, <1>2 DEF Good

\* A filter is chosen, and searched with.
LEMMA SelectItemKeeps ==
  ASSUME NEW u, Good(u), NEW id \in 0 .. Count
  PROVE  Good(OnSelectItem(u, id)) /\ Calm(u, OnSelectItem(u, id))
<1> DEFINE chosen == [u EXCEPT !.searchIndex = id]
<1>1. u \in Uis
  BY DEF Good
<1>2. chosen \in Uis
  BY <1>1 DEF Uis
<1>3. Alike(u, chosen) /\ Armed(chosen) /\ Calm(u, chosen)
  BY <1>1 DEF Uis, Good, Alike, Armed, Calm
<1>4. OnSelectItem(u, id) = IF Searching(u) THEN Search(chosen) ELSE chosen
  BY DEF OnSelectItem
<1> HIDE DEF chosen
<1>5. Good(chosen)
  BY <1>2, <1>3, AlikeKeeps
<1>6. Good(Search(chosen)) /\ Calm(chosen, Search(chosen))
  BY <1>5, SearchKeeps
<1> QED
  BY <1>3, <1>4, <1>5, <1>6 DEF Calm

\* A key is pressed in the window of the filters.
LEMMA SelectKeyKeeps ==
  ASSUME NEW u, Good(u), NEW key
  PROVE  Good(OnSearchSelectKey(u, key)) /\ Calm(u, OnSearchSelectKey(u, key))
<1> DEFINE now == OnSelectItem(u, u.searchIndex)
<1>1. u.searchIndex \in 0 .. Count /\ Count \in Nat
  BY Filters DEF Good, Uis
<1>2. u.searchIndex < Count => Good(OnSelectItem(u, u.searchIndex + 1))
                               /\ Calm(u, OnSelectItem(u, u.searchIndex + 1))
  BY <1>1, SelectItemKeeps
<1>3. u.searchIndex > 0 => Good(OnSelectItem(u, u.searchIndex - 1))
                           /\ Calm(u, OnSelectItem(u, u.searchIndex - 1))
  BY <1>1, SelectItemKeeps
<1>4. Good(now) /\ Calm(u, now)
  BY <1>1, SelectItemKeeps
<1>5. /\ Good(Focus(CloseSelectionWindow(now), Field))
      /\ Calm(u, Focus(CloseSelectionWindow(now), Field))
  <2> HIDE DEF now
  <2>1. Good(CloseSelectionWindow(now)) /\ Calm(now, CloseSelectionWindow(now))
    BY <1>4, CloseSelectionKeeps
  <2>2. Aim(Field)
    BY DEF Aim
  <2>3. /\ Good(Focus(CloseSelectionWindow(now), Field))
        /\ Calm(CloseSelectionWindow(now), Focus(CloseSelectionWindow(now), Field))
    BY <2>1, <2>2, FocusKeeps
  <2> QED
    BY <1>4, <2>1, <2>3 DEF Calm
<1>6. Calm(u, u)
  BY DEF Calm
<1>7. \/ OnSearchSelectKey(u, key) = u
      \/ u.searchIndex < Count /\ OnSearchSelectKey(u, key) = OnSelectItem(u, u.searchIndex + 1)
      \/ u.searchIndex > 0 /\ OnSearchSelectKey(u, key) = OnSelectItem(u, u.searchIndex - 1)
      \/ OnSearchSelectKey(u, key) = now
      \/ OnSearchSelectKey(u, key) = Focus(CloseSelectionWindow(now), Field)
  BY DEF OnSearchSelectKey
<1> QED
  BY <1>2, <1>3, <1>4, <1>5, <1>6, <1>7

-----------------------------------------------------------------------------
(* The release of a key in the search field.                               *)

\* The pending timer is stopped.
LEMMA StopTimerKeeps ==
  ASSUME NEW u, Good(u)
  PROVE  Good(StopTimer(u)) /\ ~StopTimer(u).keyTimeout /\ StopTimer(u).hides = u.hides
<1> DEFINE v == StopTimer(u)
<1>1. u \in Uis
  BY DEF Good
<1>2. u.keyTimeout => u.searches - 1 \in Nat
  BY <1>1 DEF Good, Armed, Uis
<1>3. v \in Uis
  BY <1>1, <1>2 DEF StopTimer, Uis
<1>4. Alike(u, v) /\ Armed(v) /\ ~v.keyTimeout /\ v.hides = u.hides
  BY <1>1 DEF StopTimer, Uis, Alike, Armed
<1> HIDE DEF v
<1>5. Good(v)
  BY <1>3, <1>4, AlikeKeeps
<1> QED
  BY <1>4, <1>5 DEF v

\* The window of the filters is shown, and no timer closes it.
LEMMA SelectShowKeeps ==
  ASSUME NEW u, Good(u)
  PROVE  /\ Good(OnSearchSelectShow(u))
         /\ OnSearchSelectShow(u).searches = u.searches /\ OnSearchSelectShow(u).posted = u.posted
         /\ OnSearchSelectShow(u).hides = IF u.hides > 0 THEN u.hides - 1 ELSE u.hides
<1> DEFINE v == OnSearchSelectShow(u)
<1>1. u \in Uis
  BY DEF Good
<1>2. (IF u.hides > 0 THEN u.hides - 1 ELSE u.hides) \in Nat
  BY <1>1 DEF Uis
<1>3. v \in Uis
  BY <1>1, <1>2 DEF OnSearchSelectShow, Uis
<1>4. /\ Alike(u, v) /\ v.searches = u.searches /\ v.posted = u.posted
      /\ v.keyTimeout = u.keyTimeout
      /\ v.hides = IF u.hides > 0 THEN u.hides - 1 ELSE u.hides
  BY <1>1 DEF OnSearchSelectShow, Uis, Alike
<1> HIDE DEF v
<1>5. Armed(v)
  BY <1>4 DEF Good, Armed
<1> QED
  BY <1>3, <1>4, <1>5, AlikeKeeps DEF v

\* Down or Enter in the field.
LEMMA EnterResultsKeeps ==
  ASSUME NEW u, Good(u)
  PROVE  Good(EnterResults(u)) /\ EnterResults(u).hides = u.hides
<1> DEFINE asked == [u EXCEPT !.posted = @ + 1]
           first == Item(NavNext(u.doc, 0))
<1>1. u \in Uis
  BY DEF Good
<1>2. Good(asked) /\ asked.hides = u.hides
  <2>1. asked \in Uis
    BY <1>1 DEF Uis
  <2>2. Alike(u, asked) /\ asked.keyTimeout = u.keyTimeout /\ asked.searches = u.searches
        /\ asked.hides = u.hides
    BY <1>1 DEF Uis, Alike
  <2> HIDE DEF asked
  <2>3. Armed(asked)
    BY <2>2 DEF Good, Armed
  <2> QED
    BY <2>1, <2>2, <2>3, AlikeKeeps
<1>3. Good(Focus(u, first)) /\ Focus(u, first).hides = u.hides
  <2>1. Aim(first)
    BY DEF Aim
  <2> QED
    BY <2>1, FocusKeeps DEF Calm
<1>4. EnterResults(u) = asked \/ EnterResults(u) = u \/ EnterResults(u) = Focus(u, first)
  BY DEF EnterResults
<1> HIDE DEF asked, first
<1> QED
  BY <1>2, <1>3, <1>4

\* Escape in the field.
LEMMA EscapeKeeps ==
  ASSUME NEW u, Good(u)
  PROVE  Good(EscapeField(u)) /\ EscapeField(u).hides = u.hides
<1> DEFINE out == Focus(u, Nowhere)
           hidden == HideResults(out)
           blank == [hidden EXCEPT !.last = <<>>]
<1>1. Aim(Nowhere) /\ Nowhere # Field
  BY DEF Aim, Nowhere, Field
<1>2. Good(out) /\ out.focus # Field /\ out.hides = u.hides
  BY <1>1, FocusKeeps DEF Calm
<1> HIDE DEF out
<1>3. Good(hidden) /\ hidden.focus # Field /\ ~hidden.shown /\ hidden.hides = u.hides
  BY <1>2, HideResultsKeeps DEF Calm
<1> HIDE DEF hidden
<1>4. Good(blank) /\ blank.focus # Field /\ blank.hides = u.hides
  BY <1>3, ForgetKeeps DEF Calm
<1> HIDE DEF blank
<1>5. Good(Activate(blank, FALSE)) /\ Activate(blank, FALSE).hides = u.hides
  BY <1>4, DeactivateKeeps DEF Calm
<1> QED
  BY <1>5 DEF EscapeField, blank, hidden, out

\* A search is started, or the window closed.
LEMMA ContentKeeps ==
  ASSUME NEW u, Good(u)
  PROVE  Good(ContentChanged(u)) /\ ContentChanged(u).hides = u.hides
<1> DEFINE later == [u EXCEPT !.keyTimeout = TRUE, !.searches = @ + 1]
           hidden == HideResults(u)
           blank == [hidden EXCEPT !.last = <<>>]
<1>1. u \in Uis
  BY DEF Good
<1>2. Good(later) /\ later.hides = u.hides
  <2>1. later \in Uis
    <3>1. u.searches + 1 \in Nat
      BY <1>1 DEF Uis
    <3>2. later = [u EXCEPT !.keyTimeout = TRUE, !.searches = u.searches + 1]
      BY <1>1 DEF Uis
    <3> QED
      BY <1>1, <3>1, <3>2 DEF Uis
  <2>2. Alike(u, later) /\ later.searches = u.searches + 1 /\ later.hides = u.hides
    BY <1>1 DEF Uis, Alike
  <2>3. Armed(later)
    BY <1>1, <2>2 DEF Uis, Armed
  <2> HIDE DEF later
  <2> QED
    BY <2>1, <2>2, <2>3, AlikeKeeps
<1>3. Good(blank) /\ blank.hides = u.hides
  <2>1. Good(hidden) /\ ~hidden.shown /\ hidden.hides = u.hides
    BY HideResultsKeeps DEF Calm
  <2> HIDE DEF hidden
  <2> QED
    BY <2>1, ForgetKeeps DEF Calm
<1>4. ContentChanged(u) = u \/ ContentChanged(u) = later \/ ContentChanged(u) = blank
  BY DEF ContentChanged
<1> HIDE DEF later, blank
<1> QED
  BY <1>2, <1>3, <1>4

\* OnSearchFieldChange, whatever key it was.
LEMMA FieldChangeKeeps ==
  ASSUME NEW u, Good(u), NEW key
  PROVE  /\ Good(OnSearchFieldChange(u, key))
         /\ OnSearchFieldChange(u, key).hides <= u.hides
<1> DEFINE s == StopTimer(u)
           show == OnSearchSelectShow(s)
<1>1. Good(s) /\ s.hides = u.hides /\ s.hides \in Nat
  BY StopTimerKeeps DEF Good, Uis
<1>2. OnSearchFieldChange(u, key) \in
        {Focus(show, Select), ContentChanged(EnterResults(s)), EscapeField(s), ContentChanged(s)}
  BY DEF OnSearchFieldChange
<1> HIDE DEF s
<1>3. Good(Focus(show, Select)) /\ Focus(show, Select).hides <= u.hides
  <2>1. Good(show) /\ show.hides <= u.hides
    BY <1>1, SelectShowKeeps
  <2> HIDE DEF show
  <2>2. Aim(Select)
    BY DEF Aim
  <2> QED
    BY <2>1, <2>2, FocusKeeps DEF Calm
<1>4. Good(EnterResults(s)) /\ EnterResults(s).hides = u.hides
  BY <1>1, EnterResultsKeeps
<1>5. Good(ContentChanged(EnterResults(s))) /\ ContentChanged(EnterResults(s)).hides <= u.hides
  BY <1>1, <1>4, ContentKeeps
<1>6. Good(ContentChanged(s)) /\ ContentChanged(s).hides <= u.hides
  BY <1>1, ContentKeeps
<1>7. Good(EscapeField(s)) /\ EscapeField(s).hides <= u.hides
  BY <1>1, EscapeKeeps
<1> HIDE DEF show
<1> QED
  BY <1>2, <1>3, <1>5, <1>6, <1>7

-----------------------------------------------------------------------------
(* Keys in the frame.                                                      *)

\* The children of the item that has the focus are shown or hidden.
LEMMA OpenKeeps ==
  ASSUME NEW u, Good(u), NEW open \in SUBSET Nat,
         u.focus[1] = "item" \/ u.doc.open \subseteq open,
         \A i \in open : Kids(u.doc, i) > 0
  PROVE  Good([u EXCEPT !.doc.open = open]) /\ Calm(u, [u EXCEPT !.doc.open = open])
<1> DEFINE d == [u.doc EXCEPT !.open = open]
           v == [u EXCEPT !.doc = d]
<1>1. u \in Uis /\ u.doc \in Docs
  BY DEF Good, Uis
<1>2. v = [u EXCEPT !.doc.open = open]
  BY <1>1 DEF Uis
<1>3. d \in Docs /\ d.visible = u.doc.visible /\ d.open = open /\ d.page = u.doc.page
      /\ d.word = u.doc.word
  BY <1>1 DEF Docs
<1>4. \A i : Kids(d, i) = Kids(u.doc, i)
  BY <1>3 DEF Kids, Items, Rows
<1> HIDE DEF d
<1>5. v \in Uis
  BY <1>1, <1>3 DEF Uis
<1>6. /\ v.focus = u.focus /\ v.shown = u.shown /\ v.select = u.select /\ v.doc = d
      /\ v.request = u.request /\ v.last = u.last /\ v.active = u.active /\ v.field = u.field
      /\ v.searchActive = u.searchActive /\ v.keyTimeout = u.keyTimeout
      /\ v.searches = u.searches /\ v.hides = u.hides /\ v.posted = u.posted
  BY <1>1 DEF Uis
<1>7. u.focus \in Places(u.doc) => u.focus \in Places(d)
  <2>1. \A f \in Places(u.doc) :
          \/ \E i \in u.doc.visible : f = Item(i)
          \/ \E i \in u.doc.visible \cap u.doc.open : \E c \in 0 .. Kids(u.doc, i) - 1 : f = Child(i, c)
    BY DEF Places
  <2>2. \A i \in u.doc.visible : Item(i) \in Places(d)
    BY <1>3 DEF Places
  <2>3. \A i \in u.doc.visible \cap open : \A c \in 0 .. Kids(u.doc, i) - 1 : Child(i, c) \in Places(d)
    BY <1>3, <1>4 DEF Places
  <2>4. \A i, c : Child(i, c)[1] # "item"
    BY DEF Child
  <2> QED
    BY <2>1, <2>2, <2>3, <2>4
<1> HIDE DEF v
<1>8. Labelled(v) /\ Armed(v) /\ Calm(u, v)
  BY <1>6, <1>7 DEF Good, Labelled, Armed, Calm
<1>9. Remembered(v) /\ Tidy(v)
  BY <1>3, <1>4, <1>6 DEF Good, Remembered, WantedWord, Tidy, Navigable, Found
<1> QED
  BY <1>2, <1>5, <1>8, <1>9 DEF Good

\* A key in the frame.
LEMMA NavKeeps ==
  ASSUME NEW u, Good(u), InFrame(u.focus), NEW key
  PROVE  Good(Nav(u, u.focus, key)) /\ Calm(u, Nav(u, u.focus, key))
<1> DEFINE f == u.focus
<1>1. /\ u.doc \in Docs /\ u.doc.open \subseteq Nat
      /\ \A i \in u.doc.open : Kids(u.doc, i) > 0
  BY DEF Good, Uis, Docs, Tidy, Navigable
<1>2. u.focus # Field
  BY DEF InFrame, Field
<1>3. Calm(u, u)
  BY DEF Calm
<1>4. \A g : Aim(g) => Good(Focus(u, g)) /\ Calm(u, Focus(u, g))
  BY FocusKeeps
<1>5. Aim(Above(u.doc, f)) /\ Aim(Below(u.doc, f))
  BY KeysAim
<1>6. CASE key = "Up"
  BY <1>4, <1>5, <1>6 DEF Nav
<1>7. CASE key \in {"Down", "ShiftDown"}
  BY <1>3, <1>4, <1>5, <1>7 DEF Nav
<1>8. CASE key = "Right" /\ f[1] = "item"
  <2> DEFINE open == IF Kids(u.doc, f[2]) > 0 THEN u.doc.open \cup {f[2]} ELSE u.doc.open
  <2>1. u \in Uis
    BY DEF Good
  <2>2. Nav(u, f, key) = [u EXCEPT !.doc.open = open]
    BY <1>1, <1>8, <2>1 DEF Nav, Uis, Docs
  <2>3. open \in SUBSET Nat /\ \A i \in open : Kids(u.doc, i) > 0
    BY <1>1, KidsAreNat
  <2> HIDE DEF open
  <2> QED
    BY <1>8, <2>2, <2>3, OpenKeeps
<1>9. CASE key = "Left" /\ f[1] = "item"
  <2> DEFINE open == u.doc.open \ {f[2]}
  <2>1. u \in Uis
    BY DEF Good
  <2>2. Nav(u, f, key) = [u EXCEPT !.doc.open = open]
    BY <1>1, <1>9, <2>1 DEF Nav, Uis, Docs
  <2>3. open \in SUBSET Nat /\ \A i \in open : Kids(u.doc, i) > 0
    BY <1>1
  <2> HIDE DEF open
  <2> QED
    BY <1>9, <2>2, <2>3, OpenKeeps
<1>10. CASE key = "Esc"
  <2>1. Good(CloseResultsWindow(u)) /\ Calm(u, CloseResultsWindow(u))
    BY <1>2, CloseResultsKeeps
  <2>2. Aim(Field)
    BY DEF Aim
  <2>3. /\ Good(Focus(CloseResultsWindow(u), Field))
        /\ Calm(CloseResultsWindow(u), Focus(CloseResultsWindow(u), Field))
    BY <2>1, <2>2, FocusKeeps
  <2>4. Nav(u, f, key) = Focus(CloseResultsWindow(u), Field)
    BY <1>10 DEF Nav
  <2> QED
    BY <2>1, <2>3, <2>4 DEF Calm
<1>11. CASE /\ key \notin {"Up", "Down", "ShiftDown", "Esc"}
            /\ key \in {"Right", "Left"} => f[1] # "item"
  <2>1. Nav(u, f, key) = u
    BY <1>11 DEF Nav
  <2> QED
    BY <1>3, <2>1
<1> QED
  BY <1>6, <1>7, <1>8, <1>9, <1>10, <1>11

-----------------------------------------------------------------------------
(* The steps.                                                              *)

\* The page is good again after a step, and no more is pending than before.
LEMMA QuietStep ==
  ASSUME IInv, Good(ui'),
         ui'.searches <= ui.searches, ui'.hides <= ui.hides, ui'.posted <= ui.posted,
         held' \in Keys \cup {"none"}, UNCHANGED <<mouse, version>>
  PROVE  IInv'
<1>1. /\ ui.searches \in Nat /\ ui.hides \in Nat /\ ui.posted \in Nat
      /\ ui'.searches \in Nat /\ ui'.hides \in Nat /\ ui'.posted \in Nat
  BY DEF IInv, Good, Uis
<1> QED
  BY <1>1, BoundsAssumption DEF IInv

\* The page that a handler leaves, when nothing is started.
LEMMA CalmStep ==
  ASSUME IInv, Good(ui'), Calm(ui, ui'), held' \in Keys \cup {"none"}, UNCHANGED <<mouse, version>>
  PROVE  IInv'
<1>1. ui.searches \in Nat /\ ui.hides \in Nat /\ ui.posted \in Nat
  BY DEF IInv, Good, Uis
<1> QED
  BY <1>1, QuietStep DEF Calm

\* A page that has just been loaded is good.
LEMMA FreshIsGood == Good(Fresh) /\ Fresh.searches = 0 /\ Fresh.hides = 0 /\ Fresh.posted = 0
<1>1. <<>> \in Seq(Nat) /\ NoPage \in Docs /\ 0 \in 0 .. Count /\ Nowhere \in Spots
  BY Filters DEF NoPage, Docs, Pages, Spots
<1>2. Fresh \in Uis
  BY <1>1 DEF Fresh, Uis
<1>3. Nowhere # Field /\ Nowhere # Select /\ ~InFrame(Nowhere)
  BY DEF Nowhere, Field, Select, InFrame
<1>4. Labelled(Fresh) /\ Remembered(Fresh) /\ Armed(Fresh) /\ Tidy(Fresh)
  BY <1>3 DEF Fresh, Labelled, Remembered, Armed, Tidy, Navigable, Found, NoPage
<1> QED
  BY <1>2, <1>4 DEF Good, Fresh

LEMMA LeaveKeeps ==
  ASSUME IInv, Leave
  PROVE  IInv'
<1>1. ui' = Fresh /\ held' = "none" /\ mouse' = FALSE /\ version' = version
  BY DEF Leave
<1>2. Good(ui')
  BY <1>1, FreshIsGood
<1>3. ui'.searches = 0 /\ ui'.hides = 0 /\ ui'.posted = 0
  BY <1>1, FreshIsGood
<1>4. mouse' \in BOOLEAN /\ ~mouse'
  BY <1>1
<1>5. version' \in {"1.8.17", "1.8.18"}
  BY <1>1 DEF IInv
<1>6. ui'.searches <= MaxTimers /\ ui'.hides <= 1 /\ ui'.posted <= MaxPosted
  BY <1>3, BoundsAssumption
<1> QED
  BY <1>1, <1>2, <1>3, <1>4, <1>5, <1>6 DEF IInv

LEMMA KeyDownKeeps ==
  ASSUME IInv, NEW key \in Keys, KeyDown(key)
  PROVE  IInv'
<1>1. Good(ui) /\ ui \in Uis /\ held' = key /\ UNCHANGED <<mouse, version>>
  BY DEF IInv, Good, KeyDown
<1>2. ~InFrame(Field) /\ ~InFrame(Select) /\ Field # Select
  BY DEF InFrame, Field, Select
<1>3. \/ /\ ui.focus = Field
         /\ \E t \in Texts : ui' = [ui EXCEPT !.field = t]
      \/ ui' = OnSearchSelectKey(ui, key)
      \/ InFrame(ui.focus) /\ ui' = Nav(ui, ui.focus, key)
      \/ ui' = ui
  BY <1>2 DEF KeyDown
<1>4. ASSUME NEW t \in Texts, ui.focus = Field, ui' = [ui EXCEPT !.field = t]
      PROVE  Good(ui') /\ Calm(ui, ui')
  <2>1. ui' \in Uis
    BY <1>1, <1>4 DEF Uis
  <2>2. /\ ui'.focus = ui.focus /\ ui'.shown = ui.shown /\ ui'.select = ui.select
        /\ ui'.doc = ui.doc /\ ui'.request = ui.request /\ ui'.last = ui.last
        /\ ui'.active = ui.active /\ ui'.keyTimeout = ui.keyTimeout
        /\ ui'.searches = ui.searches /\ ui'.hides = ui.hides /\ ui'.posted = ui.posted
    BY <1>1, <1>4 DEF Uis
  <2>3. ui.active
    BY <1>1, <1>4 DEF Good, Labelled
  <2>4. Labelled(ui') /\ Armed(ui') /\ Calm(ui, ui')
    BY <1>1, <2>2, <2>3 DEF Good, Labelled, Armed, Calm
  <2>5. Remembered(ui') /\ Tidy(ui')
    BY <1>1, <2>2 DEF Good, Remembered, WantedWord, Tidy
  <2> QED
    BY <2>1, <2>4, <2>5 DEF Good
<1>5. Good(ui') /\ Calm(ui, ui')
  <2>1. Calm(ui, ui)
    BY DEF Calm
  <2> QED
    BY <1>1, <1>3, <1>4, <2>1, SelectKeyKeeps, NavKeeps
<1> QED
  BY <1>1, <1>5, CalmStep

LEMMA KeyUpKeeps ==
  ASSUME IInv, KeyUp
  PROVE  IInv'
<1>1. Good(ui) /\ held' = "none" /\ mouse' = mouse /\ version' = version
      /\ ui'.searches <= MaxTimers /\ ui'.posted <= MaxPosted
  BY DEF IInv, KeyUp
<1>2. Good(ui') /\ ui'.hides <= ui.hides
  <2>1. ui' = OnSearchFieldChange(ui, held) \/ ui' = ui
    BY DEF KeyUp
  <2>2. ui.hides \in Nat
    BY <1>1 DEF Good, Uis
  <2> QED
    BY <1>1, <2>1, <2>2, FieldChangeKeeps
<1>3. ui.hides \in Nat /\ ui'.hides \in Nat
  BY <1>1, <1>2 DEF Good, Uis
<1> QED
  BY <1>1, <1>2, <1>3 DEF IInv

\* A click somewhere.
LEMMA ClickKeeps ==
  ASSUME IInv, ClickField \/ ClickBeside \/ ClickClose \/ \E id \in Sections : ClickFilter(id)
  PROVE  IInv'
<1>1. Good(ui) /\ held' = held /\ UNCHANGED <<mouse, version>> /\ held \in Keys \cup {"none"}
  BY DEF IInv, ClickField, ClickBeside, ClickClose, ClickFilter
<1>2. Aim(Field) /\ Aim(Nowhere) /\ Aim(Select) /\ Nowhere # Field
  BY DEF Aim, Nowhere, Field
<1>3. \/ ui' \in {Focus(ui, Field), Focus(ui, Nowhere), CloseResultsWindow(Focus(ui, Nowhere))}
      \/ \E id \in Sections : ui' = OnSelectItem(Focus(ui, Select), id)
  BY DEF ClickField, ClickBeside, ClickClose, ClickFilter
<1>4. Good(Focus(ui, Field)) /\ Calm(ui, Focus(ui, Field))
  BY <1>1, <1>2, FocusKeeps
<1>5. Good(Focus(ui, Nowhere)) /\ Calm(ui, Focus(ui, Nowhere)) /\ Focus(ui, Nowhere).focus # Field
  BY <1>1, <1>2, FocusKeeps
<1>6. /\ Good(CloseResultsWindow(Focus(ui, Nowhere)))
      /\ Calm(ui, CloseResultsWindow(Focus(ui, Nowhere)))
  BY <1>5, CloseResultsKeeps DEF Calm
<1>7. ASSUME NEW id \in Sections
      PROVE  /\ Good(OnSelectItem(Focus(ui, Select), id))
             /\ Calm(ui, OnSelectItem(Focus(ui, Select), id))
  <2>1. id \in 0 .. Count
    BY Filters
  <2>2. Good(Focus(ui, Select)) /\ Calm(ui, Focus(ui, Select))
    BY <1>1, <1>2, FocusKeeps
  <2> QED
    BY <2>1, <2>2, SelectItemKeeps DEF Calm
<1>8. Good(ui') /\ Calm(ui, ui')
  BY <1>3, <1>4, <1>5, <1>6, <1>7
<1> QED
  BY <1>1, <1>8, CalmStep

\* A click on a result: the focus is on the item before its children close.
LEMMA ClickItemKeeps ==
  ASSUME IInv, NEW i, ClickItem(i)
  PROVE  IInv'
<1>1. Good(ui) /\ ui \in Uis /\ ui.doc \in Docs /\ held \in Keys \cup {"none"}
  BY DEF IInv, Good, Uis
<1>2. ui.shown /\ i \in ui.doc.visible
  BY DEF ClickItem
<1>3. CASE Leave
  BY <1>3, LeaveKeeps
<1>4. CASE /\ ui' = [Focus(ui, Item(i)) EXCEPT !.doc = Toggle(ui.doc, i)]
           /\ UNCHANGED <<held, mouse, version>>
  <2> DEFINE u == Focus(ui, Item(i))
             open == Toggle(ui.doc, i).open
  <2>1. Aim(Item(i)) /\ Item(i)[1] = "item" /\ Item(i)[2] = i
    BY DEF Aim, Item
  <2>2. InFrame(Item(i)) /\ Focusable(ui.doc, Item(i))
    BY <1>2, <2>1 DEF InFrame, Focusable
  <2>3. Good(u) /\ Calm(ui, u) /\ u.focus = Item(i) /\ u.doc = ui.doc
    BY <1>1, <1>2, <2>1, <2>2, FocusKeeps
  <2>4. /\ open \in SUBSET Nat /\ Toggle(ui.doc, i) = [ui.doc EXCEPT !.open = open]
        /\ \A j \in open : Kids(ui.doc, j) > 0
    <3>1. Kids(ui.doc, i) # 0 => Kids(ui.doc, i) > 0
      BY <1>1, KidsAreNat
    <3>2. \A j \in ui.doc.open : Kids(ui.doc, j) > 0
      BY <1>1 DEF Good, Tidy, Navigable
    <3> QED
      BY <1>1, <1>2, <3>1, <3>2 DEF Toggle, Docs
  <2> HIDE DEF u, open
  <2>5. ui' = [u EXCEPT !.doc = [ui.doc EXCEPT !.open = open]]
    BY <1>4, <2>4 DEF u
  <2>6. u \in Uis
    BY <2>3 DEF Good
  <2>7. ui' = [u EXCEPT !.doc.open = open]
    BY <2>3, <2>5, <2>6 DEF Uis
  <2>8. Good(ui') /\ Calm(u, ui')
    BY <2>1, <2>3, <2>4, <2>7, OpenKeeps
  <2>9. Calm(ui, ui')
    BY <2>3, <2>8 DEF Calm
  <2> QED
    BY <1>1, <1>4, <2>8, <2>9, CalmStep
<1> QED
  BY <1>3, <1>4 DEF ClickItem

\* The mouse comes and goes.
LEMMA MouseKeeps ==
  ASSUME IInv, MouseOver \/ MouseOut \/ MouseLost
  PROVE  IInv'
<1>1. /\ Good(ui) /\ ui \in Uis /\ ui.searches \in Nat /\ ui.hides \in 0 .. 1 /\ ui.posted \in Nat
      /\ ui.searches <= MaxTimers /\ ui.posted <= MaxPosted /\ held \in Keys \cup {"none"}
      /\ version \in {"1.8.17", "1.8.18"}
  BY DEF IInv, Good, Uis
<1>2. held' = held /\ version' = version
  BY DEF MouseOver, MouseOut, MouseLost
<1>3. CASE MouseOver
  <2>1. ui' = OnSearchSelectShow(ui) /\ mouse' \in BOOLEAN
    BY <1>3 DEF MouseOver
  <2>2. Good(ui') /\ ui'.searches = ui.searches /\ ui'.posted = ui.posted /\ ui'.hides = 0
    BY <1>1, <2>1, SelectShowKeeps
  <2> QED
    BY <1>1, <1>2, <2>1, <2>2 DEF IInv
<1>4. CASE MouseOut
  <2>1. ui' = OnSearchSelectHide(ui) /\ mouse' \in BOOLEAN /\ ~mouse' /\ ui.hides = 0
    <3>1. mouse /\ ui' = OnSearchSelectHide(ui) /\ mouse' = FALSE
      BY <1>4 DEF MouseOut
    <3>2. mouse => ui.hides = 0
      BY DEF IInv
    <3> QED
      BY <3>1, <3>2
  <2>2. ui' \in Uis /\ Alike(ui, ui') /\ ui'.keyTimeout = ui.keyTimeout
        /\ ui'.searches = ui.searches /\ ui'.posted = ui.posted /\ ui'.hides = 1
    <3>1. ui' = [ui EXCEPT !.hides = 1]
      BY <1>1, <2>1 DEF OnSearchSelectHide, Uis
    <3> QED
      BY <1>1, <3>1 DEF Uis, Alike
  <2>3. Armed(ui')
    BY <1>1, <2>2 DEF Good, Armed
  <2>4. Good(ui')
    BY <1>1, <2>2, <2>3, AlikeKeeps
  <2> QED
    BY <1>1, <1>2, <2>1, <2>2, <2>4 DEF IInv
<1>5. CASE MouseLost
  <2>1. ui' = ui /\ mouse' \in BOOLEAN /\ ~mouse'
    BY <1>5 DEF MouseLost
  <2> QED
    BY <1>1, <1>2, <2>1 DEF IInv
<1> QED
  BY <1>3, <1>4, <1>5

\* A search that a timer starts; it may be a timer that was forgotten.
LEMMA SearchTimerKeeps ==
  ASSUME IInv, SearchTimer
  PROVE  IInv'
<1> DEFINE fired == [ui EXCEPT !.searches = @ - 1]
<1>1. Good(ui) /\ ui \in Uis /\ ui.searches > 0 /\ ui.searches \in Nat /\ ui.hides \in Nat
      /\ ui.posted \in Nat /\ held \in Keys \cup {"none"}
  BY DEF IInv, Good, Uis, SearchTimer
<1>2. ui' = Search(fired) /\ UNCHANGED <<held, mouse, version>>
  BY DEF SearchTimer
<1> DEFINE \* Search forgets the timer that the page still knew.
           quiet == [fired EXCEPT !.keyTimeout = FALSE]
<1>3. Good(quiet) /\ quiet.searches = ui.searches - 1 /\ quiet.hides = ui.hides /\ quiet.posted = ui.posted
  <2>1. ui.searches - 1 \in Nat
    BY <1>1
  <2>2. quiet \in Uis
    BY <1>1, <2>1 DEF Uis
  <2>3. Alike(ui, quiet) /\ ~quiet.keyTimeout /\ quiet.searches = ui.searches - 1
        /\ quiet.hides = ui.hides /\ quiet.posted = ui.posted
    BY <1>1 DEF Uis, Alike
  <2> HIDE DEF quiet
  <2> QED
    BY <1>1, <2>2, <2>3, AlikeKeeps DEF Armed
<1>4. Search(fired) = Search(quiet)
  <2>1. quiet.field = fired.field /\ quiet.searchIndex = fired.searchIndex
    BY <1>1 DEF Uis
  <2>2. [quiet EXCEPT !.keyTimeout = FALSE] = quiet /\ [fired EXCEPT !.keyTimeout = FALSE] = quiet
    BY <1>1 DEF Uis
  <2> HIDE DEF quiet, fired
  <2> QED
    BY <2>1, <2>2 DEF Search
<1> HIDE DEF quiet, fired
<1>5. Good(ui') /\ Calm(quiet, ui')
  BY <1>2, <1>3, <1>4, SearchKeeps
<1> QED
  BY <1>1, <1>2, <1>3, <1>5, QuietStep DEF Calm

\* The filters close.
LEMMA HideTimerKeeps ==
  ASSUME IInv, HideTimer
  PROVE  IInv'
<1> DEFINE fired == [ui EXCEPT !.hides = @ - 1]
<1>1. Good(ui) /\ ui \in Uis /\ ui.hides > 0 /\ ui.searches \in Nat /\ ui.hides \in Nat
      /\ ui.posted \in Nat /\ held \in Keys \cup {"none"}
  BY DEF IInv, Good, Uis, HideTimer
<1>2. ui' = CloseSelectionWindow(fired) /\ UNCHANGED <<held, mouse, version>>
  BY DEF HideTimer
<1>3. Good(fired) /\ fired.searches = ui.searches /\ fired.hides = ui.hides - 1 /\ fired.posted = ui.posted
  <2>1. ui.hides - 1 \in Nat
    BY <1>1
  <2>2. fired \in Uis
    BY <1>1, <2>1 DEF Uis
  <2>3. Alike(ui, fired) /\ fired.keyTimeout = ui.keyTimeout /\ fired.searches = ui.searches
        /\ fired.hides = ui.hides - 1 /\ fired.posted = ui.posted
    BY <1>1 DEF Uis, Alike
  <2> HIDE DEF fired
  <2>4. Armed(fired)
    BY <1>1, <2>3 DEF Good, Armed
  <2> QED
    BY <1>1, <2>2, <2>3, <2>4, AlikeKeeps
<1> HIDE DEF fired
<1>4. Good(ui') /\ Calm(fired, ui')
  BY <1>2, <1>3, CloseSelectionKeeps
<1> QED
  BY <1>1, <1>2, <1>3, <1>4, QuietStep DEF Calm

\* The page that was asked for replaces the one in the frame.
LEMMA FrameLoadsKeeps ==
  ASSUME IInv, FrameLoads
  PROVE  IInv'
<1> DEFINE d == Loaded(ui.request[1], ui.request[2])
           f == IF InFrame(ui.focus) THEN Nowhere ELSE ui.focus
<1>1. Good(ui) /\ ui \in Uis /\ ui.searches \in Nat /\ ui.hides \in Nat
      /\ ui.posted \in Nat /\ held \in Keys \cup {"none"}
  BY DEF IInv, Good, Uis
<1>2. ui.request # NoRequest /\ UNCHANGED <<held, mouse, version>>
      /\ ui' = [ui EXCEPT !.doc = d, !.request = NoRequest, !.posted = 0, !.focus = f]
  BY DEF FrameLoads
<1>3. ui.request \in Pages \X Seq(Nat)
  BY <1>1, <1>2 DEF Uis
<1>4. d \in Docs /\ d.word = ui.request[2] /\ Navigable(d) /\ Found(d)
  <2>1. ui.request[2] \in Words
    BY <1>1, <1>2 DEF Good, Tidy
  <2> QED
    BY <1>3, <2>1, LoadedIsDoc
<1>5. f \in Spots /\ ~InFrame(f) /\ (f = ui.focus \/ f = Nowhere)
      /\ Nowhere # Field /\ Nowhere # Select
  BY <1>1 DEF Uis, InFrame, Nowhere, Spots, Field, Select
<1> HIDE DEF d, f
<1>6. ui' \in Uis
  BY <1>1, <1>2, <1>4, <1>5 DEF Uis
<1>7. /\ ui'.focus = f /\ ui'.shown = ui.shown /\ ui'.select = ui.select
      /\ ui'.doc = d /\ ui'.request = NoRequest /\ ui'.last = ui.last
      /\ ui'.active = ui.active /\ ui'.field = ui.field /\ ui'.searchActive = ui.searchActive
      /\ ui'.keyTimeout = ui.keyTimeout
      /\ ui'.searches = ui.searches /\ ui'.hides = ui.hides /\ ui'.posted = 0
  BY <1>1, <1>2 DEF Uis
<1>8. Labelled(ui') /\ Armed(ui')
  BY <1>1, <1>5, <1>7 DEF Good, Labelled, Armed
<1>9. Remembered(ui') /\ Tidy(ui')
  BY <1>1, <1>2, <1>4, <1>7 DEF Good, Remembered, WantedWord, Tidy
<1>10. Good(ui')
  BY <1>6, <1>8, <1>9 DEF Good
<1> QED
  BY <1>1, <1>2, <1>7, <1>10, QuietStep

\* The frame takes the focus when it is told to.
LEMMA TakeFocusKeeps ==
  ASSUME IInv, TakeFocus
  PROVE  IInv'
<1> DEFINE heard == [ui EXCEPT !.posted = @ - 1]
           first == Item(NavNext(ui.doc, 0))
<1>1. Good(ui) /\ ui \in Uis /\ ui.posted > 0 /\ ui.searches \in Nat /\ ui.hides \in Nat
      /\ ui.posted \in Nat /\ held \in Keys \cup {"none"}
  BY DEF IInv, Good, Uis, TakeFocus
<1>2. ui' \in {heard, Focus(heard, first)} /\ UNCHANGED <<held, mouse, version>>
  BY DEF TakeFocus
<1>3. Good(heard) /\ heard.searches = ui.searches /\ heard.hides = ui.hides /\ heard.posted = ui.posted - 1
  <2>1. ui.posted - 1 \in Nat
    BY <1>1
  <2>2. heard \in Uis
    BY <1>1, <2>1 DEF Uis
  <2>3. Alike(ui, heard) /\ heard.keyTimeout = ui.keyTimeout /\ heard.searches = ui.searches
        /\ heard.hides = ui.hides /\ heard.posted = ui.posted - 1
    BY <1>1 DEF Uis, Alike
  <2> HIDE DEF heard
  <2>4. Armed(heard)
    BY <1>1, <2>3 DEF Good, Armed
  <2> QED
    BY <1>1, <2>2, <2>3, <2>4, AlikeKeeps
<1>4. Aim(first)
  BY DEF Aim
<1> HIDE DEF heard, first
<1>5. Good(ui') /\ Calm(heard, ui')
  BY <1>2, <1>3, <1>4, FocusKeeps DEF Calm
<1> QED
  BY <1>1, <1>2, <1>3, <1>5, QuietStep DEF Calm

-----------------------------------------------------------------------------
(* The theorems.                                                           *)

\* No handler, in whatever order the browser calls them, breaks the invariant.
LEMMA Invariant == Spec => []IInv
<1>1. Init => IInv
  <2> SUFFICES ASSUME Init PROVE IInv
    OBVIOUS
  <2>1. Good(ui) /\ ui.searches = 0 /\ ui.hides = 0 /\ ui.posted = 0
    BY FreshIsGood DEF Init
  <2>2. mouse \in BOOLEAN /\ held \in Keys \cup {"none"} /\ version \in {"1.8.17", "1.8.18"}
    BY DEF Init
  <2>3. 0 <= MaxTimers /\ 0 <= MaxPosted /\ 0 <= 1
    BY BoundsAssumption
  <2> QED
    BY <2>1, <2>2, <2>3 DEF IInv
<1>2. IInv /\ [Next]_vars => IInv'
  <2> SUFFICES ASSUME IInv, [Next]_vars PROVE IInv'
    OBVIOUS
  <2>1. ASSUME NEW key \in Keys, KeyDown(key) PROVE IInv'
    BY <2>1, KeyDownKeeps
  <2>2. CASE ClickField \/ ClickBeside \/ ClickClose \/ \E id \in Sections : ClickFilter(id)
    BY <2>2, ClickKeeps
  <2>3. ASSUME NEW i \in Items(ui.doc), ClickItem(i) PROVE IInv'
    BY <2>3, ClickItemKeeps
  <2>4. CASE EnterItem
    BY <2>4, ClickItemKeeps DEF EnterItem
  <2>5. CASE EnterOrClickChild
    BY <2>5, LeaveKeeps DEF EnterOrClickChild
  <2>6. CASE MouseOver \/ MouseOut \/ MouseLost
    BY <2>6, MouseKeeps
  <2>7. CASE KeyUp
    BY <2>7, KeyUpKeeps
  <2>8. CASE Browser
    BY <2>8, SearchTimerKeeps, HideTimerKeeps, FrameLoadsKeeps, TakeFocusKeeps DEF Browser
  <2>9. CASE UNCHANGED vars
    BY <2>9 DEF vars, IInv
  <2> QED
    BY <2>1, <2>2, <2>3, <2>4, <2>5, <2>6, <2>7, <2>8, <2>9 DEF Next, User
<1> QED
  BY <1>1, <1>2, PTL DEF Spec

\* The page and its timers keep their shape: no filter further than one past
\* the last is chosen, one timer at most closes the filters, and clearTimeout
\* never takes a timer away that is not there.
THEOREM TypeCorrect == Spec => []TypeOK
<1>1. IInv => TypeOK
  <2> SUFFICES ASSUME IInv PROVE TypeOK
    OBVIOUS
  <2>1. ui \in Uis /\ ui.searches <= MaxTimers /\ ui.hides <= 1 /\ ui.posted <= MaxPosted
    BY DEF IInv, Good
  <2>2. ui.searches \in 0 .. MaxTimers /\ ui.hides \in 0 .. 1 /\ ui.posted \in 0 .. MaxPosted
    BY <2>1, BoundsAssumption DEF Uis
  <2> QED
    BY <2>1, <2>2 DEF IInv, TypeOK, Uis
<1> QED
  BY <1>1, Invariant, PTL

\* A field that is not in use shows the label, whatever Activate, the timers
\* and the focus did before.
THEOREM InactiveShowsLabelAlways == Spec => []InactiveShowsLabel
<1>1. IInv => InactiveShowsLabel
  BY DEF IInv, Good, Labelled, InactiveShowsLabel
<1> QED
  BY <1>1, Invariant, PTL

\* The word that OnSearchFieldChange compares with is that of the page in the
\* frame, or of the page on its way there.
THEOREM LastIsInFrameAlways == Spec => []LastIsInFrame
<1>1. IInv => LastIsInFrame
  <2> SUFFICES ASSUME IInv PROVE LastIsInFrame
    OBVIOUS
  <2>1. Remembered(ui)
    BY DEF IInv, Good
  <2>2. Wanted[2] = WantedWord(ui)
    BY DEF Wanted, WantedWord
  <2> QED
    BY <2>1, <2>2 DEF Remembered, LastIsInFrame
<1> QED
  BY <1>1, Invariant, PTL

\* Nav and NavChild walk through one list, whatever page was asked for and
\* whatever was opened in it, as long as words match neighbours.
THEOREM UpUndoesDownAlways == Spec => []UpUndoesDown
<1>1. IInv => UpUndoesDown
  <2> SUFFICES ASSUME IInv PROVE UpUndoesDown
    OBVIOUS
  <2>1. ui.doc \in Docs /\ Navigable(ui.doc)
    BY DEF IInv, Good, Uis, Tidy
  <2> QED
    BY <2>1, UpDown DEF UpUndoesDown
<1> QED
  BY <1>1, Invariant, PTL

\* The items shown are those whose names start with the word, for all pages
\* and all words: convertToId writes every text as Doxygen does, and what both
\* write can be taken apart again.  The one exception is a word that goes on
\* behind a whole name with what the number of the row looks like.
THEOREM VisibleMatchAlways == Spec => []VisibleMatch
<1>1. IInv => VisibleMatch
  <2> SUFFICES ASSUME IInv, ui.doc.page # NoMatches
               PROVE  VisibleMatch
    BY DEF VisibleMatch
  <2> DEFINE word == ToLower(NoTrailing(NoLeading(ui.doc.word)))
             rows == searchData[ui.doc.page]
             Fits(row) == \/ IsPrefix(word, row.name)
                          \/ /\ IsPrefix(row.name, word)
                             /\ IsPrefix(Escape(SubSeq(word, Len(row.name) + 1, Len(word))),
                                         <<95>> \o row.number)
  <2>1. ui.doc \in Docs /\ ui.doc.visible = Matching(ui.doc.page, ui.doc.word)
    BY DEF IInv, Good, Uis, Tidy, Found
  <2>2. word \in Seq(Nat)
    BY <2>1, TrimmedIsText DEF Docs
  <2>3. rows \in Seq([name : Seq(Nat), number : Seq(Nat), id : Seq(Nat), kids : Nat])
    BY <2>1, PagesAssumption DEF Docs, Pages
  <2>4. Rows(ui.doc) = rows /\ Items(ui.doc) = 0 .. Len(rows) - 1
    BY DEF Rows, Items
  <2>5. ui.doc.visible = {i \in 0 .. Len(rows) - 1 : IsPrefix(convertToId(word), ToLower(rows[i + 1].id))}
    BY <2>1 DEF Matching
  <2> HIDE DEF word, rows
  <2>6. ASSUME NEW i \in 0 .. Len(rows) - 1
        PROVE  IsPrefix(convertToId(word), ToLower(rows[i + 1].id)) <=> Fits(rows[i + 1])
    <3>1. i + 1 \in 1 .. Len(rows)
      BY <2>3
    <3>2. rows[i + 1] \in [name : Seq(Nat), number : Seq(Nat), id : Seq(Nat), kids : Nat]
      BY <2>3, <3>1, ElementOfSeq
    <3>3. rows[i + 1].name \in Seq(Nat) /\ rows[i + 1].number \in Seq(Nat)
      BY <3>2
    <3>4. ToLower(rows[i + 1].id) = Escape(rows[i + 1].name) \o <<95>> \o rows[i + 1].number
      <4>1. ui.doc.page \in DOMAIN searchData /\ i + 1 \in DOMAIN searchData[ui.doc.page]
        BY <2>1, <2>3, <3>1 DEF rows, Docs, Pages
      <4> QED
        BY <4>1, IdIs, Zenon DEF rows
    <3> QED
      BY <2>2, <3>3, <3>4, RowStartsWith
  <2>7. ui.doc.visible = {i \in Items(ui.doc) : Fits(Rows(ui.doc)[i + 1])}
    BY <2>4, <2>5, <2>6
  <2> QED
    BY <2>7 DEF VisibleMatch, word
<1> QED
  BY <1>1, Invariant, PTL
=============================================================================
