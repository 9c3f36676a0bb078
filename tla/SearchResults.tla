---------------------------- MODULE SearchResults ----------------------------
(***************************************************************************)
(* search.js of the generated documentation, class SearchResults: a page   *)
(* of results in the frame.  A page lists items, some of them with         *)
(* children; the items whose id starts with the search word are visible,   *)
(* and the arrow keys move the focus among what is visible.                *)
(*                                                                         *)
(* Texts are sequences of character codes.                                 *)
(***************************************************************************)
EXTENDS Integers, Sequences, FiniteSets, SequencesExt, FiniteSetsExt

CONSTANTS
  Letters,    \* Letters[s]: indexSectionsWithContent[s], a text
  searchData  \* searchData[<<s, idx>>]: the rows of the page for letter idx of
              \* section s, each [name, number, id, kids]; the page holds the id

Sections == DOMAIN Letters
NoMatches == <<"nomatches">>        \* nomatches.html: no items, no script
NoRow == -1

\* Doxygen writes searchdata.js and the pages together: filters are numbered
\* from 0, and every letter of a filter has its page.
ASSUME SectionsAssumption ==
  /\ IsFiniteSet(Sections)
  /\ Sections = 0 .. Cardinality(Sections) - 1
  /\ \A s \in Sections : Letters[s] \in Seq(Nat)

ASSUME PagesAssumption ==
  /\ DOMAIN searchData = UNION {{<<s, k - 1>> : k \in DOMAIN Letters[s]} : s \in Sections}
  /\ \A page \in DOMAIN searchData :
       searchData[page] \in Seq([name : Seq(Nat), number : Seq(Nat), id : Seq(Nat), kids : Nat])

-----------------------------------------------------------------------------
(* What Doxygen, which is not part of the repository, wrote as ids: small  *)
(* letters, digits and what is not ASCII as they are, any other character  *)
(* as `_' and the two digits of its code in base 16; then `_' and the      *)
(* number of the row.  'data_5ffunc_4' is the row 4, data_func.            *)

\* 0 to 9, then a to f.
HexDigits == [d \in 0 .. 15 |-> IF d \in 0 .. 9 THEN 48 + d ELSE 97 + (d - 10)]

Escaped(c) ==
  IF c \in (48 .. 57) \cup (97 .. 122) \/ c > 127 THEN <<c>>
  ELSE <<95, HexDigits[c \div 16], HexDigits[c % 16]>>

Escape(t) == FlattenSeq([k \in DOMAIN t |-> Escaped(t[k])])

ASSUME IdsAssumption ==
  \A page \in DOMAIN searchData : \A k \in DOMAIN searchData[page] :
    LET row == searchData[page][k]
    IN  /\ row.id = Escape(row.name) \o <<95>> \o row.number
        /\ \A j \in DOMAIN row.id : row.id[j] \notin 65 .. 90

-----------------------------------------------------------------------------
(* Texts.                                                                  *)

Space == 32

ToLower(t) == [k \in DOMAIN t |-> IF t[k] \in 65 .. 90 THEN t[k] + 32 ELSE t[k]]

\* replace(/ +/g, ""), replace(/^ +/, "") and replace(/ +$/, "").
NoSpaces(t) == SelectSeq(t, LAMBDA c : c # Space)
Inked(t) == {k \in DOMAIN t : t[k] # Space}
NoLeading(t) == IF Inked(t) = {} THEN <<>> ELSE SubSeq(t, Min(Inked(t)), Len(t))
NoTrailing(t) == IF Inked(t) = {} THEN <<>> ELSE SubSeq(t, 1, Max(Inked(t)))

HexDigit(d) == IF d < 10 THEN 48 + d ELSE 87 + d

\* /[a-z0-9\u0080-\uFFFF]/
Kept(c) == c \in 97 .. 122 \/ c \in 48 .. 57 \/ c >= 128

\* Mutant: no zero in front of one digit.
EncodedUnpadded(c) ==
  IF Kept(c) THEN <<c>>
  ELSE IF c < 16 THEN <<95, HexDigit(c)>>
  ELSE <<95, HexDigit(c \div 16), HexDigit(c % 16)>>

\* toString(16) gives one digit below 16.
Encoded(c) ==
  IF Kept(c) THEN <<c>>
  ELSE IF c < 16 THEN <<95, 48, HexDigit(c)>>
  ELSE <<95, HexDigit(c \div 16), HexDigit(c % 16)>>

convertToId(t) == FlattenSeq([k \in DOMAIN t |-> Encoded(t[k])])

-----------------------------------------------------------------------------
(* The document in the frame: `visible' and `open' are the items, counted  *)
(* from 0, that are shown and whose children are shown.                    *)

Rows(d) == IF d.page = NoMatches THEN <<>> ELSE searchData[d.page]
Items(d) == 0 .. Len(Rows(d)) - 1
Kids(d, i) == IF i \in Items(d) THEN Rows(d)[i + 1].kids ELSE 0

\* Has this document an object searchResults?
HasScript(d) == d.page # NoMatches

\* SearchResults.Search: the items whose ids, without `SR_', start with the
\* word.
Matching(page, word) ==
  LET search == convertToId(ToLower(NoTrailing(NoLeading(word))))
  IN  {i \in 0 .. Len(searchData[page]) - 1 : IsPrefix(search, ToLower(searchData[page][i + 1].id))}

\* A page has loaded: createResults, then Search with the word of the query.
Loaded(page, word) ==
  [page |-> page, word |-> word, open |-> {},
   visible |-> IF page = NoMatches THEN {} ELSE Matching(page, word)]

Toggle(d, i) ==
  [d EXCEPT !.open = IF Kids(d, i) = 0 THEN @ ELSE IF i \in @ THEN @ \ {i} ELSE @ \cup {i}]

-----------------------------------------------------------------------------
(* Places that can have the focus.                                         *)

Field == <<"field">>              \* the search field of the page
Select == <<"select">>            \* the window with the filters
Nowhere == <<"nowhere">>
Item(i) == <<"item", i>>
Child(i, c) == <<"child", i, c>>
InFrame(f) == f[1] \in {"item", "child"}

Focusable(d, f) ==
  CASE f[1] = "item"  -> f[2] \in d.visible
    [] f[1] = "child" -> f[2] \in d.visible \cap d.open /\ f[3] \in 0 .. Kids(d, f[2]) - 1
    [] OTHER -> TRUE

-----------------------------------------------------------------------------
(* Keys.                                                                   *)

NavNext(d, index) ==
  LET later == {i \in d.visible : i >= index} IN IF later = {} THEN NoRow ELSE Min(later)

NavPrev(d, index) ==
  LET earlier == {i \in d.visible : i <= index} IN IF earlier = {} THEN NoRow ELSE Max(earlier)

\* Mutant: the loop over the children stops at the first one.
UpFromFirst(d, i) ==
  LET p == NavPrev(d, i - 1)
  IN  IF p = NoRow THEN Field
      ELSE IF p \in d.open /\ Kids(d, i - 1) > 0 THEN Child(i - 1, 0) ELSE Item(p)

\* Where Up takes the focus from item i.  The last child is looked up under
\* item i - 1, even when the visible item before i is another one.
UpFrom(d, i) ==
  LET p == NavPrev(d, i - 1)
  IN  IF p = NoRow THEN Field
      ELSE IF p \in d.open /\ Kids(d, i - 1) > 0 THEN Child(i - 1, Kids(d, i - 1) - 1)
      ELSE Item(p)

\* Where Down takes it, or Nowhere when it stays.
DownFrom(d, i) ==
  IF i \in d.open THEN Child(i, 0)
  ELSE IF NavNext(d, i + 1) = NoRow THEN Nowhere ELSE Item(NavNext(d, i + 1))

ChildUp(i, c) == IF c > 0 THEN Child(i, c - 1) ELSE Item(i)

ChildDown(d, i, c) ==
  IF c + 1 < Kids(d, i) THEN Child(i, c + 1)
  ELSE IF NavNext(d, i + 1) = NoRow THEN Nowhere ELSE Item(NavNext(d, i + 1))

\* Up and Down from any place in the frame.
Above(d, f) == IF f[1] = "item" THEN UpFrom(d, f[2]) ELSE ChildUp(f[2], f[3])
Below(d, f) == IF f[1] = "item" THEN DownFrom(d, f[2]) ELSE ChildDown(d, f[2], f[3])

\* All places of the frame that the focus can be in.
Places(d) ==
  {Item(i) : i \in d.visible}
    \cup UNION {{Child(i, c) : c \in 0 .. Kids(d, i) - 1} : i \in d.visible \cap d.open}
=============================================================================
