------------------------------ MODULE SearchBox ------------------------------
(***************************************************************************)
(* search.js of the generated documentation, class SearchBox: the search   *)
(* field, the window with the filters and the frame with the results, the  *)
(* timers between them and the events that the browser delivers.           *)
(*                                                                         *)
(* Each method of the class is an operator from one state of the page to   *)
(* the next one, as the browser runs a handler to its end.  A key press is *)
(* two events, and what happens at the first may move the focus, so that   *)
(* the second goes to another handler.                                     *)
(*                                                                         *)
(* Positions and sizes of the windows are left out.  MSearchClose is shown *)
(* and hidden together with the window of the results.                     *)
(***************************************************************************)
EXTENDS SearchResults

CONSTANTS
  Texts,       \* what the user may type: a bound
  Label,       \* searchLabel, shown in the field while it is not used
  MaxTimers,   \* a bound: timers pending that will call Search
  MaxPosted    \* a bound: messages to the frame on their way

Count == Cardinality(Sections)      \* SelectItemCount()
Blank(t) == NoSpaces(t) = <<>>

\* The label, 'Search' in html/annotated.html, starts with no space.
ASSUME TextsAssumption ==
  /\ Texts \subseteq Seq(Nat)
  /\ Label \in Seq(Nat) /\ Label # <<>> /\ Label[1] # Space

\* What Search can look for.
Words == {NoLeading(t) : t \in Texts \cup {Label, <<>>}}

\* Doxygen sorts the rows of a page by name, so the rows that a word matches
\* are neighbours.
ASSUME SortedAssumption ==
  \A page \in DOMAIN searchData : \A word \in Words :
    \A i, k \in Matching(page, word) : i .. k \subseteq Matching(page, word)

ASSUME BoundsAssumption == MaxTimers \in Nat /\ MaxPosted \in Nat

VARIABLES
  ui,       \* the page: fields of searchBox and what is displayed
  held,     \* the key that is down, or "none"
  mouse,    \* is the mouse over the filter icon or its window?
  version   \* which of the two copies of search.js: "1.8.17" or "1.8.18"

vars == <<ui, held, mouse, version>>

Keys == {"Up", "Down", "ShiftDown", "Left", "Right", "Enter", "Esc", "Char"}

NoRequest == <<"none">>
NoPage == [page |-> NoMatches, word |-> <<>>, open |-> {}, visible |-> {}]

\* The page after initMenu and init_search.
Fresh ==
  [field |-> Label,           \* the text in MSearchField
   active |-> FALSE,          \* className of MSearchBox
   searchActive |-> FALSE,
   searchIndex |-> 0,
   last |-> <<>>,             \* lastSearchValue
   shown |-> FALSE,           \* the window of the results is displayed
   select |-> FALSE,          \* the window of the filters is displayed
   focus |-> Nowhere,
   keyTimeout |-> FALSE,      \* is keyTimeout set?
   searches |-> 0,            \* timers pending that will call Search
   hides |-> 0,               \* timers pending that will close the filters
   request |-> NoRequest,     \* the address given to the frame, not loaded yet
   posted |-> 0,              \* messages take_focus on their way
   doc |-> NoPage]            \* the document in the frame

Init ==
  /\ ui = Fresh
  /\ held = "none"
  /\ mouse = FALSE
  /\ version \in {"1.8.17", "1.8.18"}

-----------------------------------------------------------------------------
(* Activation.                                                             *)

\* Mutant: the label stays out of the field.
ActivateBare(u, isActive) ==
  IF isActive \/ u.shown
  THEN IF u.field = Label
       THEN [u EXCEPT !.active = TRUE, !.field = <<>>, !.searchActive = TRUE]
       ELSE [u EXCEPT !.active = TRUE]
  ELSE [u EXCEPT !.active = FALSE, !.searchActive = FALSE, !.last = <<>>]

Activate(u, isActive) ==
  IF isActive \/ u.shown
  THEN IF u.field = Label
       THEN [u EXCEPT !.active = TRUE, !.field = <<>>, !.searchActive = TRUE]
       ELSE [u EXCEPT !.active = TRUE]
  ELSE [u EXCEPT !.active = FALSE, !.field = Label, !.searchActive = FALSE, !.last = <<>>]

\* The browser moves the focus: onblur, then onfocus, call OnSearchFieldFocus.
\* What is not displayed cannot have the focus.
Focus(u, f) ==
  LET displayed == CASE InFrame(f) -> u.shown /\ Focusable(u.doc, f)
                     [] f = Select -> u.select
                     [] OTHER -> TRUE
      left == IF u.focus = Field THEN Activate([u EXCEPT !.focus = f], FALSE)
              ELSE [u EXCEPT !.focus = f]
  IN  IF f = u.focus \/ ~displayed THEN u
      ELSE IF f = Field THEN Activate(left, TRUE) ELSE left

\* The browser takes the focus away from what is no longer displayed.
HideResults(u) == [u EXCEPT !.shown = FALSE, !.focus = IF InFrame(@) THEN Nowhere ELSE @]

-----------------------------------------------------------------------------
(* The search.                                                             *)

\* indexOf(idxChar): -1 when the letter has no page; the first page for "".
PageFor(section, word) ==
  LET at == {k \in DOMAIN Letters[section] :
               word = <<>> \/ Letters[section][k] = ToLower(word)[1]}
  IN  IF at = {} THEN NoMatches ELSE <<section, Min(at) - 1>>

\* Mutant: lastSearchValue is kept without any of its spaces.
SearchStrips(u) ==
  LET word == NoLeading(u.field)
      go == [u EXCEPT !.keyTimeout = FALSE]
  IN  IF u.searchIndex = Count THEN go
      ELSE [go EXCEPT !.request = <<PageFor(u.searchIndex, word), word>>,
                      !.shown = TRUE, !.last = NoSpaces(word)]

\* With searchIndex = Count it throws before it has asked for a page.
Search(u) ==
  LET word == NoLeading(u.field)
      go == [u EXCEPT !.keyTimeout = FALSE]
  IN  IF u.searchIndex = Count THEN go
      ELSE [go EXCEPT !.request = <<PageFor(u.searchIndex, word), word>>,
                      !.shown = TRUE, !.last = word]

CloseResultsWindow(u) == Activate(HideResults(u), FALSE)

CloseSelectionWindow(u) ==
  [u EXCEPT !.select = FALSE, !.focus = IF @ = Select THEN Nowhere ELSE @]

-----------------------------------------------------------------------------
(* The window with the filters.                                            *)

\* hideTimeout is the last timer that was set; it may have fired already, and
\* clearing it then does nothing.
OnSearchSelectShow(u) ==
  [u EXCEPT !.select = TRUE, !.hides = IF @ > 0 THEN @ - 1 ELSE @]

OnSearchSelectHide(u) == [u EXCEPT !.hides = @ + 1]

\* Does choosing a filter start a search, and does that search throw?
Searching(u) == ~Blank(u.field) /\ u.searchActive
Throws(u, id) == Searching(u) /\ id = Count

OnSelectItem(u, id) ==
  LET chosen == [u EXCEPT !.searchIndex = id]
  IN  IF Searching(u) THEN Search(chosen) ELSE chosen

\* Mutant: Down is compared with <=.
OnSearchSelectKeyPast(u, key) ==
  CASE key = "Down" -> OnSelectItem(u, u.searchIndex + 1)
    [] key = "Up" /\ u.searchIndex > 0 -> OnSelectItem(u, u.searchIndex - 1)
    [] OTHER -> u

OnSearchSelectKey(u, key) ==
  CASE key \in {"Down", "ShiftDown"} /\ u.searchIndex < Count -> OnSelectItem(u, u.searchIndex + 1)
    [] key = "Up" /\ u.searchIndex > 0 -> OnSelectItem(u, u.searchIndex - 1)
    [] key \in {"Enter", "Esc"} ->
         IF Throws(u, u.searchIndex) THEN OnSelectItem(u, u.searchIndex)
         ELSE Focus(CloseSelectionWindow(OnSelectItem(u, u.searchIndex)), Field)
    [] OTHER -> u

-----------------------------------------------------------------------------
(* A key was released in the search field.                                 *)

\* clearTimeout(keyTimeout).
StopTimer(u) ==
  IF u.keyTimeout THEN [u EXCEPT !.keyTimeout = FALSE, !.searches = @ - 1] ELSE u

\* Down or Enter: go to the first result that is shown.  The newer copy of
\* search.js asks the frame to do so.
EnterResults(u) ==
  IF version = "1.8.18" THEN [u EXCEPT !.posted = @ + 1]
  ELSE IF NavNext(u.doc, 0) = NoRow THEN u
  ELSE Focus(u, Item(NavNext(u.doc, 0)))

\* Escape: out of the field, and everything back.
EscapeField(u) ==
  Activate([HideResults(Focus(u, Nowhere)) EXCEPT !.last = <<>>], FALSE)

\* The text without its spaces is another one than was searched last: search
\* for it later, or close the window.
ContentChanged(u) ==
  LET searchValue == NoSpaces(u.field)
  IN  CASE searchValue = u.last -> u
        [] searchValue # u.last /\ searchValue # <<>> ->
             [u EXCEPT !.keyTimeout = TRUE, !.searches = @ + 1]
        [] OTHER -> [HideResults(u) EXCEPT !.last = <<>>]

OnSearchFieldChange(u, key) ==
  LET s == StopTimer(u)
  IN  CASE key = "ShiftDown" -> Focus(OnSearchSelectShow(s), Select)
        [] key \in {"Down", "Enter"} -> ContentChanged(EnterResults(s))
        [] key = "Esc" -> EscapeField(s)
        [] OTHER -> ContentChanged(s)

-----------------------------------------------------------------------------
(* Keys in the frame.                                                      *)

\* Nav and NavChild.  ProcessKeys lets the press of a key through and stops
\* its release.  Enter is left to the browser, which follows the link.
Nav(u, f, key) ==
  CASE key = "Up" -> Focus(u, Above(u.doc, f))
    [] key \in {"Down", "ShiftDown"} ->
         IF Below(u.doc, f) = Nowhere THEN u ELSE Focus(u, Below(u.doc, f))
    [] key = "Right" /\ f[1] = "item" ->
         [u EXCEPT !.doc.open = IF Kids(u.doc, f[2]) > 0 THEN @ \cup {f[2]} ELSE @]
    [] key = "Left" /\ f[1] = "item" -> [u EXCEPT !.doc.open = @ \ {f[2]}]
    [] key = "Esc" -> Focus(CloseResultsWindow(u), Field)
    [] OTHER -> u

-----------------------------------------------------------------------------
(* What the user does.  A link that is followed replaces the whole page.   *)

Leave == ui' = Fresh /\ held' = "none" /\ mouse' = FALSE /\ UNCHANGED version

\* Where a key does something; elsewhere its press is not modelled.
KeysAt(f) ==
  CASE f = Field -> {"Char", "Down", "ShiftDown", "Enter", "Esc"}
    [] f = Select -> {"Up", "Down", "Enter", "Esc"}
    [] f[1] = "item" -> {"Up", "Down", "Left", "Right", "Enter", "Esc"}
    [] f[1] = "child" -> {"Up", "Down", "Enter", "Esc"}
    [] OTHER -> {}

KeyDown(key) ==
  /\ held \in {"none", key}
  /\ key \in KeysAt(ui.focus)
  /\ held' = key
  /\ CASE ui.focus = Field /\ key = "Char" -> \E t \in Texts : ui' = [ui EXCEPT !.field = t]
       [] ui.focus = Select -> ui' = OnSearchSelectKey(ui, key)
       [] InFrame(ui.focus) -> ui' = Nav(ui, ui.focus, key)
       [] OTHER -> UNCHANGED ui
  /\ UNCHANGED <<mouse, version>>

\* Bounds: no more timers than MaxTimers, no more messages than MaxPosted.
KeyUp ==
  /\ held # "none"
  /\ held' = "none"
  /\ ui' = IF ui.focus = Field THEN OnSearchFieldChange(ui, held) ELSE ui
  /\ ui'.searches <= MaxTimers
  /\ ui'.posted <= MaxPosted
  /\ UNCHANGED <<mouse, version>>

ClickField == ui' = Focus(ui, Field) /\ UNCHANGED <<held, mouse, version>>

ClickBeside ==
  /\ ui.focus # Nowhere
  /\ ui' = Focus(ui, Nowhere)
  /\ UNCHANGED <<held, mouse, version>>

ClickClose ==
  /\ ui.shown
  /\ ui' = CloseResultsWindow(Focus(ui, Nowhere))
  /\ UNCHANGED <<held, mouse, version>>

ClickFilter(id) ==
  /\ mouse
  /\ ui.select
  /\ ui' = OnSelectItem(Focus(ui, Select), id)
  /\ UNCHANGED <<held, mouse, version>>

\* The link of an item with children opens and closes them.
ClickItem(i) ==
  /\ ui.shown
  /\ i \in ui.doc.visible
  /\ IF Kids(ui.doc, i) > 0
     THEN /\ ui' = [Focus(ui, Item(i)) EXCEPT !.doc = Toggle(ui.doc, i)]
          /\ UNCHANGED <<held, mouse, version>>
     ELSE Leave

EnterItem ==
  /\ held = "Enter"
  /\ ui.focus[1] = "item"
  /\ ClickItem(ui.focus[2])

EnterOrClickChild ==
  /\ ui.shown
  /\ \E f \in Places(ui.doc) : f[1] = "child"
  /\ Leave

MouseOver ==
  /\ ~mouse
  /\ mouse' = TRUE
  /\ ui' = OnSearchSelectShow(ui)
  /\ UNCHANGED <<held, version>>

MouseOut ==
  /\ mouse
  /\ mouse' = FALSE
  /\ ui' = OnSearchSelectHide(ui)
  /\ UNCHANGED <<held, version>>

\* The window was closed under the mouse, and no event tells of it.
MouseLost ==
  /\ mouse
  /\ ~ui.select
  /\ mouse' = FALSE
  /\ UNCHANGED <<ui, held, version>>

User ==
  \/ \E key \in Keys : KeyDown(key)
  \/ ClickField
  \/ ClickBeside
  \/ ClickClose
  \/ \E id \in Sections : ClickFilter(id)
  \/ \E i \in Items(ui.doc) : ClickItem(i)
  \/ EnterItem
  \/ EnterOrClickChild
  \/ MouseOver
  \/ MouseOut
  \/ MouseLost

-----------------------------------------------------------------------------
(* What the browser does by itself.                                        *)

\* Which of several timers fires does not matter: each calls Search.
SearchTimer ==
  /\ ui.searches > 0
  /\ ui' = Search([ui EXCEPT !.searches = @ - 1])
  /\ UNCHANGED <<held, mouse, version>>

HideTimer ==
  /\ ui.hides > 0
  /\ ui' = CloseSelectionWindow([ui EXCEPT !.hides = @ - 1])
  /\ UNCHANGED <<held, mouse, version>>

\* The document in the frame is replaced, and the focus and the messages that
\* it had go with it.
FrameLoads ==
  /\ ui.request # NoRequest
  /\ ui' = [ui EXCEPT !.doc = Loaded(ui.request[1], ui.request[2]), !.request = NoRequest,
                      !.posted = 0, !.focus = IF InFrame(@) THEN Nowhere ELSE @]
  /\ UNCHANGED <<held, mouse, version>>

\* The frame's listener; a page without the script has none.
TakeFocus ==
  /\ ui.posted > 0
  /\ LET heard == [ui EXCEPT !.posted = @ - 1]
     IN  ui' = IF NavNext(ui.doc, 0) = NoRow THEN heard
               ELSE Focus(heard, Item(NavNext(ui.doc, 0)))
  /\ UNCHANGED <<held, mouse, version>>

Browser == SearchTimer \/ HideTimer \/ FrameLoads \/ TakeFocus

Next == User \/ KeyUp \/ Browser

Spec == Init /\ [][Next]_vars
-----------------------------------------------------------------------------
(* Properties.                                                             *)

\* Pages that the frame can show, and documents that are one of them.
Pages == {NoMatches} \cup DOMAIN searchData
Docs == [page : Pages, word : Seq(Nat), open : SUBSET Nat, visible : SUBSET Nat]

\* Where the focus can be.
Spots == {Field, Select, Nowhere} \cup ({"item"} \X Nat) \cup ({"child"} \X Nat \X Nat)

\* The state of the page has the right shape; one timer at most closes the
\* filters, and no index of a filter is further off than one past the last.
TypeOK ==
  /\ ui \in [field : Texts \cup {Label, <<>>}, active : BOOLEAN, searchActive : BOOLEAN,
            searchIndex : 0 .. Count, last : Seq(Nat), shown : BOOLEAN, select : BOOLEAN,
            focus : Spots, keyTimeout : BOOLEAN, searches : 0 .. MaxTimers, hides : 0 .. 1,
            request : {NoRequest} \cup (Pages \X Seq(Nat)), posted : 0 .. MaxPosted,
            doc : Docs]
  /\ held \in Keys \cup {"none"}
  /\ mouse \in BOOLEAN
  /\ version \in {"1.8.17", "1.8.18"}

\* Which page and which word the frame shows, or will when it has loaded.
Wanted == IF ui.request = NoRequest THEN <<ui.doc.page, ui.doc.word>> ELSE ui.request

\* A field that is not in use shows the label; results can be open then only
\* because a forgotten timer has searched for the label itself.
InactiveShowsLabel ==
  ~ui.active =>
    /\ ui.field = Label
    /\ ~ui.searchActive
    /\ ui.focus # Field
    /\ ui.shown => ui.last = Label

\* The word that lastSearchValue remembers, with which OnSearchFieldChange
\* decides whether to search again, is the word of the page in the frame.
LastIsInFrame == ui.last # <<>> => Wanted[2] = ui.last

\* The items shown are those whose name starts with the word: search.js and
\* Doxygen encode a text alike, and the code confuses no two texts.  Or the
\* word goes on behind the name, and the number of the row looks like what
\* follows: an id joins name and number with the sign that also starts an
\* encoded character.
VisibleMatch ==
  ui.doc.page # NoMatches =>
    LET word == ToLower(NoTrailing(NoLeading(ui.doc.word)))
        Behind(name) == SubSeq(word, Len(name) + 1, Len(word))
    IN  ui.doc.visible = {i \in Items(ui.doc) :
          LET row == Rows(ui.doc)[i + 1]
          IN  \/ IsPrefix(word, row.name)
              \/ /\ IsPrefix(row.name, word)
                 /\ IsPrefix(Escape(Behind(row.name)), <<95>> \o row.number)}

\* Up leads back to where Down came from, and only the first place leads to
\* the field: the two handlers walk through the same list.
UpUndoesDown ==
  /\ \A f \in Places(ui.doc) :
       Below(ui.doc, f) # Nowhere =>
         Below(ui.doc, f) \in Places(ui.doc) /\ Above(ui.doc, Below(ui.doc, f)) = f
  /\ \A f \in Places(ui.doc) : Above(ui.doc, f) = Field <=> f = Item(NavNext(ui.doc, 0))
=============================================================================
