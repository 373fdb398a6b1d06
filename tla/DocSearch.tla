----------------------------- MODULE DocSearch -----------------------------
(***************************************************************************)
(* The search box of the documentation pages, doc/html/search/search.js:   *)
(* a text field, a window to select a section, and a popup whose frame     *)
(* shows a page of results.  The page's author is the browser: it delivers *)
(* keys to whatever has the focus when they go down and when they come up, *)
(* fires timers late, and loads the frame when it pleases.                 *)
(***************************************************************************)
EXTENDS Integers, SequencesExt, FiniteSetsExt

CONSTANTS
  Texts,        \* what the user may leave in the field with one key (sequences of characters)
  searchLabel,  \* the field's text while the box is inactive
  Sections,     \* the keys of indexSectionLabels, 0 ... n-1
  indexSectionsWithContent, \* per section, the first characters that have a page
  searchData,   \* per section and character, the rows [name, id, kids] of that page
  lower,        \* per character, its lower case
  hex,          \* per character that is no letter or digit, "_" and its code
  MaxTimers     \* bound: search timers pending at once

\* No character: a page of nothing.
NoChar == ""

\* Texts are of characters, and the field can be emptied.  Characters are encoded with "_" and two
\* digits, "_" itself too.  doxygen writes a page for each character it lists.
LowerAssumption == lower \in [DOMAIN lower -> DOMAIN lower]
HexAssumption ==
  \A c \in DOMAIN hex :
    /\ hex[c] \in Seq(DOMAIN lower) /\ Len(hex[c]) = 3 /\ hex[c][1] \in DOMAIN hex
    /\ \A d \in DOMAIN hex : hex[d] = hex[c] => d = c
TextsAssumption == <<>> \in Texts /\ Texts \union {searchLabel} \subseteq Seq(DOMAIN lower)
SectionsAssumption == IsFiniteSet(Sections) /\ Sections = 0 .. Cardinality(Sections) - 1
DataAssumption ==
  \A section \in Sections :
    /\ indexSectionsWithContent[section] \in Seq(DOMAIN lower \ {NoChar})
    /\ \A c \in ToSet(indexSectionsWithContent[section]) :
         searchData[section][c] \in
           Seq([name : Seq(DOMAIN lower) \ {<<>>}, id : Seq(DOMAIN lower), kids : Nat])
MaxTimersAssumption == MaxTimers \in Nat
ASSUME Assumptions ==
  /\ LowerAssumption /\ HexAssumption /\ TextsAssumption
  /\ SectionsAssumption /\ DataAssumption /\ MaxTimersAssumption

VARIABLES
  box,     \* SearchBox and the elements of the page it changes
  strays,  \* search timers that are pending and that keyTimeout does not name
  menu,    \* the selection window and its hide timer
  doc,     \* the document in the frame, with its SearchResults
  req,     \* the location last given to the frame, until it is loaded
  focus,   \* the element that has the focus
  held     \* the key that is down

vars == <<box, strays, menu, doc, req, focus, held>>

Keys == {"char", "Up", "Down", "ShiftDown", "Left", "Right", "Enter", "Escape"}
NoKey == "none"
NoPage == [section |-> -1, char |-> NoChar, query |-> <<>>]
NoFrame == [at |-> "none", i |-> 0, c |-> 0]
Field == [NoFrame EXCEPT !.at = "field"]
SelectItem(i) == [at |-> "select", i |-> i, c |-> 0]
Item(i) == [at |-> "item", i |-> i, c |-> 0]
Child(i, c) == [at |-> "child", i |-> i, c |-> c]
InFrame(f) == f.at \in {"item", "child"}

-----------------------------------------------------------------------------
(* Texts                                                                   *)

Blank(t) == \A n \in 1 .. Len(t) : t[n] = " "
StripAll(t) == SelectSeq(t, LAMBDA c : c # " ")
StripLeading(t) ==
  LET word == {n \in 1 .. Len(t) : t[n] # " "}
  IN  IF word = {} THEN <<>> ELSE SubSeq(t, Min(word), Len(t))
Strip(t) == Reverse(StripLeading(Reverse(StripLeading(t))))
ToLower(t) == [n \in 1 .. Len(t) |-> lower[t[n]]]
convertToId(t) ==
  FlattenSeq([n \in 1 .. Len(t) |-> IF t[n] \in DOMAIN hex THEN hex[t[n]] ELSE <<t[n]>>])

\* doxygen puts a symbol on the page of its first character, under the id of its name.
ASSUME NamesAssumption ==
  \A section \in Sections : \A c \in ToSet(indexSectionsWithContent[section]) :
    \A row \in ToSet(searchData[section][c]) :
      lower[row.name[1]] = c /\ row.id = convertToId(ToLower(row.name))

-----------------------------------------------------------------------------
(* The document in the frame.  Its char is "" when it is nomatches.html or  *)
(* the empty document of the start, which have no searchResults.            *)

Document(r) == [page |-> r, open |-> {}]
HasResults(d) == d.page.char # NoChar
Queries == {StripLeading(t) : t \in Texts \union {searchLabel}}
Pages == {NoPage} \union
  [section : Sections, char : DOMAIN lower \union {NoChar}, query : Queries]
RowsOf(p) ==
  IF p.char # NoChar /\ Contains(indexSectionsWithContent[p.section], p.char)
  THEN searchData[p.section][p.char] ELSE <<>>
Rows(d) == RowsOf(d.page)
Row(d, i) == Rows(d)[i + 1]
Items(d) == 0 .. Len(Rows(d)) - 1

\* SearchResults.Search, on each page: the rows displayed.
Matches ==
  [p \in Pages |-> LET search == convertToId(ToLower(Strip(p.query)))
                   IN  {i \in 0 .. Len(RowsOf(p)) - 1 : IsPrefix(search, RowsOf(p)[i + 1].id)}]
Shown(d) == Matches[d.page]

\* The rows of a page are sorted: those that begin alike are together.
ASSUME RowsTogether == \A p \in Pages : \A i, k \in Matches[p] : i .. k \subseteq Matches[p]

Displayed(d, f) ==
  \/ f.at = "item" /\ f.i \in Shown(d)
  \/ f.at = "child" /\ f.i \in Shown(d) \cap d.open /\ f.c < Row(d, f.i).kids

\* Mutants: rows that are not displayed are not skipped.
NavNextAny(d, index) == {i \in Items(d) : i >= index}
NavPrevAny(d, index) == {i \in Items(d) : i <= index}

NavNext(d, index) == {i \in Shown(d) : i >= index}

NavPrev(d, index) == {i \in Shown(d) : i <= index}

\* Where Up in Nav and NavChild wants the focus.
UpTarget(d, f) ==
  IF f.at = "child" THEN IF f.c > 0 THEN Child(f.i, f.c - 1) ELSE Item(f.i)
  ELSE LET above == NavPrev(d, f.i - 1)
           last  == Row(d, f.i - 1).kids - 1
       IN  IF above = {} THEN Field
           ELSE IF Max(above) \in d.open /\ last >= 0 THEN Child(f.i - 1, last)
           ELSE Item(Max(above))

\* Where Down wants it; it stays when there is nothing below.
DownTarget(d, f) ==
  LET below == NavNext(d, f.i + 1)
  IN  IF f.at = "child" /\ f.c + 1 < Row(d, f.i).kids THEN Child(f.i, f.c + 1)
      ELSE IF f.at = "item" /\ f.i \in d.open THEN Child(f.i, 0)
      ELSE IF below # {} THEN Item(Min(below)) ELSE f

-----------------------------------------------------------------------------
(* SearchBox, as functions of the box                                       *)

Activate(b, isActive) ==
  IF isActive \/ b.popup
  THEN IF b.field = searchLabel THEN [b EXCEPT !.field = <<>>, !.searchActive = TRUE] ELSE b
  ELSE [b EXCEPT !.field = searchLabel, !.searchActive = FALSE, !.lastSearchValue = <<>>]

\* The browser's blur and focus events when the focus moves.
Refocus(b, from, to) ==
  IF from = to THEN b
  ELSE IF from = Field THEN Activate(b, FALSE)
  ELSE IF to = Field THEN Activate(b, TRUE) ELSE b

ClosePopup(b) == [b EXCEPT !.popup = FALSE]
CloseResultsWindow(b) == Activate(ClosePopup(b), FALSE)

\* Search reads indexSectionsWithContent[searchIndex], which may not exist.
Throws(b) == b.searchIndex \notin Sections
\* Mutant: the value searched is remembered with its leading spaces.
SearchUnstripped(b) ==
  IF Throws(b) THEN [b EXCEPT !.keyTimeout = FALSE]
  ELSE [b EXCEPT !.keyTimeout = FALSE, !.popup = TRUE, !.lastSearchValue = b.field, !.unseen = {}]

Search(b) ==
  IF Throws(b) THEN [b EXCEPT !.keyTimeout = FALSE]
  ELSE [b EXCEPT !.keyTimeout = FALSE, !.popup = TRUE,
                 !.lastSearchValue = StripLeading(b.field), !.unseen = {}]

\* The page Search sends the frame to for a text; indexOf('') is 0.
PageFor(section, q) ==
  LET index == indexSectionsWithContent[section]
      c == IF q = <<>> THEN index[1] ELSE lower[q[1]]
  IN  [section |-> section, char |-> IF Contains(index, c) THEN c ELSE NoChar, query |-> q]

\* Mutants: the frame is sent to what was searched before, or finds no page for upper case.
RequestStale(b) == PageFor(b.searchIndex, b.lastSearchValue)
RequestCased(b) ==
  LET q == StripLeading(b.field)
      page == PageFor(b.searchIndex, q)
  IN  IF q # <<>> /\ lower[q[1]] # q[1] THEN [page EXCEPT !.char = NoChar] ELSE page

Request(b) == PageFor(b.searchIndex, StripLeading(b.field))

\* OnSelectItem: the box, the strays and the frame after it.
Searches(b) == ~Blank(b.field) /\ b.searchActive
AfterSelect(b) ==
  IF Searches(b) THEN Search(b) ELSE [b EXCEPT !.unseen = @ \union {"section"}]
OnSelectItem(b) ==
  /\ strays' = strays + (IF Searches(b) /\ b.keyTimeout THEN 1 ELSE 0)
  /\ strays' <= MaxTimers
  /\ req' = IF Searches(b) /\ ~Throws(b) THEN Request(b) ELSE req

\* The end of OnSearchFieldChange.
Compare(b) ==
  LET v == StripAll(b.field)
      seen == [b EXCEPT !.unseen = @ \ {"text"}]
  IN  IF v = b.lastSearchValue THEN seen
      ELSE IF v # <<>> THEN [seen EXCEPT !.keyTimeout = TRUE]
      ELSE [ClosePopup(seen) EXCEPT !.lastSearchValue = <<>>]

-----------------------------------------------------------------------------
NewBox == [field |-> searchLabel, searchActive |-> FALSE, lastSearchValue |-> <<>>,
           searchIndex |-> 0, keyTimeout |-> FALSE, popup |-> FALSE, unseen |-> {}]
NewMenu == [shown |-> FALSE, hideTimeout |-> FALSE]

Init ==
  /\ box = NewBox /\ strays = 0 /\ menu = NewMenu
  /\ doc = Document(NoPage) /\ req = NoPage
  /\ focus = NoFrame /\ held = NoKey

\* A link is followed: the next page starts with a search box of its own.
FollowLink ==
  /\ box' = NewBox /\ strays' = 0 /\ menu' = NewMenu
  /\ doc' = Document(NoPage) /\ req' = NoPage
  /\ focus' = NoFrame /\ held' = NoKey

\* Moves the focus, with the events that causes.
FocusOn(f) == focus' = f /\ box' = Refocus(box, focus, f)

-----------------------------------------------------------------------------
(* Keys that go down                                                        *)

\* The field has no keydown handler.  The arrows left out do, when they come
\* up, what a character does that changes nothing.
KeyInField(k) ==
  /\ focus = Field /\ k \notin {"Up", "Left", "Right"}
  /\ \/ /\ k = "char"
        /\ \E t \in Texts \ {box.field} : box' = [box EXCEPT !.field = t, !.unseen = @ \union {"text"}]
     \/ k # "char" /\ UNCHANGED box
  /\ UNCHANGED <<strays, menu, doc, req, focus>>

OnSearchSelectKey(k) ==
  /\ focus.at = "select"
  /\ UNCHANGED doc
  /\ \/ /\ \/ k \in {"Down", "ShiftDown"} /\ box.searchIndex < Cardinality(Sections)
           \/ k = "Up" /\ box.searchIndex > 0
        /\ LET b == [box EXCEPT !.searchIndex = @ + (IF k = "Up" THEN -1 ELSE 1)]
           IN  OnSelectItem(b) /\ box' = AfterSelect(b)
        /\ UNCHANGED <<menu, focus>>
     \/ /\ k \in {"Enter", "Escape"}
        /\ OnSelectItem(box)
        /\ IF Searches(box) /\ Throws(box) THEN box' = AfterSelect(box) /\ UNCHANGED <<menu, focus>>
           ELSE /\ menu' = [menu EXCEPT !.shown = FALSE]
                /\ focus' = Field
                /\ box' = Refocus(AfterSelect(box), focus, Field)

\* Nav and NavChild.  ProcessKeys lets them act when a key goes down, again and again while
\* it is held, and not when it comes up.
Navigate(k) ==
  /\ UNCHANGED <<strays, menu, req>>
  /\ \/ /\ k \in {"Up", "Down", "ShiftDown"}
        /\ LET t == IF k = "Up" THEN UpTarget(doc, focus) ELSE DownTarget(doc, focus)
           IN  FocusOn(IF t = Field \/ Displayed(doc, t) THEN t ELSE focus)
        /\ UNCHANGED doc
     \/ /\ k \in {"Left", "Right"}
        /\ doc' = IF focus.at = "item" /\ Row(doc, focus.i).kids > 0
                  THEN [doc EXCEPT !.open = IF k = "Right" THEN @ \union {focus.i} ELSE @ \ {focus.i}]
                  ELSE doc
        /\ UNCHANGED <<box, focus>>
     \/ /\ k = "Escape"
        /\ box' = Refocus(CloseResultsWindow(box), focus, Field)
        /\ focus' = Field
        /\ UNCHANGED doc

\* Enter, or a click, on a row with several results.
Toggle(i) ==
  /\ i \in Shown(doc) /\ Row(doc, i).kids > 0
  /\ doc' = [doc EXCEPT !.open = IF i \in @ THEN @ \ {i} ELSE @ \union {i}]
  /\ FocusOn(Item(i))
  /\ UNCHANGED <<strays, menu, req>>

KeyDown(k) ==
  /\ held \in {NoKey, k}
  /\ \/ /\ held' = k
        /\ \/ KeyInField(k)
           \/ OnSearchSelectKey(k)
           \/ InFrame(focus) /\ k # "Enter" /\ Navigate(k)
           \/ focus.at = "item" /\ k = "Enter" /\ Toggle(focus.i)
     \/ /\ InFrame(focus) /\ k = "Enter" /\ (focus.at = "child" \/ Row(doc, focus.i).kids = 0)
        /\ FollowLink

-----------------------------------------------------------------------------
(* Keys that come up                                                        *)

OnSearchFieldChange(k) ==
  /\ focus = Field
  /\ UNCHANGED <<strays, doc, req>>
  /\ LET b == [box EXCEPT !.keyTimeout = FALSE]
         first == IF HasResults(doc) /\ box.popup THEN NavNext(doc, 0) ELSE {}
         to == IF k \in {"Down", "Enter"} /\ first # {} THEN Item(Min(first)) ELSE Field
     IN  \/ /\ k = "ShiftDown"
            /\ menu' = [shown |-> TRUE, hideTimeout |-> FALSE]
            /\ focus' = SelectItem(0)
            /\ box' = Refocus([b EXCEPT !.unseen = IF box.keyTimeout THEN @ \union {"text"} ELSE @], Field, SelectItem(0))
         \/ /\ k = "Escape"
            /\ focus' = NoFrame
            /\ box' = CloseResultsWindow(Refocus(b, Field, NoFrame))
            /\ UNCHANGED menu
         \/ /\ k \notin {"ShiftDown", "Escape"}
            /\ box' = Compare(Refocus(b, Field, to))
            /\ focus' = IF InFrame(to) /\ ~box'.popup THEN NoFrame ELSE to
            /\ UNCHANGED menu

KeyUp ==
  /\ held # NoKey
  /\ held' = NoKey
  /\ \/ OnSearchFieldChange(held)
     \/ /\ focus # Field
        /\ UNCHANGED <<box, strays, menu, doc, req, focus>>

-----------------------------------------------------------------------------
(* The mouse, the timers and the frame                                      *)

ClickField == FocusOn(Field) /\ UNCHANGED <<strays, menu, doc, req, held>>
ClickElsewhere == FocusOn(NoFrame) /\ UNCHANGED <<strays, menu, doc, req, held>>

ClickResult(i) ==
  /\ box.popup
  /\ Toggle(i)
  /\ UNCHANGED held

ClickSelectItem(i) ==
  /\ menu.shown
  /\ LET b == [Refocus(box, focus, SelectItem(i)) EXCEPT !.searchIndex = i]
     IN  OnSelectItem(b) /\ box' = AfterSelect(b)
  /\ focus' = SelectItem(i)
  /\ UNCHANGED <<menu, doc, held>>

ClickClose ==
  /\ box.popup
  /\ box' = CloseResultsWindow(Refocus(box, focus, NoFrame))
  /\ focus' = NoFrame
  /\ UNCHANGED <<strays, menu, doc, req, held>>

\* The mouse comes over the icon or the window, and leaves.
OnSearchSelectShow ==
  /\ menu' = [shown |-> TRUE, hideTimeout |-> FALSE]
  /\ UNCHANGED <<box, strays, doc, req, focus, held>>

OnSearchSelectHide ==
  /\ ~menu.hideTimeout
  /\ menu' = [menu EXCEPT !.hideTimeout = TRUE]
  /\ UNCHANGED <<box, strays, doc, req, focus, held>>

CloseSelectionWindow ==
  /\ menu.hideTimeout
  /\ menu' = [menu EXCEPT !.shown = FALSE, !.hideTimeout = FALSE]
  /\ focus' = IF focus.at = "select" THEN NoFrame ELSE focus
  /\ UNCHANGED <<box, strays, doc, req, held>>

\* A timer set by OnSearchFieldChange runs Search; if it is a stray, the timer that
\* keyTimeout names becomes one.
SearchTimer ==
  /\ \/ box.keyTimeout /\ UNCHANGED strays
     \/ strays > 0 /\ strays' = strays - (IF box.keyTimeout THEN 0 ELSE 1)
  /\ box' = Search(box)
  /\ req' = IF Throws(box) THEN req ELSE Request(box)
  /\ UNCHANGED <<menu, doc, focus, held>>

\* The frame has loaded its new location: createResults, then SearchResults.Search.
FrameLoaded ==
  /\ req # NoPage
  /\ doc' = Document(req)
  /\ req' = NoPage
  /\ focus' = IF InFrame(focus) THEN NoFrame ELSE focus
  /\ UNCHANGED <<box, strays, menu, held>>

Next ==
  \/ \E k \in Keys : KeyDown(k)
  \/ KeyUp
  \/ ClickField
  \/ ClickElsewhere
  \/ \E i \in Items(doc) : ClickResult(i)
  \/ \E i \in Sections : ClickSelectItem(i)
  \/ ClickClose
  \/ OnSearchSelectShow
  \/ OnSearchSelectHide
  \/ CloseSelectionWindow
  \/ SearchTimer
  \/ FrameLoaded

Spec == Init /\ [][Next]_vars

-----------------------------------------------------------------------------
(* Properties                                                              *)

BoxType ==
  [field : Texts \union {searchLabel}, searchActive : BOOLEAN, lastSearchValue : Queries,
   searchIndex : 0 .. Cardinality(Sections), keyTimeout : BOOLEAN,
   popup : BOOLEAN, unseen : SUBSET {"text", "section"}]

\* Types of the state.
DSTypeOK ==
  /\ box \in BoxType
  /\ strays \in 0 .. MaxTimers
  /\ menu \in [shown : BOOLEAN, hideTimeout : BOOLEAN]
  /\ doc \in [page : Pages, open : SUBSET Nat] /\ req \in Pages
  /\ doc.open \subseteq Items(doc)
  /\ held \in Keys \union {NoKey}

\* What a section has for a query: the symbols whose names begin with it, case aside.
Answer ==
  [section \in Sections |-> [query \in Queries |->
    {row.name : row \in {r \in UNION {ToSet(searchData[section][c]) :
                                      c \in ToSet(indexSectionsWithContent[section])} :
                           IsPrefix(ToLower(Strip(query)), ToLower(r.name))}}]]

\* A results page shows what its section has for its query, no more and no less: the page the
\* box chose by the first character, and the encoded prefix the page compares, do not lose one.
ResultsExact ==
  doc.page.section \in Sections /\ Strip(doc.page.query) # <<>> =>
     {Row(doc, i).name : i \in Shown(doc)} = Answer[doc.page.section][doc.page.query]

\* The focus is never on a result that is not displayed: rows are hidden by a search, results below
\* a row by Left and by Toggle, while Nav and NavChild count rows and results.
FocusDisplayed == InFrame(focus) => Displayed(doc, focus)

\* Once every key has been seen by OnSearchFieldChange, no timer is pending and the frame has
\* loaded, an open popup answers the text in the field in the section selected (or the text that
\* was there before spaces went into it, which are not compared).
Settled ==
  /\ box.popup /\ box.unseen = {} /\ held = NoKey
  /\ ~box.keyTimeout /\ strays = 0 /\ req = NoPage
SettledAnswersField ==
  Settled /\ Searches(box) /\ ~Throws(box) =>
     /\ doc.page.section = box.searchIndex
     /\ doc.page.query = StripLeading(box.field) \/ doc.page.query = StripAll(box.field)

\* In the results Up takes back what Down did, and from the first result to the field Down came
\* from.
UpAfterDown ==
  /\ focus' # focus /\ InFrame(focus')
  /\ \/ KeyDown("Down")
     \/ KeyUp /\ held = "Down"
  => UpTarget(doc', focus') = focus
UpUndoesDown == [][UpAfterDown]_vars
=============================================================================
