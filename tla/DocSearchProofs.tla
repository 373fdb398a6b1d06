--------------------------- MODULE DocSearchProofs ---------------------------
(***************************************************************************)
(* The focus stays on what is displayed, a settled popup answers the text  *)
(* in the field, Up takes back Down, and a page shows what its section has *)
(* for its query, for every documentation whose pages are sorted and named *)
(* as doxygen's are and every text the user may type.                      *)
(***************************************************************************)
EXTENDS DocSearch, FiniteSetTheorems, WellFoundedInduction, TLAPS

-----------------------------------------------------------------------------
(* The inductive invariant                                                  *)

FocusTypeOK ==
  \/ focus \in {NoFrame, Field}
  \/ \E i \in Int : focus = SelectItem(i)
  \/ \E i \in Nat : focus = Item(i)
  \/ \E i \in Nat, c \in Nat : focus = Child(i, c)

\* The page the frame shows, or will once it has loaded.
Sent(d, r) == IF r = NoPage THEN d.page ELSE r

\* While the popup is open its page is for the value last searched; for the section selected,
\* unless the selection has gone unseen; and for the text in the field, but for spaces, unless
\* a key or a timer is to come, or the section does not exist.
Asked(b, page) == b.popup => page.query = b.lastSearchValue
InSection(b, page) ==
  b.popup /\ "section" \notin b.unseen /\ ~Throws(b) => page.section = b.searchIndex
OfText(b) ==
  b.popup /\ b.unseen = {} /\ ~b.keyTimeout /\ ~Throws(b) =>
    \/ Blank(b.field)
    \/ b.lastSearchValue = StripLeading(b.field)
    \/ b.lastSearchValue = StripAll(b.field)
PopupAnswers == Asked(box, Sent(doc, req)) /\ InSection(box, Sent(doc, req)) /\ OfText(box)

DSInv == DSTypeOK /\ FocusTypeOK /\ FocusDisplayed /\ PopupAnswers

-----------------------------------------------------------------------------
(* Least and greatest rows                                                  *)

Lower == {ss \in Nat \X Nat : ss[1] < ss[2]}

LEMMA MinOf ==
  ASSUME NEW S \in SUBSET Nat, S # {}
  PROVE  Min(S) \in S /\ \A y \in S : Min(S) <= y
<1>1. IsWellFoundedOn(Lower, Nat)
  BY NatLessThanWellFounded DEF OpToRel, Lower
<1>2. PICK x \in S : \A y \in S : ~ (<<y, x>> \in Lower)
  BY <1>1, WFMin
<1>3. \A y \in S : ~ (y < x)
  BY <1>2 DEF Lower
<1>4. \A y \in S : x <= y
  BY <1>3
<1> QED
  BY <1>4 DEF Min

LEMMA MaxOf ==
  ASSUME NEW S \in SUBSET Nat, NEW m \in S, \A y \in S : y <= m
  PROVE  Max(S) = m
<1>1. Max(S) \in S /\ \A y \in S : Max(S) >= y
  BY DEF Max
<1>2. Max(S) \in Nat /\ m \in Nat /\ Max(S) >= m /\ Max(S) <= m
  BY <1>1
<1> QED
  BY <1>2

-----------------------------------------------------------------------------
(* Elements, pages and rows                                                 *)

LEMMA Elements ==
  /\ NoFrame.at = "none" /\ Field.at = "field"
  /\ \A i : /\ SelectItem(i).at = "select" /\ SelectItem(i).i = i
            /\ Item(i).at = "item" /\ Item(i).i = i
            /\ \A c : Child(i, c).at = "child" /\ Child(i, c).i = i /\ Child(i, c).c = c
BY DEF NoFrame, Field, SelectItem, Item, Child

LEMMA FocusInFrame ==
  ASSUME FocusTypeOK
  PROVE  /\ focus.at = "item" => focus.i \in Nat /\ focus = Item(focus.i)
         /\ focus.at = "child" => focus.i \in Nat /\ focus.c \in Nat /\ focus = Child(focus.i, focus.c)
BY Elements DEF FocusTypeOK

LEMMA EmptyText ==
  /\ <<>> \in Texts /\ <<>> \in Queries /\ Blank(<<>>)
<1>1. StripLeading(<<>>) = <<>>
  BY DEF StripLeading
<1> QED
  BY <1>1, Assumptions DEF TextsAssumption, Queries, Blank

LEMMA SectionsCount ==
  Cardinality(Sections) \in Nat /\ Sections = 0 .. Cardinality(Sections) - 1
BY Assumptions, FS_CardinalityType DEF SectionsAssumption

LEMMA ContainsListed ==
  ASSUME NEW section \in Sections, NEW c, Contains(indexSectionsWithContent[section], c)
  PROVE  c \in ToSet(indexSectionsWithContent[section]) /\ c \in DOMAIN lower
<1> DEFINE index == indexSectionsWithContent[section]
<1>1. index \in Seq(DOMAIN lower \ {NoChar})
  BY Assumptions DEF DataAssumption
<1> HIDE DEF index
<1>2. PICK n \in 1 .. Len(index) : index[n] = c
  BY DEF Contains, index
<1>3. n \in DOMAIN index /\ index[n] \in DOMAIN lower \ {NoChar}
  BY <1>1, <1>2
<1> QED
  BY <1>2, <1>3 DEF ToSet, index

\* The rows of a page, their names and their ids.
LEMMA RowsListed ==
  ASSUME NEW section \in Sections, NEW c \in ToSet(indexSectionsWithContent[section])
  PROVE  LET rows == searchData[section][c]
         IN  /\ Len(rows) \in Nat /\ DOMAIN rows = 1 .. Len(rows)
             /\ \A n \in 1 .. Len(rows) :
                  /\ rows[n].kids \in Nat
                  /\ rows[n].name \in Seq(DOMAIN lower) /\ rows[n].name # <<>>
                  /\ lower[rows[n].name[1]] = c
                  /\ rows[n].id = convertToId(ToLower(rows[n].name))
<1> DEFINE rows == searchData[section][c]
           Record == [name : Seq(DOMAIN lower) \ {<<>>}, id : Seq(DOMAIN lower), kids : Nat]
<1>1. rows \in Seq(Record)
  BY Assumptions DEF DataAssumption
<1>2. \A row \in ToSet(rows) : lower[row.name[1]] = c /\ row.id = convertToId(ToLower(row.name))
  BY NamesAssumption
<1> HIDE DEF rows
<1>3. Len(rows) \in Nat /\ DOMAIN rows = 1 .. Len(rows) /\ \A n \in 1 .. Len(rows) : rows[n] \in Record
  <2> HIDE DEF Record
  <2> QED
    BY <1>1
<1>4. \A n \in 1 .. Len(rows) : rows[n] \in ToSet(rows)
  BY <1>3 DEF ToSet
<1> QED
  BY <1>2, <1>3, <1>4 DEF rows

LEMMA PageRows ==
  ASSUME NEW p \in Pages
  PROVE  /\ Len(RowsOf(p)) \in Nat
         /\ \A i \in 0 .. Len(RowsOf(p)) - 1 : RowsOf(p)[i + 1].kids \in Nat
         /\ Matches[p] \subseteq 0 .. Len(RowsOf(p)) - 1
<1>1. Matches[p] \subseteq 0 .. Len(RowsOf(p)) - 1
  BY DEF Matches
<1>2. CASE p.char # NoChar /\ Contains(indexSectionsWithContent[p.section], p.char)
  <2>1. p.section \in Sections
    <3>1. p # NoPage
      BY <1>2 DEF NoPage
    <3> QED
      BY <3>1 DEF Pages
  <2>2. p.char \in ToSet(indexSectionsWithContent[p.section])
    BY <1>2, <2>1, ContainsListed
  <2>3. RowsOf(p) = searchData[p.section][p.char]
    BY <1>2 DEF RowsOf
  <2>4. /\ Len(RowsOf(p)) \in Nat
        /\ \A n \in 1 .. Len(RowsOf(p)) : RowsOf(p)[n].kids \in Nat
    BY <2>1, <2>2, <2>3, RowsListed
  <2>5. \A i \in 0 .. Len(RowsOf(p)) - 1 : i + 1 \in 1 .. Len(RowsOf(p))
    BY <2>4
  <2> QED
    BY <1>1, <2>4, <2>5
<1>3. CASE ~(p.char # NoChar /\ Contains(indexSectionsWithContent[p.section], p.char))
  <2>1. RowsOf(p) = <<>>
    BY <1>3 DEF RowsOf
  <2> QED
    BY <1>1, <2>1
<1> QED
  BY <1>2, <1>3

LEMMA ShownRows ==
  ASSUME NEW d, d.page \in Pages
  PROVE  /\ Shown(d) \subseteq Items(d) /\ Items(d) \in SUBSET Nat
         /\ \A i \in Shown(d) : Row(d, i).kids \in Nat
         /\ \A i, k \in Shown(d) : i .. k \subseteq Shown(d)
BY PageRows, RowsTogether DEF Shown, Items, Rows, Row

LEMMA NewDocument ==
  ASSUME NEW r \in Pages
  PROVE  /\ Document(r) \in [page : Pages, open : SUBSET Nat]
         /\ Document(r).page = r /\ Document(r).open \subseteq Items(Document(r))
BY DEF Document

LEMMA NoPageIsPage ==
  NoPage \in Pages /\ NoPage.section \notin Sections
BY SectionsCount DEF Pages, NoPage

-----------------------------------------------------------------------------
(* The functions of the box                                                 *)

\* Where the text is put away only from a closed popup.
Kept(b, c) ==
  /\ c.popup = b.popup /\ c.unseen = b.unseen
  /\ c.keyTimeout = b.keyTimeout /\ c.searchIndex = b.searchIndex
  /\ b.popup => /\ c.lastSearchValue = b.lastSearchValue
                /\ c.field = b.field \/ c.field = <<>>

LEMMA ActivateFacts ==
  ASSUME NEW b \in BoxType, NEW isActive \in BOOLEAN
  PROVE  Activate(b, isActive) \in BoxType /\ Kept(b, Activate(b, isActive))
BY EmptyText DEF Activate, BoxType, Kept

LEMMA RefocusFacts ==
  ASSUME NEW b \in BoxType, NEW from, NEW to
  PROVE  Refocus(b, from, to) \in BoxType /\ Kept(b, Refocus(b, from, to))
<1>1. Kept(b, b)
  BY DEF Kept
<1> QED
  BY <1>1, ActivateFacts DEF Refocus

LEMMA KeptAnswers ==
  ASSUME NEW b, NEW c, NEW page, Kept(b, c)
  PROVE  /\ Asked(b, page) => Asked(c, page)
         /\ InSection(b, page) => InSection(c, page)
         /\ OfText(b) => OfText(c)
BY EmptyText DEF Kept, Asked, InSection, OfText, Throws

LEMMA CloseFacts ==
  ASSUME NEW b \in BoxType
  PROVE  CloseResultsWindow(b) \in BoxType /\ ~CloseResultsWindow(b).popup
<1>1. ClosePopup(b) \in BoxType /\ ~ClosePopup(b).popup
  BY DEF ClosePopup, BoxType
<1> QED
  BY <1>1, ActivateFacts DEF CloseResultsWindow, Kept

LEMMA ClosedAnswers ==
  ASSUME NEW b, NEW page, ~b.popup
  PROVE  Asked(b, page) /\ InSection(b, page) /\ OfText(b)
BY DEF Asked, InSection, OfText

LEMMA RequestFacts ==
  ASSUME NEW b \in BoxType, ~Throws(b)
  PROVE  /\ Request(b) \in Pages /\ Request(b) # NoPage
         /\ Request(b).section = b.searchIndex /\ Request(b).query = StripLeading(b.field)
<1> DEFINE q == StripLeading(b.field)
           index == indexSectionsWithContent[b.searchIndex]
           c == IF q = <<>> THEN index[1] ELSE lower[q[1]]
<1>1. b.searchIndex \in Sections /\ q \in Queries
  BY DEF Throws, BoxType, Queries
<1>2. Contains(index, c) => c \in DOMAIN lower
  BY <1>1, ContainsListed
<1> HIDE DEF c, q
<1>3. Request(b) = [section |-> b.searchIndex, char |-> IF Contains(index, c) THEN c ELSE NoChar, query |-> q]
  BY DEF Request, PageFor, c, q
<1>4. Request(b).section \in Sections /\ Request(b) \in Pages
  BY <1>1, <1>2, <1>3 DEF Pages
<1> QED
  BY <1>3, <1>4, NoPageIsPage DEF q

LEMMA SearchFacts ==
  ASSUME NEW b \in BoxType
  PROVE  /\ Search(b) \in BoxType
         /\ Throws(b) => Search(b) = [b EXCEPT !.keyTimeout = FALSE]
         /\ ~Throws(b) => /\ Asked(Search(b), Request(b)) /\ InSection(Search(b), Request(b))
                          /\ OfText(Search(b))
<1>1. StripLeading(b.field) \in Queries
  BY DEF BoxType, Queries
<1>2. CASE Throws(b)
  BY <1>2 DEF Search, BoxType
<1>3. CASE ~Throws(b)
  <2>1. Search(b) \in BoxType
    BY <1>1, <1>3 DEF Search, BoxType
  <2>2. /\ Search(b).lastSearchValue = StripLeading(b.field) /\ Search(b).field = b.field
        /\ Search(b).searchIndex = b.searchIndex
    BY <1>3 DEF Search, BoxType
  <2> QED
    BY <1>3, <2>1, <2>2, RequestFacts DEF Asked, InSection, OfText
<1> QED
  BY <1>2, <1>3

LEMMA CompareFacts ==
  ASSUME NEW b \in BoxType, NEW page, Asked(b, page), InSection(b, page)
  PROVE  /\ Compare(b) \in BoxType
         /\ Asked(Compare(b), page) /\ InSection(Compare(b), page) /\ OfText(Compare(b))
<1> DEFINE v == StripAll(b.field)
           seen == [b EXCEPT !.unseen = @ \ {"text"}]
<1>1. /\ seen \in BoxType /\ seen.field = b.field /\ seen.lastSearchValue = b.lastSearchValue
      /\ seen.popup = b.popup /\ seen.searchIndex = b.searchIndex
      /\ "section" \in b.unseen => "section" \in seen.unseen
  BY DEF BoxType
<1>2. Asked(seen, page) /\ InSection(seen, page)
  BY <1>1 DEF Asked, InSection, Throws
<1> HIDE DEF seen
<1>3. CASE v = b.lastSearchValue
  <2>1. Compare(b) = seen
    BY <1>3 DEF Compare, seen
  <2> QED
    BY <1>1, <1>2, <1>3, <2>1 DEF OfText
<1>4. CASE v # b.lastSearchValue /\ v # <<>>
  <2>1. Compare(b) = [seen EXCEPT !.keyTimeout = TRUE]
    BY <1>4 DEF Compare, seen
  <2>2. Compare(b) \in BoxType /\ OfText(Compare(b))
    BY <1>1, <2>1 DEF BoxType, OfText
  <2>3. /\ Compare(b).popup = seen.popup /\ Compare(b).lastSearchValue = seen.lastSearchValue
        /\ Compare(b).unseen = seen.unseen /\ Compare(b).searchIndex = seen.searchIndex
    BY <1>1, <2>1 DEF BoxType
  <2> QED
    BY <1>2, <2>2, <2>3 DEF Asked, InSection, Throws
<1>5. CASE v # b.lastSearchValue /\ v = <<>>
  <2>1. Compare(b) = [ClosePopup(seen) EXCEPT !.lastSearchValue = <<>>]
    BY <1>5 DEF Compare, seen
  <2>2. ClosePopup(seen) \in BoxType /\ ~ClosePopup(seen).popup
    BY <1>1 DEF ClosePopup, BoxType
  <2>3. Compare(b) \in BoxType /\ ~Compare(b).popup
    BY <2>1, <2>2, EmptyText DEF BoxType
  <2> QED
    BY <2>3, ClosedAnswers
<1> QED
  BY <1>3, <1>4, <1>5

\* What a search leaves, whether or not it finds its section.
LEMMA SearchAnswers ==
  ASSUME NEW b \in BoxType, NEW d, NEW r, Asked(b, Sent(d, r)),
         NEW next, next = IF Throws(b) THEN r ELSE Request(b)
  PROVE  /\ Asked(Search(b), Sent(d, next)) /\ InSection(Search(b), Sent(d, next))
         /\ OfText(Search(b))
<1>1. CASE Throws(b)
  <2>1. Search(b) = [b EXCEPT !.keyTimeout = FALSE]
    BY <1>1, SearchFacts
  <2>2. /\ Search(b).popup = b.popup /\ Search(b).lastSearchValue = b.lastSearchValue
        /\ Throws(Search(b))
    BY <1>1, <2>1 DEF BoxType, Throws
  <2> QED
    BY <1>1, <2>2 DEF Asked, InSection, OfText
<1>2. CASE ~Throws(b)
  <2>1. Sent(d, next) = Request(b)
    BY <1>2, RequestFacts DEF Sent
  <2> QED
    BY <1>2, <2>1, SearchFacts
<1> QED
  BY <1>1, <1>2

LEMMA SelectFacts ==
  ASSUME NEW b \in BoxType, OnSelectItem(b), strays \in 0 .. MaxTimers, req \in Pages,
         doc' = doc, Asked(b, Sent(doc, req))
  PROVE  /\ strays' \in 0 .. MaxTimers /\ req' \in Pages
         /\ AfterSelect(b) \in BoxType
         /\ Asked(AfterSelect(b), Sent(doc', req')) /\ InSection(AfterSelect(b), Sent(doc', req'))
         /\ OfText(AfterSelect(b))
<1>1. strays' \in 0 .. MaxTimers
  BY Assumptions DEF OnSelectItem, MaxTimersAssumption
<1>2. req' \in Pages
  BY RequestFacts DEF OnSelectItem
<1>3. CASE Searches(b)
  <2>1. req' = IF Throws(b) THEN req ELSE Request(b)
    BY <1>3 DEF OnSelectItem
  <2>2. AfterSelect(b) = Search(b)
    BY <1>3 DEF AfterSelect
  <2> QED
    BY <1>1, <1>2, <2>1, <2>2, SearchFacts, SearchAnswers
<1>4. CASE ~Searches(b)
  <2>1. req' = req /\ AfterSelect(b) = [b EXCEPT !.unseen = @ \union {"section"}]
    BY <1>4 DEF OnSelectItem, AfterSelect
  <2>2. /\ AfterSelect(b) \in BoxType /\ AfterSelect(b).popup = b.popup
        /\ "section" \in AfterSelect(b).unseen
        /\ AfterSelect(b).lastSearchValue = b.lastSearchValue
    BY <2>1 DEF BoxType
  <2> QED
    BY <1>1, <1>2, <2>1, <2>2 DEF Asked, InSection, OfText
<1> QED
  BY <1>3, <1>4

-----------------------------------------------------------------------------
(* Where the focus goes                                                     *)

LEMMA FocusNowhere ==
  ASSUME focus' \in {NoFrame, Field} \/ \E i \in Int : focus' = SelectItem(i)
  PROVE  FocusTypeOK' /\ FocusDisplayed'
<1>1. ~InFrame(focus')
  BY Elements DEF InFrame
<1> QED
  BY <1>1 DEF FocusTypeOK, FocusDisplayed

\* The first row displayed is a row displayed.
LEMMA FirstShown ==
  ASSUME DSTypeOK, NEW n \in Int, NavNext(doc, n) # {}
  PROVE  /\ Min(NavNext(doc, n)) \in Shown(doc) /\ Min(NavNext(doc, n)) \in Nat
         /\ Min(NavNext(doc, n)) >= n
         /\ \A y \in NavNext(doc, n) : Min(NavNext(doc, n)) <= y
<1>1. doc.page \in Pages
  BY DEF DSTypeOK
<1>2. Shown(doc) \in SUBSET Nat
  BY <1>1, ShownRows
<1>3. NavNext(doc, n) \in SUBSET Nat
  BY <1>2 DEF NavNext
<1>4. Min(NavNext(doc, n)) \in NavNext(doc, n) /\ \A y \in NavNext(doc, n) : Min(NavNext(doc, n)) <= y
  BY <1>3, MinOf
<1> QED
  BY <1>2, <1>4 DEF NavNext

\* Up and Down lead to an element that there is, or would be.
LEMMA TargetsTyped ==
  ASSUME DSTypeOK, FocusTypeOK, FocusDisplayed, InFrame(focus)
  PROVE  /\ Displayed(doc, UpTarget(doc, focus)) =>
              \E i \in Nat : UpTarget(doc, focus) = Item(i) \/ \E c \in Nat : UpTarget(doc, focus) = Child(i, c)
         /\ Displayed(doc, DownTarget(doc, focus)) =>
              \E i \in Nat : DownTarget(doc, focus) = Item(i) \/ \E c \in Nat : DownTarget(doc, focus) = Child(i, c)
<1>1. /\ Shown(doc) \in SUBSET Nat
      /\ \A i \in Shown(doc) : Row(doc, i).kids \in Nat
  BY ShownRows DEF DSTypeOK
<1>2. \A i : Displayed(doc, Item(i)) => i \in Nat
  BY <1>1, Elements DEF Displayed
<1>3. \A i, c : Displayed(doc, Child(i, c)) => i \in Nat /\ Row(doc, i).kids \in Nat
  BY <1>1, Elements DEF Displayed
<1>4. ~Displayed(doc, Field)
  BY Elements DEF Displayed
<1>5. /\ focus.at = "item" => focus.i \in Nat /\ focus = Item(focus.i)
      /\ focus.at = "child" => focus.i \in Nat /\ focus.c \in Nat /\ focus = Child(focus.i, focus.c)
      /\ focus.at \in {"item", "child"}
  BY FocusInFrame DEF InFrame
<1>6. ASSUME Displayed(doc, UpTarget(doc, focus))
      PROVE  \E i \in Nat : UpTarget(doc, focus) = Item(i) \/ \E c \in Nat : UpTarget(doc, focus) = Child(i, c)
  <2>1. CASE focus.at = "child"
    <3>1. CASE focus.c > 0
      BY <1>5, <2>1, <3>1 DEF UpTarget
    <3>2. CASE ~(focus.c > 0)
      BY <1>5, <2>1, <3>2 DEF UpTarget
    <3> QED
      BY <3>1, <3>2
  <2>2. CASE focus.at # "child"
    <3> DEFINE above == NavPrev(doc, focus.i - 1)
               last == Row(doc, focus.i - 1).kids - 1
    <3>1. CASE above = {}
      BY <1>4, <1>6, <2>2, <3>1 DEF UpTarget
    <3>2. CASE above # {} /\ Max(above) \in doc.open /\ last >= 0
      <4>1. UpTarget(doc, focus) = Child(focus.i - 1, last)
        BY <2>2, <3>2 DEF UpTarget
      <4>2. focus.i - 1 \in Nat /\ Row(doc, focus.i - 1).kids \in Nat
        BY <1>3, <1>6, <4>1
      <4> QED
        BY <3>2, <4>1, <4>2
    <3>3. CASE above # {} /\ ~(Max(above) \in doc.open /\ last >= 0)
      <4>1. UpTarget(doc, focus) = Item(Max(above))
        BY <2>2, <3>3 DEF UpTarget
      <4> QED
        BY <1>2, <1>6, <4>1
    <3> QED
      BY <3>1, <3>2, <3>3
  <2> QED
    BY <2>1, <2>2
<1>7. ASSUME Displayed(doc, DownTarget(doc, focus))
      PROVE  \E i \in Nat : DownTarget(doc, focus) = Item(i) \/ \E c \in Nat : DownTarget(doc, focus) = Child(i, c)
  <2> DEFINE below == NavNext(doc, focus.i + 1)
  <2>1. \/ focus.at = "child" /\ DownTarget(doc, focus) = Child(focus.i, focus.c + 1)
        \/ focus.at = "item" /\ DownTarget(doc, focus) = Child(focus.i, 0)
        \/ DownTarget(doc, focus) = Item(Min(below))
        \/ DownTarget(doc, focus) = focus
    BY DEF DownTarget
  <2> QED
    BY <1>2, <1>5, <1>7, <2>1
<1> QED
  BY <1>6, <1>7

-----------------------------------------------------------------------------
(* The steps                                                                *)

LEMMA FollowStep == ASSUME DSInv, FollowLink PROVE DSInv'
<1>1. box' = NewBox /\ strays' = 0 /\ menu' = NewMenu /\ doc' = Document(NoPage) /\ req' = NoPage
      /\ focus' = NoFrame /\ held' = NoKey
  BY DEF FollowLink
<1>2. NewBox \in BoxType /\ ~NewBox.popup
  BY EmptyText, SectionsCount DEF NewBox, BoxType
<1>3. NewMenu \in [shown : BOOLEAN, hideTimeout : BOOLEAN] /\ 0 \in 0 .. MaxTimers
  BY Assumptions DEF NewMenu, MaxTimersAssumption
<1>4. DSTypeOK'
  BY <1>1, <1>2, <1>3, NoPageIsPage, NewDocument DEF DSTypeOK
<1>5. PopupAnswers'
  BY <1>1, <1>2, ClosedAnswers DEF PopupAnswers
<1> QED
  BY <1>1, <1>4, <1>5, FocusNowhere DEF DSInv

LEMMA KeyInFieldStep ==
  ASSUME DSInv, NEW k \in Keys, held' = k, KeyInField(k)
  PROVE  DSInv'
<1>1. UNCHANGED <<strays, menu, doc, req, focus>>
  BY DEF KeyInField
<1>2. box' \in BoxType /\ PopupAnswers'
  <2>1. CASE UNCHANGED box
    BY <1>1, <2>1 DEF DSInv, DSTypeOK, PopupAnswers
  <2>2. CASE \E t \in Texts \ {box.field} : box' = [box EXCEPT !.field = t, !.unseen = @ \union {"text"}]
    <3>1. PICK t \in Texts : box' = [box EXCEPT !.field = t, !.unseen = @ \union {"text"}]
      BY <2>2
    <3>2. /\ box' \in BoxType /\ box'.popup = box.popup /\ "text" \in box'.unseen
          /\ box'.lastSearchValue = box.lastSearchValue /\ box'.searchIndex = box.searchIndex
          /\ "section" \notin box'.unseen => "section" \notin box.unseen
      BY <3>1 DEF DSInv, DSTypeOK, BoxType
    <3> QED
      BY <1>1, <3>2 DEF DSInv, PopupAnswers, Asked, InSection, OfText, Throws
  <2> QED
    BY <2>1, <2>2 DEF KeyInField
<1>3. DSTypeOK'
  BY <1>1, <1>2 DEF DSInv, DSTypeOK, Items, Rows
<1>4. FocusTypeOK' /\ FocusDisplayed'
  BY <1>1 DEF DSInv, FocusTypeOK, FocusDisplayed
<1> QED
  BY <1>2, <1>3, <1>4 DEF DSInv

LEMMA SelectKeyStep ==
  ASSUME DSInv, NEW k \in Keys, held' = k, OnSearchSelectKey(k)
  PROVE  DSInv'
<1>1. focus.at = "select" /\ UNCHANGED doc
  BY DEF OnSearchSelectKey
<1>2. /\ box \in BoxType /\ strays \in 0 .. MaxTimers /\ req \in Pages
      /\ menu \in [shown : BOOLEAN, hideTimeout : BOOLEAN]
      /\ Asked(box, Sent(doc, req))
  BY DEF DSInv, DSTypeOK, PopupAnswers
<1>3. focus.at = "select" => ~InFrame(focus)
  BY DEF InFrame
<1>4. CASE /\ \/ k \in {"Down", "ShiftDown"} /\ box.searchIndex < Cardinality(Sections)
              \/ k = "Up" /\ box.searchIndex > 0
           /\ LET b == [box EXCEPT !.searchIndex = @ + (IF k = "Up" THEN -1 ELSE 1)]
              IN  OnSelectItem(b) /\ box' = AfterSelect(b)
           /\ UNCHANGED <<menu, focus>>
  <2> DEFINE b == [box EXCEPT !.searchIndex = @ + (IF k = "Up" THEN -1 ELSE 1)]
  <2>1. box.searchIndex + (IF k = "Up" THEN -1 ELSE 1) \in 0 .. Cardinality(Sections)
    BY <1>2, <1>4, SectionsCount DEF BoxType
  <2>2. /\ b \in BoxType /\ b.popup = box.popup /\ b.lastSearchValue = box.lastSearchValue
    BY <1>2, <2>1 DEF BoxType
  <2>3. OnSelectItem(b) /\ box' = AfterSelect(b) /\ UNCHANGED <<menu, focus>>
    BY <1>4
  <2> HIDE DEF b
  <2>4. Asked(b, Sent(doc, req))
    BY <1>2, <2>2 DEF Asked
  <2>5. strays' \in 0 .. MaxTimers /\ req' \in Pages /\ box' \in BoxType /\ PopupAnswers'
    BY <1>1, <1>2, <2>2, <2>3, <2>4, SelectFacts DEF PopupAnswers
  <2>6. DSTypeOK'
    BY <1>1, <1>2, <2>3, <2>5 DEF DSInv, DSTypeOK, Items, Rows
  <2>7. FocusTypeOK' /\ FocusDisplayed'
    BY <1>1, <2>3 DEF DSInv, FocusTypeOK, FocusDisplayed
  <2> QED
    BY <2>5, <2>6, <2>7 DEF DSInv
<1>5. CASE /\ k \in {"Enter", "Escape"}
           /\ OnSelectItem(box)
           /\ IF Searches(box) /\ Throws(box) THEN box' = AfterSelect(box) /\ UNCHANGED <<menu, focus>>
              ELSE /\ menu' = [menu EXCEPT !.shown = FALSE]
                   /\ focus' = Field
                   /\ box' = Refocus(AfterSelect(box), focus, Field)
  <2>1. /\ strays' \in 0 .. MaxTimers /\ req' \in Pages /\ AfterSelect(box) \in BoxType
        /\ Asked(AfterSelect(box), Sent(doc', req')) /\ InSection(AfterSelect(box), Sent(doc', req'))
        /\ OfText(AfterSelect(box))
    BY <1>1, <1>2, <1>5, SelectFacts
  <2>2. CASE box' = AfterSelect(box) /\ UNCHANGED <<menu, focus>>
    <3>1. DSTypeOK' /\ PopupAnswers'
      BY <1>1, <1>2, <2>1, <2>2 DEF DSInv, DSTypeOK, Items, Rows, PopupAnswers
    <3>2. FocusTypeOK' /\ FocusDisplayed'
      BY <1>1, <2>2 DEF DSInv, FocusTypeOK, FocusDisplayed
    <3> QED
      BY <3>1, <3>2 DEF DSInv
  <2>3. CASE /\ menu' = [menu EXCEPT !.shown = FALSE]
             /\ focus' = Field
             /\ box' = Refocus(AfterSelect(box), focus, Field)
    <3>1. box' \in BoxType /\ PopupAnswers'
      BY <2>1, <2>3, RefocusFacts, KeptAnswers DEF PopupAnswers
    <3>2. DSTypeOK'
      BY <1>1, <1>2, <2>1, <2>3, <3>1 DEF DSInv, DSTypeOK, Items, Rows
    <3> QED
      BY <2>3, <3>1, <3>2, FocusNowhere DEF DSInv
  <2> QED
    BY <1>5, <2>2, <2>3
<1> QED
  BY <1>1, <1>4, <1>5 DEF OnSearchSelectKey

\* The focus moves, in the frame or out of it, and nothing else happens.
LEMMA FocusMoves ==
  ASSUME DSInv, NEW f, FocusOn(f), UNCHANGED <<strays, menu, req>>, held' \in Keys \union {NoKey},
         doc' \in [page : Pages, open : SUBSET Nat], doc'.page = doc.page,
         doc'.open \subseteq Items(doc'), FocusTypeOK', FocusDisplayed'
  PROVE  DSInv'
<1>1. box' \in BoxType /\ Kept(box, box')
  BY RefocusFacts DEF FocusOn, DSInv, DSTypeOK
<1>2. Sent(doc', req') = Sent(doc, req)
  BY DEF Sent
<1>3. PopupAnswers'
  BY <1>1, <1>2, KeptAnswers DEF DSInv, PopupAnswers
<1>4. DSTypeOK'
  BY <1>1 DEF DSInv, DSTypeOK
<1> QED
  BY <1>3, <1>4 DEF DSInv

LEMMA NavigateStep ==
  ASSUME DSInv, NEW k \in Keys, held' = k, InFrame(focus), Navigate(k)
  PROVE  DSInv'
<1>1. UNCHANGED <<strays, menu, req>>
  BY DEF Navigate
<1>2. DSTypeOK /\ FocusTypeOK /\ FocusDisplayed /\ Displayed(doc, focus)
  BY DEF DSInv, FocusDisplayed
<1>3. CASE /\ k \in {"Up", "Down", "ShiftDown"}
           /\ LET t == IF k = "Up" THEN UpTarget(doc, focus) ELSE DownTarget(doc, focus)
              IN  FocusOn(IF t = Field \/ Displayed(doc, t) THEN t ELSE focus)
           /\ UNCHANGED doc
  <2> DEFINE t == IF k = "Up" THEN UpTarget(doc, focus) ELSE DownTarget(doc, focus)
             f == IF t = Field \/ Displayed(doc, t) THEN t ELSE focus
  <2>1. FocusOn(f) /\ UNCHANGED doc
    BY <1>3
  <2>2. focus' = f
    BY <2>1 DEF FocusOn
  <2>3. Displayed(doc, t) =>
          \E i \in Nat : t = Item(i) \/ \E c \in Nat : t = Child(i, c)
    BY <1>2, TargetsTyped
  <2> HIDE DEF t
  <2>4. ASSUME t = Field PROVE FocusTypeOK' /\ FocusDisplayed'
    BY <2>2, <2>4, FocusNowhere
  <2>5. ASSUME t # Field /\ Displayed(doc, t) PROVE FocusTypeOK' /\ FocusDisplayed'
    BY <2>1, <2>2, <2>3, <2>5 DEF FocusTypeOK, FocusDisplayed
  <2>6. ASSUME t # Field /\ ~Displayed(doc, t) PROVE FocusTypeOK' /\ FocusDisplayed'
    BY <1>2, <2>1, <2>2, <2>6 DEF FocusTypeOK, FocusDisplayed
  <2>7. FocusTypeOK' /\ FocusDisplayed'
    BY <2>4, <2>5, <2>6
  <2>8. /\ doc' \in [page : Pages, open : SUBSET Nat] /\ doc'.page = doc.page
        /\ doc'.open \subseteq Items(doc')
    BY <1>2, <2>1 DEF DSTypeOK
  <2> QED
    BY <1>1, <2>1, <2>7, <2>8, FocusMoves
<1>4. CASE /\ k \in {"Left", "Right"}
           /\ doc' = IF focus.at = "item" /\ Row(doc, focus.i).kids > 0
                     THEN [doc EXCEPT !.open = IF k = "Right" THEN @ \union {focus.i} ELSE @ \ {focus.i}]
                     ELSE doc
           /\ UNCHANGED <<box, focus>>
  <2>1. focus.at = "item" => focus.i \in Items(doc) /\ focus.i \in Nat
    BY <1>2, ShownRows DEF Displayed, DSTypeOK
  <2>2. /\ doc' \in [page : Pages, open : SUBSET Nat] /\ doc'.page = doc.page
        /\ doc'.open \subseteq Items(doc)
        /\ focus.at # "item" => doc' = doc
    BY <1>2, <1>4, <2>1 DEF DSTypeOK
  <2>3. Items(doc') = Items(doc) /\ Shown(doc') = Shown(doc)
    BY <2>2 DEF Items, Rows, Shown
  <2>4. FocusOn(focus)
    BY <1>4 DEF FocusOn, Refocus
  <2>5. FocusTypeOK'
    BY <1>2, <1>4 DEF FocusTypeOK
  <2>6. FocusDisplayed'
    BY <1>2, <1>4, <2>2, <2>3 DEF FocusDisplayed, Displayed, Row, Rows
  <2> QED
    BY <1>1, <2>2, <2>3, <2>4, <2>5, <2>6, FocusMoves
<1>5. CASE k = "Escape" /\ box' = Refocus(CloseResultsWindow(box), focus, Field) /\ focus' = Field /\ UNCHANGED doc
  <2>1. CloseResultsWindow(box) \in BoxType /\ ~CloseResultsWindow(box).popup
    BY <1>2, CloseFacts DEF DSTypeOK
  <2>2. box' \in BoxType /\ ~box'.popup
    BY <1>5, <2>1, RefocusFacts DEF Kept
  <2>3. DSTypeOK'
    BY <1>1, <1>2, <1>5, <2>2 DEF DSTypeOK, Items, Rows
  <2>4. PopupAnswers'
    BY <2>2, ClosedAnswers DEF PopupAnswers
  <2> QED
    BY <1>5, <2>3, <2>4, FocusNowhere DEF DSInv
<1> QED
  BY <1>3, <1>4, <1>5 DEF Navigate

LEMMA ToggleStep ==
  ASSUME DSInv, NEW i, Toggle(i), held' \in Keys \union {NoKey}
  PROVE  DSInv'
<1>1. /\ i \in Shown(doc) /\ FocusOn(Item(i)) /\ UNCHANGED <<strays, menu, req>>
      /\ doc' = [doc EXCEPT !.open = IF i \in @ THEN @ \ {i} ELSE @ \union {i}]
  BY DEF Toggle
<1>2. DSTypeOK /\ doc.page \in Pages
  BY DEF DSInv, DSTypeOK
<1>3. i \in Items(doc) /\ i \in Nat
  BY <1>1, <1>2, ShownRows
<1>4. /\ doc' \in [page : Pages, open : SUBSET Nat] /\ doc'.page = doc.page
      /\ doc'.open \subseteq Items(doc)
  BY <1>1, <1>2, <1>3 DEF DSTypeOK
<1>5. Items(doc') = Items(doc) /\ Shown(doc') = Shown(doc)
  BY <1>4 DEF Items, Rows, Shown
<1>6. focus' = Item(i)
  BY <1>1 DEF FocusOn
<1>7. FocusTypeOK'
  BY <1>3, <1>6 DEF FocusTypeOK
<1>8. FocusDisplayed'
  BY <1>1, <1>5, <1>6, Elements DEF FocusDisplayed, Displayed
<1> QED
  BY <1>1, <1>4, <1>5, <1>7, <1>8, FocusMoves

LEMMA KeyDownStep ==
  ASSUME DSInv, NEW k \in Keys, KeyDown(k)
  PROVE  DSInv'
<1>1. CASE held' = k /\ KeyInField(k)
  BY <1>1, KeyInFieldStep
<1>2. CASE held' = k /\ OnSearchSelectKey(k)
  BY <1>2, SelectKeyStep
<1>3. CASE held' = k /\ InFrame(focus) /\ Navigate(k)
  BY <1>3, NavigateStep
<1>4. CASE held' = k /\ Toggle(focus.i)
  BY <1>4, ToggleStep
<1>5. CASE FollowLink
  BY <1>5, FollowStep
<1> QED
  BY <1>1, <1>2, <1>3, <1>4, <1>5 DEF KeyDown

LEMMA FieldChangeStep ==
  ASSUME DSInv, NEW k, held' = NoKey, OnSearchFieldChange(k)
  PROVE  DSInv'
<1> DEFINE b == [box EXCEPT !.keyTimeout = FALSE]
           first == IF HasResults(doc) /\ box.popup THEN NavNext(doc, 0) ELSE {}
           to == IF k \in {"Down", "Enter"} /\ first # {} THEN Item(Min(first)) ELSE Field
           page == Sent(doc, req)
<1>1. focus = Field /\ UNCHANGED <<strays, doc, req>>
  BY DEF OnSearchFieldChange
<1>2. DSTypeOK /\ box \in BoxType /\ Sent(doc', req') = page
  BY <1>1 DEF DSInv, DSTypeOK, Sent
<1>3. b \in BoxType /\ Asked(b, page) /\ InSection(b, page)
  BY <1>2 DEF DSInv, PopupAnswers, BoxType, Asked, InSection, Throws
<1>4. ASSUME box' \in BoxType, menu' \in [shown : BOOLEAN, hideTimeout : BOOLEAN]
      PROVE  DSTypeOK'
  BY <1>1, <1>2, <1>4 DEF DSTypeOK, Items, Rows
<1>5. CASE /\ menu' = [shown |-> TRUE, hideTimeout |-> FALSE]
           /\ focus' = SelectItem(0)
           /\ box' = Refocus([b EXCEPT !.unseen = IF box.keyTimeout THEN @ \union {"text"} ELSE @], Field, SelectItem(0))
  <2> DEFINE c == [b EXCEPT !.unseen = IF box.keyTimeout THEN @ \union {"text"} ELSE @]
  <2>1. /\ c \in BoxType /\ c.popup = b.popup /\ c.lastSearchValue = b.lastSearchValue
        /\ c.searchIndex = b.searchIndex /\ "section" \notin c.unseen => "section" \notin b.unseen
        /\ c.field = box.field
    BY <1>2, <1>3 DEF BoxType
  <2>2. CASE box.keyTimeout
    <3>1. "text" \in c.unseen
      BY <1>2, <2>2 DEF BoxType
    <3>2. Asked(c, page) /\ InSection(c, page) /\ OfText(c)
      BY <1>3, <2>1, <3>1 DEF Asked, InSection, OfText, Throws
    <3> HIDE DEF c
    <3>3. box' \in BoxType /\ Kept(c, box')
      BY <1>5, <2>1, RefocusFacts DEF c
    <3>4. PopupAnswers'
      BY <1>2, <3>2, <3>3, KeptAnswers DEF PopupAnswers
    <3> QED
      BY <1>4, <1>5, <3>3, <3>4, FocusNowhere DEF DSInv
  <2>3. CASE ~box.keyTimeout
    <3>1. c = box
      BY <1>2, <2>3 DEF BoxType
    <3>2. box' \in BoxType /\ Kept(box, box')
      BY <1>2, <1>5, <3>1, RefocusFacts
    <3>3. PopupAnswers'
      BY <1>2, <3>2, KeptAnswers DEF DSInv, PopupAnswers
    <3> QED
      BY <1>4, <1>5, <3>2, <3>3, FocusNowhere DEF DSInv
  <2> QED
    BY <2>2, <2>3
<1>6. CASE focus' = NoFrame /\ box' = CloseResultsWindow(Refocus(b, Field, NoFrame)) /\ UNCHANGED menu
  <2>1. box' \in BoxType /\ ~box'.popup
    BY <1>3, <1>6, RefocusFacts, CloseFacts
  <2>2. PopupAnswers'
    BY <2>1, ClosedAnswers DEF PopupAnswers
  <2>3. DSTypeOK'
    BY <1>2, <1>4, <1>6, <2>1 DEF DSTypeOK
  <2> QED
    BY <1>6, <2>2, <2>3, FocusNowhere DEF DSInv
<1>7. CASE /\ box' = Compare(Refocus(b, Field, to))
           /\ focus' = IF InFrame(to) /\ ~box'.popup THEN NoFrame ELSE to
           /\ UNCHANGED menu
  <2>1. /\ Refocus(b, Field, to) \in BoxType
        /\ Asked(Refocus(b, Field, to), page) /\ InSection(Refocus(b, Field, to), page)
    BY <1>3, RefocusFacts, KeptAnswers
  <2>2. /\ box' \in BoxType /\ Asked(box', page) /\ InSection(box', page) /\ OfText(box')
    BY <1>7, <2>1, CompareFacts
  <2>3. PopupAnswers'
    BY <1>2, <2>2 DEF PopupAnswers
  <2>4. DSTypeOK'
    BY <1>2, <1>4, <1>7, <2>2 DEF DSTypeOK
  <2>5. focus' \in {NoFrame, Field} \/ (first # {} /\ focus' = Item(Min(first)))
    BY <1>7
  <2>6. FocusTypeOK' /\ FocusDisplayed'
    <3>1. CASE focus' \in {NoFrame, Field}
      BY <3>1, FocusNowhere
    <3>2. CASE first # {} /\ focus' = Item(Min(first))
      <4>1. first = NavNext(doc, 0) /\ NavNext(doc, 0) # {}
        BY <3>2
      <4>2. Min(first) \in Shown(doc) /\ Min(first) \in Nat
        BY <1>2, <4>1, FirstShown
      <4> HIDE DEF first
      <4>3. Shown(doc') = Shown(doc)
        BY <1>1
      <4> QED
        BY <3>2, <4>2, <4>3, Elements DEF FocusTypeOK, FocusDisplayed, Displayed
    <3> QED
      BY <2>5, <3>1, <3>2
  <2> QED
    BY <2>3, <2>4, <2>6 DEF DSInv
<1> QED
  BY <1>5, <1>6, <1>7 DEF OnSearchFieldChange

LEMMA KeyUpStep == ASSUME DSInv, KeyUp PROVE DSInv'
<1>1. held' = NoKey
  BY DEF KeyUp
<1>2. CASE OnSearchFieldChange(held)
  BY <1>1, <1>2, FieldChangeStep
<1>3. CASE UNCHANGED <<box, strays, menu, doc, req, focus>>
  BY <1>1, <1>3 DEF DSInv, DSTypeOK, FocusTypeOK, FocusDisplayed, PopupAnswers, Items, Rows
<1> QED
  BY <1>2, <1>3 DEF KeyUp

\* The field, or nothing, is clicked.
LEMMA ClickStep == ASSUME DSInv, ClickField \/ ClickElsewhere PROVE DSInv'
<1>1. PICK f \in {NoFrame, Field} : FocusOn(f) /\ UNCHANGED <<strays, menu, doc, req, held>>
  BY DEF ClickField, ClickElsewhere
<1>2. FocusTypeOK' /\ FocusDisplayed'
  BY <1>1, FocusNowhere DEF FocusOn
<1>3. /\ doc' \in [page : Pages, open : SUBSET Nat] /\ doc'.page = doc.page
      /\ doc'.open \subseteq Items(doc') /\ held' \in Keys \union {NoKey}
  BY <1>1 DEF DSInv, DSTypeOK
<1> QED
  BY <1>1, <1>2, <1>3, FocusMoves

LEMMA ClickSelectStep == ASSUME DSInv, NEW i \in Sections, ClickSelectItem(i) PROVE DSInv'
<1> DEFINE b == [Refocus(box, focus, SelectItem(i)) EXCEPT !.searchIndex = i]
<1>1. OnSelectItem(b) /\ box' = AfterSelect(b) /\ focus' = SelectItem(i) /\ UNCHANGED <<menu, doc, held>>
  BY DEF ClickSelectItem
<1>2. /\ box \in BoxType /\ strays \in 0 .. MaxTimers /\ req \in Pages
      /\ Asked(box, Sent(doc, req))
  BY DEF DSInv, DSTypeOK, PopupAnswers
<1>3. /\ Refocus(box, focus, SelectItem(i)) \in BoxType
      /\ Asked(Refocus(box, focus, SelectItem(i)), Sent(doc, req))
  BY <1>2, RefocusFacts, KeptAnswers
<1>4. i \in Int /\ i \in 0 .. Cardinality(Sections)
  BY SectionsCount
<1>5. b \in BoxType /\ Asked(b, Sent(doc, req))
  BY <1>3, <1>4 DEF BoxType, Asked
<1> HIDE DEF b
<1>6. strays' \in 0 .. MaxTimers /\ req' \in Pages /\ box' \in BoxType /\ PopupAnswers'
  BY <1>1, <1>2, <1>5, SelectFacts DEF PopupAnswers
<1>7. DSTypeOK'
  BY <1>1, <1>6 DEF DSInv, DSTypeOK, Items, Rows
<1> QED
  BY <1>1, <1>4, <1>6, <1>7, FocusNowhere DEF DSInv

LEMMA ClickCloseStep == ASSUME DSInv, ClickClose PROVE DSInv'
<1>1. box' \in BoxType /\ ~box'.popup
  BY RefocusFacts, CloseFacts DEF ClickClose, DSInv, DSTypeOK
<1>2. PopupAnswers'
  BY <1>1, ClosedAnswers DEF PopupAnswers
<1>3. DSTypeOK'
  BY <1>1 DEF ClickClose, DSInv, DSTypeOK, Items, Rows
<1>4. FocusTypeOK' /\ FocusDisplayed'
  BY FocusNowhere DEF ClickClose
<1> QED
  BY <1>2, <1>3, <1>4 DEF DSInv

\* The selection window comes and goes.
LEMMA MenuStep ==
  ASSUME DSInv, OnSearchSelectShow \/ OnSearchSelectHide \/ CloseSelectionWindow
  PROVE  DSInv'
<1>1. UNCHANGED <<box, strays, doc, req, held>> /\ focus' \in {focus, NoFrame}
  BY DEF OnSearchSelectShow, OnSearchSelectHide, CloseSelectionWindow
<1>2. menu' \in [shown : BOOLEAN, hideTimeout : BOOLEAN]
  <2>1. menu \in [shown : BOOLEAN, hideTimeout : BOOLEAN]
    BY DEF DSInv, DSTypeOK
  <2>2. CASE OnSearchSelectShow
    BY <2>2 DEF OnSearchSelectShow
  <2>3. CASE OnSearchSelectHide
    BY <2>1, <2>3 DEF OnSearchSelectHide
  <2>4. CASE CloseSelectionWindow
    BY <2>1, <2>4 DEF CloseSelectionWindow
  <2> QED
    BY <2>2, <2>3, <2>4
<1>3. DSTypeOK' /\ PopupAnswers'
  BY <1>1, <1>2 DEF DSInv, DSTypeOK, PopupAnswers, Items, Rows
<1>4. FocusTypeOK' /\ FocusDisplayed'
  <2>1. CASE focus' = focus
    BY <1>1, <2>1 DEF DSInv, FocusTypeOK, FocusDisplayed
  <2>2. CASE focus' = NoFrame
    BY <2>2, FocusNowhere
  <2> QED
    BY <1>1, <2>1, <2>2
<1> QED
  BY <1>3, <1>4 DEF DSInv

LEMMA TimerStep == ASSUME DSInv, SearchTimer PROVE DSInv'
<1>1. /\ UNCHANGED <<menu, doc, focus, held>> /\ box' = Search(box)
      /\ req' = IF Throws(box) THEN req ELSE Request(box)
  BY DEF SearchTimer
<1>2. strays' \in 0 .. MaxTimers
  BY Assumptions DEF SearchTimer, DSInv, DSTypeOK, MaxTimersAssumption
<1>3. box \in BoxType /\ req \in Pages /\ Asked(box, Sent(doc, req))
  BY DEF DSInv, DSTypeOK, PopupAnswers
<1>4. req' \in Pages /\ box' \in BoxType
  BY <1>1, <1>3, SearchFacts, RequestFacts
<1>5. PopupAnswers'
  BY <1>1, <1>3, SearchAnswers DEF PopupAnswers
<1>6. DSTypeOK'
  BY <1>1, <1>2, <1>4 DEF DSInv, DSTypeOK, Items, Rows
<1>7. FocusTypeOK' /\ FocusDisplayed'
  BY <1>1 DEF DSInv, FocusTypeOK, FocusDisplayed
<1> QED
  BY <1>5, <1>6, <1>7 DEF DSInv

LEMMA LoadedStep == ASSUME DSInv, FrameLoaded PROVE DSInv'
<1>1. /\ req # NoPage /\ doc' = Document(req) /\ req' = NoPage
      /\ focus' = IF InFrame(focus) THEN NoFrame ELSE focus
      /\ UNCHANGED <<box, strays, menu, held>>
  BY DEF FrameLoaded
<1>2. DSTypeOK'
  BY <1>1, NewDocument, NoPageIsPage DEF DSInv, DSTypeOK
<1>3. Sent(doc', req') = Sent(doc, req)
  BY <1>1, NewDocument DEF Sent, DSInv, DSTypeOK
<1>4. PopupAnswers'
  BY <1>1, <1>3 DEF DSInv, PopupAnswers
<1>5. FocusTypeOK' /\ FocusDisplayed'
  <2>1. CASE InFrame(focus)
    BY <1>1, <2>1, FocusNowhere
  <2>2. CASE ~InFrame(focus)
    BY <1>1, <2>2 DEF DSInv, FocusTypeOK, FocusDisplayed
  <2> QED
    BY <2>1, <2>2
<1> QED
  BY <1>2, <1>4, <1>5 DEF DSInv

LEMMA DSStep == ASSUME DSInv, [Next]_vars PROVE DSInv'
<1>1. CASE \E k \in Keys : KeyDown(k)
  BY <1>1, KeyDownStep
<1>2. CASE \E i \in Items(doc) : ClickResult(i)
  <2>1. PICK i \in Items(doc) : Toggle(i) /\ UNCHANGED held
    BY <1>2 DEF ClickResult
  <2>2. held' \in Keys \union {NoKey}
    BY <2>1 DEF DSInv, DSTypeOK
  <2> QED
    BY <2>1, <2>2, ToggleStep
<1>3. CASE \E i \in Sections : ClickSelectItem(i)
  BY <1>3, ClickSelectStep
<1>4. CASE UNCHANGED vars
  BY <1>4 DEF vars, DSInv, DSTypeOK, FocusTypeOK, FocusDisplayed, PopupAnswers, Items, Rows
<1> QED
  BY <1>1, <1>2, <1>3, <1>4, KeyUpStep, ClickStep, ClickCloseStep, MenuStep, TimerStep, LoadedStep
  DEF Next

LEMMA DSStart == ASSUME Init PROVE DSInv
<1>1. NewBox \in BoxType /\ ~NewBox.popup
  BY EmptyText, SectionsCount DEF NewBox, BoxType
<1>2. DSTypeOK
  BY <1>1, NewDocument, NoPageIsPage, Assumptions DEF Init, DSTypeOK, NewMenu, MaxTimersAssumption
<1>3. PopupAnswers
  BY <1>1, ClosedAnswers DEF Init, PopupAnswers
<1>4. FocusTypeOK /\ FocusDisplayed
  BY Elements DEF Init, FocusTypeOK, FocusDisplayed, InFrame
<1> QED
  BY <1>2, <1>3, <1>4 DEF DSInv

(* The invariant: types, a focus on what is displayed, and a popup whose   *)
(* page is for what was last searched.                                     *)
THEOREM SearchInvariance == Spec => []DSInv
<1>1. Init => DSInv
  BY DSStart
<1>2. DSInv /\ [Next]_vars => DSInv'
  BY DSStep
<1> QED
  BY <1>1, <1>2, PTL DEF Spec

(* Types hold for every documentation and every text.                      *)
THEOREM SearchTypes == Spec => []DSTypeOK
<1>1. DSInv => DSTypeOK
  BY DEF DSInv
<1> QED
  BY <1>1, SearchInvariance, PTL

(* The focus is never on a row or a result that Search, Toggle or Left has *)
(* hidden.                                                                 *)
THEOREM FocusOnDisplayed == Spec => []FocusDisplayed
<1>1. DSInv => FocusDisplayed
  BY DEF DSInv
<1> QED
  BY <1>1, SearchInvariance, PTL

(* Once keys, timers and the frame are through, an open popup answers the  *)
(* text and the section selected.                                          *)
THEOREM PopupAnswersField == Spec => []SettledAnswersField
<1>1. DSInv => SettledAnswersField
  <2>1. ASSUME DSInv, Settled, Searches(box), ~Throws(box)
        PROVE  /\ doc.page.section = box.searchIndex
               /\ doc.page.query = StripLeading(box.field) \/ doc.page.query = StripAll(box.field)
    <3>1. Sent(doc, req) = doc.page /\ box.popup /\ box.unseen = {} /\ ~box.keyTimeout /\ ~Blank(box.field)
      BY <2>1 DEF Sent, Settled, Searches
    <3> QED
      BY <2>1, <3>1 DEF DSInv, PopupAnswers, Asked, InSection, OfText
  <2> QED
    BY <2>1 DEF SettledAnswersField
<1> QED
  BY <1>1, SearchInvariance, PTL

-----------------------------------------------------------------------------
(* Up takes back Down                                                       *)

\* Below a row displayed the next one displayed is the next one, and above that it is the last.
LEMMA NextBelow ==
  ASSUME DSTypeOK, NEW i \in Shown(doc), NavNext(doc, i + 1) # {},
         NEW j, j = Min(NavNext(doc, i + 1))
  PROVE  /\ i \in Nat /\ j = i + 1
         /\ NavPrev(doc, j - 1) # {} /\ Max(NavPrev(doc, j - 1)) = i
<1>1. Shown(doc) \in SUBSET Nat /\ \A x, y \in Shown(doc) : x .. y \subseteq Shown(doc)
  BY ShownRows DEF DSTypeOK
<1>2. i \in Nat /\ i + 1 \in Int
  BY <1>1
<1>3. j \in Shown(doc) /\ j \in Nat /\ j >= i + 1 /\ \A y \in NavNext(doc, i + 1) : j <= y
  BY <1>2, FirstShown
<1>4. i + 1 \in Shown(doc)
  BY <1>1, <1>2, <1>3
<1>5. i + 1 \in NavNext(doc, i + 1)
  BY <1>2, <1>4 DEF NavNext
<1>6. j = i + 1
  BY <1>2, <1>3, <1>5
<1>7. j - 1 = i
  BY <1>2, <1>6
<1>8. NavPrev(doc, i) \in SUBSET Nat /\ i \in NavPrev(doc, i) /\ \A y \in NavPrev(doc, i) : y <= i
  BY <1>1, <1>2 DEF NavPrev
<1>9. Max(NavPrev(doc, i)) = i
  BY <1>8, MaxOf
<1> QED
  BY <1>2, <1>6, <1>7, <1>8, <1>9

LEMMA DownThenUp ==
  ASSUME DSTypeOK, FocusTypeOK, InFrame(focus), Displayed(doc, focus),
         NEW t, t = DownTarget(doc, focus), t # focus, Displayed(doc, t)
  PROVE  UpTarget(doc, t) = focus
<1> DEFINE i == focus.i
           c == focus.c
           below == NavNext(doc, i + 1)
           j == Min(below)
<1>1. /\ focus.at = "item" => i \in Nat /\ focus = Item(i)
      /\ focus.at = "child" => i \in Nat /\ c \in Nat /\ focus = Child(i, c)
      /\ focus.at \in {"item", "child"}
  BY FocusInFrame DEF InFrame
<1>2. i \in Shown(doc) /\ (focus.at = "child" => i \in doc.open /\ c < Row(doc, i).kids)
  BY <1>1 DEF Displayed
<1>3. Row(doc, i).kids \in Nat
  BY <1>2, ShownRows DEF DSTypeOK
<1>4. CASE focus.at = "child" /\ c + 1 < Row(doc, i).kids
  <2>1. t = Child(i, c + 1)
    BY <1>4 DEF DownTarget
  <2>2. t.at = "child" /\ t.i = i /\ t.c > 0 /\ t.c - 1 = c
    <3>1. t.at = "child" /\ t.i = i /\ t.c = c + 1
      BY <2>1, Elements
    <3> QED
      BY <1>1, <1>4, <3>1
  <2>3. UpTarget(doc, t) = Child(i, c)
    BY <2>2 DEF UpTarget
  <2> QED
    BY <1>1, <1>4, <2>3
<1>5. CASE focus.at = "item" /\ i \in doc.open
  <2>1. t = Child(i, 0)
    BY <1>5 DEF DownTarget
  <2>2. t.at = "child" /\ t.i = i /\ t.c = 0 /\ ~(0 > 0)
    BY <2>1, Elements
  <2>3. UpTarget(doc, t) = Item(i)
    BY <2>2 DEF UpTarget
  <2> QED
    BY <1>1, <1>5, <2>3
<1>6. CASE /\ ~(focus.at = "child" /\ c + 1 < Row(doc, i).kids)
           /\ ~(focus.at = "item" /\ i \in doc.open)
  <2>1. below # {} /\ t = Item(j)
    BY <1>6 DEF DownTarget
  <2>2. t.at = "item" /\ t.i = j
    BY <2>1, Elements
  <2>3. i \in Nat /\ j = i + 1 /\ NavPrev(doc, j - 1) # {} /\ Max(NavPrev(doc, j - 1)) = i
    BY <1>2, <2>1, NextBelow
  <2>4. j - 1 = i
    BY <2>3
  <2> HIDE DEF j, i
  <2>5. UpTarget(doc, t) = IF i \in doc.open /\ Row(doc, i).kids - 1 >= 0
                           THEN Child(i, Row(doc, i).kids - 1) ELSE Item(i)
    <3>1. UpTarget(doc, t) =
            LET above == NavPrev(doc, j - 1)
                last  == Row(doc, j - 1).kids - 1
            IN  IF above = {} THEN Field
                ELSE IF Max(above) \in doc.open /\ last >= 0 THEN Child(j - 1, last)
                ELSE Item(Max(above))
      BY <2>2 DEF UpTarget
    <3> QED
      BY <2>3, <2>4, <3>1
  <2>6. CASE focus.at = "item"
    BY <1>1, <1>6, <2>5, <2>6 DEF i
  <2>7. CASE focus.at = "child"
    <3>1. c < Row(doc, i).kids /\ ~(c + 1 < Row(doc, i).kids) /\ i \in doc.open /\ c \in Nat
          /\ focus = Child(i, c)
      BY <1>1, <1>2, <1>6, <2>7 DEF i
    <3>2. Row(doc, i).kids \in Nat
      BY <1>3 DEF i
    <3>3. Row(doc, i).kids - 1 = c /\ c >= 0
      BY <3>1, <3>2
    <3> QED
      BY <2>5, <3>1, <3>3
  <2> QED
    BY <1>1, <2>6, <2>7
<1> QED
  BY <1>4, <1>5, <1>6

\* From the field Down leads to the first row displayed, above which there is none.
LEMMA FieldThenUp ==
  ASSUME DSTypeOK, NavNext(doc, 0) # {}
  PROVE  UpTarget(doc, Item(Min(NavNext(doc, 0)))) = Field
<1>1. PICK m : m = Min(NavNext(doc, 0))
  OBVIOUS
<1>2. m \in Nat /\ \A y \in NavNext(doc, 0) : m <= y
  BY <1>1, FirstShown
<1>3. Shown(doc) \in SUBSET Nat
  BY ShownRows DEF DSTypeOK
<1>4. NavPrev(doc, m - 1) = {}
  BY <1>2, <1>3 DEF NavNext, NavPrev
<1>5. Item(m).at = "item" /\ Item(m).i = m
  BY Elements
<1>6. UpTarget(doc, Item(m)) = Field
  BY <1>4, <1>5 DEF UpTarget
<1> QED
  BY <1>1, <1>6

LEMMA UpAfterDownStep == ASSUME DSInv PROVE UpAfterDown
<1> SUFFICES ASSUME focus' # focus, InFrame(focus'), KeyDown("Down") \/ (KeyUp /\ held = "Down")
             PROVE  UpTarget(doc', focus') = focus
  BY DEF UpAfterDown
<1>1. DSTypeOK /\ FocusTypeOK /\ FocusDisplayed
  BY DEF DSInv
<1>2. ~InFrame(Field) /\ ~InFrame(NoFrame) /\ ~InFrame(SelectItem(0))
  BY Elements DEF InFrame
<1>3. CASE KeyDown("Down")
  <2>1. InFrame(focus) /\ Navigate("Down")
    BY <1>3 DEF KeyDown, KeyInField, OnSearchSelectKey
  <2>2. /\ UNCHANGED doc
        /\ FocusOn(IF DownTarget(doc, focus) = Field \/ Displayed(doc, DownTarget(doc, focus))
                   THEN DownTarget(doc, focus) ELSE focus)
    BY <2>1 DEF Navigate
  <2>3. focus' = DownTarget(doc, focus) /\ Displayed(doc, DownTarget(doc, focus))
    BY <1>2, <2>2 DEF FocusOn
  <2> QED
    BY <1>1, <2>1, <2>2, <2>3, DownThenUp DEF FocusDisplayed
<1>4. CASE KeyUp /\ held = "Down"
  <2>1. OnSearchFieldChange("Down")
    BY <1>4 DEF KeyUp
  <2>2. focus = Field /\ doc' = doc
    BY <2>1 DEF OnSearchFieldChange
  <2> DEFINE first == IF HasResults(doc) /\ box.popup THEN NavNext(doc, 0) ELSE {}
  <2>3. first # {} /\ focus' = Item(Min(first))
    BY <1>2, <2>1 DEF OnSearchFieldChange
  <2>4. first = NavNext(doc, 0)
    BY <2>3
  <2> QED
    BY <1>1, <2>2, <2>3, <2>4, FieldThenUp
<1> QED
  BY <1>3, <1>4

(* In the results Up leads back to where Down came from, whether that is   *)
(* the field, a row or one of the results below a row.                     *)
THEOREM UpTakesBackDown == Spec => UpUndoesDown
<1>1. DSInv => UpAfterDown
  BY UpAfterDownStep
<1> QED
  BY <1>1, SearchInvariance, PTL DEF UpUndoesDown

-----------------------------------------------------------------------------
(* A text is encoded character by character, without losing its beginning  *)

Chars == DOMAIN lower

\* What convertToId makes of one character.
Code(c) == IF c \in DOMAIN hex THEN hex[c] ELSE <<c>>
Codes(t) == [n \in 1 .. Len(t) |-> Code(t[n])]

LEMMA CodeFacts ==
  ASSUME NEW c \in Chars
  PROVE  Code(c) \in Seq(Chars) /\ Len(Code(c)) \in Nat \ {0}
<1>1. CASE c \in DOMAIN hex
  BY <1>1, Assumptions DEF HexAssumption, Code, Chars
<1>2. CASE c \notin DOMAIN hex
  BY <1>2 DEF Code
<1> QED
  BY <1>1, <1>2

\* The codes of different characters differ in a place both have: no code begins another.
LEMMA CodesDiffer ==
  ASSUME NEW c \in Chars, NEW d \in Chars, c # d
  PROVE  \E x \in 1 .. Len(Code(c)) : x <= Len(Code(d)) /\ Code(c)[x] # Code(d)[x]
<1>1. /\ Len(Code(c)) \in Nat \ {0} /\ Len(Code(d)) \in Nat \ {0}
      /\ Code(c) \in Seq(Chars) /\ Code(d) \in Seq(Chars)
  BY CodeFacts
<1>2. CASE c \in DOMAIN hex /\ d \in DOMAIN hex
  <2>1. Code(c) = hex[c] /\ Code(d) = hex[d] /\ Len(hex[c]) = 3 /\ Len(hex[d]) = 3 /\ hex[c] # hex[d]
    BY <1>2, Assumptions DEF HexAssumption, Code
  <2> QED
    BY <1>1, <2>1
<1>3. CASE c \in DOMAIN hex /\ d \notin DOMAIN hex
  <2>1. Code(c)[1] \in DOMAIN hex /\ Code(d)[1] = d
    BY <1>3, Assumptions DEF HexAssumption, Code
  <2> QED
    BY <1>1, <1>3, <2>1
<1>4. CASE c \notin DOMAIN hex /\ d \in DOMAIN hex
  <2>1. Code(d)[1] \in DOMAIN hex /\ Code(c)[1] = c
    BY <1>4, Assumptions DEF HexAssumption, Code
  <2> QED
    BY <1>1, <1>4, <2>1
<1>5. CASE c \notin DOMAIN hex /\ d \notin DOMAIN hex
  <2>1. Code(c)[1] = c /\ Code(d)[1] = d
    BY <1>5 DEF Code
  <2> QED
    BY <1>1, <2>1
<1> QED
  BY <1>2, <1>3, <1>4, <1>5

\* The function of FlattenSeq: the first i sequences joined.
Joins(f, n, seqs) == f = [i \in 1 .. n |-> IF i = 1 THEN seqs[i] ELSE f[i - 1] \o seqs[i]]

LEMMA JoinOf ==
  ASSUME NEW n \in Nat, NEW seqs
  PROVE  \E f : Joins(f, n, seqs)
<1> DEFINE Bad == {k \in Nat : ~ \E f : Joins(f, k, seqs)}
<1>1. ASSUME Bad # {} PROVE FALSE
  <2>1. PICK m : m \in Bad /\ \A y \in Bad : m <= y
    <3>1. Min(Bad) \in Bad /\ \A y \in Bad : Min(Bad) <= y
      BY <1>1, MinOf
    <3> QED
      BY <3>1
  <2>2. CASE m = 0
    <3> DEFINE f == [i \in 1 .. 0 |-> 0]
    <3>1. Joins(f, 0, seqs)
      BY DEF Joins
    <3> QED
      BY <2>1, <2>2, <3>1
  <2>3. CASE m # 0
    <3>1. m \in Nat /\ m - 1 \in Nat /\ m - 1 \notin Bad
      BY <2>1, <2>3
    <3>2. PICK f : Joins(f, m - 1, seqs)
      BY <3>1
    <3> DEFINE g == [i \in 1 .. m |-> IF i < m THEN f[i]
                                      ELSE IF i = 1 THEN seqs[i] ELSE f[i - 1] \o seqs[i]]
    <3>3. ASSUME NEW i \in 1 .. m
          PROVE  g[i] = IF i = 1 THEN seqs[i] ELSE g[i - 1] \o seqs[i]
      <4>1. CASE i < m
        <5>1. i \in 1 .. m - 1 /\ (i # 1 => i - 1 \in 1 .. m)
          BY <3>1, <4>1
        <5>2. f[i] = IF i = 1 THEN seqs[i] ELSE f[i - 1] \o seqs[i]
          BY <3>2, <5>1, Zenon DEF Joins
        <5>3. g[i] = f[i] /\ (i # 1 => g[i - 1] = f[i - 1])
          BY <3>1, <4>1, <5>1
        <5> QED
          BY <5>2, <5>3
      <4>2. CASE i = m
        <5>1. g[i] = IF i = 1 THEN seqs[i] ELSE f[i - 1] \o seqs[i]
          BY <3>1, <4>2
        <5>2. i # 1 => g[i - 1] = f[i - 1]
          BY <3>1, <4>2
        <5> QED
          BY <5>1, <5>2
      <4> QED
        BY <3>1, <4>1, <4>2
    <3>4. Joins(g, m, seqs)
      BY <3>3, Zenon DEF Joins
    <3> QED
      BY <2>1, <3>4
  <2> QED
    BY <2>2, <2>3
<1> QED
  BY <1>1

\* The codes of the first i characters of a text.
Part(t, i) == IF i = 0 THEN <<>> ELSE (CHOOSE f : Joins(f, Len(t), Codes(t)))[i]

LEMMA PartStep ==
  ASSUME NEW t \in Seq(Chars), NEW i \in 1 .. Len(t)
  PROVE  IF i = 1 THEN Part(t, i) = Code(t[i]) ELSE Part(t, i) = Part(t, i - 1) \o Code(t[i])
<1> DEFINE f == CHOOSE g : Joins(g, Len(t), Codes(t))
<1>1. Joins(f, Len(t), Codes(t))
  BY JoinOf
<1> HIDE DEF f
<1>2. f[i] = IF i = 1 THEN Codes(t)[i] ELSE f[i - 1] \o Codes(t)[i]
  BY <1>1, Zenon DEF Joins
<1>3. Codes(t)[i] = Code(t[i])
  BY DEF Codes
<1>4. Part(t, i) = f[i] /\ (i # 1 => Part(t, i - 1) = f[i - 1])
  BY DEF Part, f
<1> QED
  BY <1>2, <1>3, <1>4

\* A text is encoded character by character.
LEMMA PartFacts ==
  ASSUME NEW t \in Seq(Chars)
  PROVE  /\ convertToId(t) = Part(t, Len(t))
         /\ Part(t, 0) = <<>>
         /\ \A i \in 0 .. Len(t) : Part(t, i) \in Seq(Chars)
         /\ \A i \in 1 .. Len(t) : Part(t, i) = Part(t, i - 1) \o Code(t[i])
<1>1. Len(Codes(t)) = Len(t) /\ Len(t) \in Nat
  BY DEF Codes
<1>2. convertToId(t) = FlattenSeq(Codes(t))
  BY DEF convertToId, Codes, Code
<1>3. CASE Len(t) = 0
  <2>1. Codes(t) = <<>>
    BY <1>3 DEF Codes
  <2> QED
    BY <1>2, <1>3, <2>1 DEF FlattenSeq, Part
<1>4. CASE Len(t) # 0
  <2>1. convertToId(t) = Part(t, Len(t))
    BY <1>1, <1>2, <1>4 DEF FlattenSeq, Part, Joins
  <2> DEFINE Bad == {i \in Nat : i <= Len(t) /\ Part(t, i) \notin Seq(Chars)}
  <2>2. \A i \in 1 .. Len(t) : t[i] \in Chars /\ Code(t[i]) \in Seq(Chars)
    BY CodeFacts
  <2>3. ASSUME Bad # {} PROVE FALSE
    <3>1. PICK m : m \in Bad /\ \A y \in Bad : m <= y
      <4>1. Min(Bad) \in Bad /\ \A y \in Bad : Min(Bad) <= y
        BY <2>3, MinOf
      <4> QED
        BY <4>1
    <3>2. m # 0
      BY <3>1 DEF Part
    <3>3. m \in 1 .. Len(t) /\ m - 1 \in Nat /\ m - 1 <= Len(t)
      BY <1>1, <3>1, <3>2
    <3>4. Part(t, m - 1) \in Seq(Chars)
      BY <3>1, <3>3
    <3>5. Part(t, m) \in Seq(Chars)
      <4>1. Code(t[m]) \in Seq(Chars)
        BY <2>2, <3>3
      <4>2. PICK a, b, c : a = Part(t, m) /\ b = Part(t, m - 1) /\ c = Code(t[m])
        OBVIOUS
      <4>3. a = c \/ a = b \o c
        BY <3>3, <4>2, PartStep
      <4>4. b \in Seq(Chars) /\ c \in Seq(Chars)
        BY <3>4, <4>1, <4>2, Zenon
      <4>5. b \o c \in Seq(Chars)
        BY <4>4
      <4> QED
        BY <4>2, <4>3, <4>4, <4>5, Zenon
    <3> QED
      BY <3>1, <3>5
  <2>4. \A i \in 0 .. Len(t) : Part(t, i) \in Seq(Chars)
    BY <2>3
  <2>5. Part(t, 0) = <<>>
    BY DEF Part
  <2>6. ASSUME NEW i \in 1 .. Len(t) PROVE Part(t, i) = Part(t, i - 1) \o Code(t[i])
    <3>1. Code(t[i]) \in Seq(Chars)
      BY <2>2
    <3>2. CASE i = 1
      BY <2>5, <3>1, <3>2, PartStep
    <3>3. CASE i # 1
      BY <3>3, PartStep
    <3> QED
      BY <3>2, <3>3
  <2> QED
    BY <2>1, <2>4, <2>5, <2>6
<1> QED
  BY <1>3, <1>4

-----------------------------------------------------------------------------
(* Prefixes                                                                 *)

Begins(s, t) == Len(s) <= Len(t) /\ \A x \in 1 .. Len(s) : s[x] = t[x]

LEMMA PrefixIsBegins ==
  ASSUME NEW s \in Seq(Chars), NEW t \in Seq(Chars)
  PROVE  IsPrefix(s, t) <=> Begins(s, t)
<1>1. CASE ~(Len(s) <= Len(t))
  BY <1>1 DEF IsPrefix, Begins
<1>2. CASE Len(s) <= Len(t)
  <2>1. PICK n \in Nat : n = Len(s) /\ n <= Len(t)
    BY <1>2
  <2>2. SubSeq(s, 1, n) = [x \in 1 .. n |-> s[x]] /\ SubSeq(t, 1, n) = [x \in 1 .. n |-> t[x]]
    BY <2>1
  <2>3. (SubSeq(s, 1, n) = SubSeq(t, 1, n)) <=> \A x \in 1 .. n : s[x] = t[x]
    BY <2>2
  <2> QED
    BY <1>2, <2>1, <2>3 DEF IsPrefix, Begins
<1> QED
  BY <1>1, <1>2

LEMMA BeginsFacts ==
  /\ \A s \in Seq(Chars) : Begins(s, s)
  /\ \A s, t \in Seq(Chars) : Begins(s, s \o t)
  /\ \A s, t, u \in Seq(Chars) : Begins(s, t) /\ Begins(t, u) => Begins(s, u)
<1>1. \A s \in Seq(Chars) : Begins(s, s)
  BY DEF Begins
<1>2. \A s, t \in Seq(Chars) : Begins(s, s \o t)
  BY DEF Begins
<1>3. \A s, t, u \in Seq(Chars) : Begins(s, t) /\ Begins(t, u) => Begins(s, u)
  BY DEF Begins
<1> QED
  BY <1>1, <1>2, <1>3

\* The encoding of a text begins with the codes of its first characters.
LEMMA PartBegins ==
  ASSUME NEW t \in Seq(Chars), NEW i \in 0 .. Len(t)
  PROVE  Begins(Part(t, i), convertToId(t))
<1> DEFINE Bad == {j \in Nat : i <= j /\ j <= Len(t) /\ ~Begins(Part(t, i), Part(t, j))}
<1>1. ASSUME Bad # {} PROVE FALSE
  <2>1. PICK m : m \in Bad /\ \A y \in Bad : m <= y
    <3>1. Min(Bad) \in Bad /\ \A y \in Bad : Min(Bad) <= y
      BY <1>1, MinOf
    <3> QED
      BY <3>1
  <2>2. m \in Nat /\ i <= m /\ m <= Len(t) /\ ~Begins(Part(t, i), Part(t, m)) /\ i \in Nat
    BY <2>1
  <2>3. Part(t, i) \in Seq(Chars)
    BY PartFacts
  <2>4. m # i
    BY <2>2, <2>3, BeginsFacts
  <2>5. m \in 1 .. Len(t) /\ m - 1 \in 0 .. Len(t) /\ i <= m - 1
    BY <2>2, <2>4
  <2>6. Begins(Part(t, i), Part(t, m - 1))
    BY <2>1, <2>5
  <2>7. /\ Part(t, m) = Part(t, m - 1) \o Code(t[m])
        /\ Part(t, m - 1) \in Seq(Chars) /\ Part(t, m) \in Seq(Chars)
    BY <2>5, PartFacts
  <2>8. Code(t[m]) \in Seq(Chars)
    BY <2>5, CodeFacts
  <2>9. Begins(Part(t, m - 1), Part(t, m))
    BY <2>7, <2>8, BeginsFacts
  <2>10. Begins(Part(t, i), Part(t, m))
    BY <2>3, <2>6, <2>7, <2>9, BeginsFacts
  <2> QED
    BY <2>2, <2>10
<1>2. Begins(Part(t, i), Part(t, Len(t)))
  BY <1>1
<1> QED
  BY <1>2, PartFacts

\* Texts that begin alike are encoded alike so far.
LEMMA PartsAgree ==
  ASSUME NEW a \in Seq(Chars), NEW b \in Seq(Chars), NEW k \in 0 .. Len(a), k <= Len(b),
         \A x \in 1 .. k : a[x] = b[x]
  PROVE  Part(a, k) = Part(b, k)
<1> DEFINE Bad == {j \in Nat : j <= k /\ Part(a, j) # Part(b, j)}
<1>1. ASSUME Bad # {} PROVE FALSE
  <2>1. PICK m : m \in Bad /\ \A y \in Bad : m <= y
    <3>1. Min(Bad) \in Bad /\ \A y \in Bad : Min(Bad) <= y
      BY <1>1, MinOf
    <3> QED
      BY <3>1
  <2>2. m \in Nat /\ m <= k /\ Part(a, m) # Part(b, m) /\ k \in Nat /\ k <= Len(a)
    BY <2>1
  <2>3. m # 0
    BY <2>2 DEF Part
  <2>4. m \in 1 .. Len(a) /\ m \in 1 .. Len(b) /\ m \in 1 .. k /\ m - 1 \in Nat /\ m - 1 <= k
    BY <2>2, <2>3
  <2>5. Part(a, m - 1) = Part(b, m - 1)
    BY <2>1, <2>4
  <2>6. a[m] = b[m]
    BY <2>4
  <2>7. Part(a, m) = Part(a, m - 1) \o Code(a[m]) /\ Part(b, m) = Part(b, m - 1) \o Code(b[m])
    BY <2>4, PartFacts
  <2> QED
    BY <2>2, <2>5, <2>6, <2>7
<1>2. k \in Nat
  OBVIOUS
<1> QED
  BY <1>1, <1>2

\* What SearchResults.Search compares: an encoded text begins another when the text does.
LEMMA EncodedPrefix ==
  ASSUME NEW a \in Seq(Chars), NEW b \in Seq(Chars)
  PROVE  IsPrefix(convertToId(a), convertToId(b)) <=> IsPrefix(a, b)
<1>1. /\ convertToId(a) \in Seq(Chars) /\ convertToId(b) \in Seq(Chars)
      /\ convertToId(a) = Part(a, Len(a)) /\ convertToId(b) = Part(b, Len(b))
      /\ Len(a) \in Nat /\ Len(b) \in Nat
  BY PartFacts
<1>2. ASSUME Begins(a, b) PROVE Begins(convertToId(a), convertToId(b))
  <2>1. Len(a) <= Len(b) /\ \A x \in 1 .. Len(a) : a[x] = b[x]
    BY <1>2 DEF Begins
  <2>2. Len(a) \in 0 .. Len(a) /\ Len(a) \in 0 .. Len(b)
    BY <1>1, <2>1
  <2>3. Part(a, Len(a)) = Part(b, Len(a))
    BY <2>1, <2>2, PartsAgree
  <2> QED
    BY <1>1, <2>2, <2>3, PartBegins
<1>3. ASSUME Begins(convertToId(a), convertToId(b)), ~Begins(a, b) PROVE FALSE
  <2> DEFINE Bad == {k \in Nat : k >= 1 /\ k <= Len(a) /\ (k > Len(b) \/ a[k] # b[k])}
  <2>1. Bad # {}
    <3>1. CASE Len(a) > Len(b)
      <4>1. Len(b) + 1 \in Bad
        BY <1>1, <3>1
      <4> QED
        BY <4>1
    <3>2. CASE ~(Len(a) > Len(b))
      <4>1. PICK x \in 1 .. Len(a) : a[x] # b[x]
        BY <1>1, <1>3, <3>2 DEF Begins
      <4>2. x \in Bad
        BY <1>1, <4>1
      <4> QED
        BY <4>2
    <3> QED
      BY <3>1, <3>2
  <2>2. PICK k : k \in Bad /\ \A y \in Bad : k <= y
    <3>1. Min(Bad) \in Bad /\ \A y \in Bad : Min(Bad) <= y
      BY <2>1, MinOf
    <3> QED
      BY <3>1
  <2>3. k \in 1 .. Len(a) /\ (k > Len(b) \/ a[k] # b[k]) /\ k \in Nat
    BY <2>2
  <2>4. \A x \in 1 .. k - 1 : x <= Len(b) /\ a[x] = b[x]
    <3> SUFFICES ASSUME NEW x \in 1 .. k - 1 PROVE x <= Len(b) /\ a[x] = b[x]
      OBVIOUS
    <3>1. x \in Nat /\ x >= 1 /\ x <= Len(a) /\ ~(k <= x)
      BY <1>1, <2>3
    <3>2. x \notin Bad
      BY <2>2, <3>1
    <3> QED
      BY <1>1, <3>1, <3>2
  <2>5. k - 1 \in 0 .. Len(a) /\ k - 1 <= Len(b)
    <3>1. k - 1 # 0 => k - 1 \in 1 .. k - 1
      BY <2>3
    <3> QED
      BY <1>1, <2>3, <2>4, <3>1
  <2> HIDE DEF Bad
  <2>6. Part(a, k - 1) = Part(b, k - 1)
    BY <2>4, <2>5, PartsAgree
  <2>7. PICK p, c, u, v : /\ p = Part(a, k - 1) /\ c = Code(a[k])
                          /\ u = convertToId(a) /\ v = convertToId(b)
    OBVIOUS
  <2>8. p \in Seq(Chars) /\ c \in Seq(Chars) /\ Len(c) \in Nat \ {0} /\ u \in Seq(Chars) /\ v \in Seq(Chars)
    <3>1. Part(a, k - 1) \in Seq(Chars)
      BY <2>5, PartFacts
    <3>2. a[k] \in Chars
      BY <2>3
    <3>3. Code(a[k]) \in Seq(Chars) /\ Len(Code(a[k])) \in Nat \ {0}
      BY <3>2, CodeFacts
    <3> QED
      BY <1>1, <2>7, <3>1, <3>3
  <2>9. Begins(p \o c, u)
    <3>1. k \in 0 .. Len(a)
      BY <2>3
    <3>2. Part(a, k) = p \o c
      BY <2>3, <2>7, PartFacts
    <3>3. Begins(Part(a, k), convertToId(a))
      BY <3>1, PartBegins
    <3> QED
      BY <2>7, <3>2, <3>3
  <2>10. Begins(u, v)
    BY <1>3, <2>7
  <2>11. p \o c \in Seq(Chars)
    BY <2>8
  <2>12. Begins(p \o c, v)
    BY <2>8, <2>9, <2>10, <2>11, BeginsFacts
  <2>13. CASE k > Len(b)
    <3>1. k - 1 = Len(b)
      BY <1>1, <2>3, <2>5, <2>13
    <3>2. v = p
      BY <1>1, <2>6, <2>7, <3>1
    <3>3. Len(p \o c) = Len(p) + Len(c) /\ Len(p) \in Nat
      BY <2>8
    <3> QED
      BY <2>8, <2>12, <3>2, <3>3 DEF Begins
  <2>14. CASE ~(k > Len(b))
    <3>1. k \in 1 .. Len(b) /\ a[k] # b[k] /\ k \in 0 .. Len(b)
      BY <1>1, <2>3, <2>14
    <3>2. PICK d : d = Code(b[k])
      OBVIOUS
    <3>3. d \in Seq(Chars)
      BY <3>1, <3>2, CodeFacts
    <3>4. Begins(p \o d, v)
      <4>1. Part(b, k) = p \o d
        BY <2>6, <2>7, <3>1, <3>2, PartFacts
      <4>2. Begins(Part(b, k), convertToId(b))
        BY <3>1, PartBegins
      <4> QED
        BY <2>7, <4>1, <4>2
    <3>5. PICK x \in 1 .. Len(c) : x <= Len(d) /\ c[x] # d[x]
      <4>1. a[k] \in Chars /\ b[k] \in Chars
        BY <2>3, <3>1
      <4> QED
        BY <2>7, <3>1, <3>2, <4>1, CodesDiffer
    <3>6. /\ Len(p) + x \in 1 .. Len(p \o c) /\ (p \o c)[Len(p) + x] = c[x]
          /\ Len(p) + x \in 1 .. Len(p \o d) /\ (p \o d)[Len(p) + x] = d[x]
      BY <2>8, <3>3, <3>5
    <3>7. v[Len(p) + x] = c[x] /\ v[Len(p) + x] = d[x]
      BY <2>12, <3>4, <3>6 DEF Begins
    <3> QED
      BY <3>5, <3>7
  <2> QED
    BY <2>13, <2>14
<1> QED
  BY <1>1, <1>2, <1>3, PrefixIsBegins

-----------------------------------------------------------------------------
(* Spaces and case                                                          *)

\* A text is its characters, in their places.
LEMMA TextFacts ==
  ASSUME NEW t \in Seq(Chars)
  PROVE  Len(t) \in Nat /\ DOMAIN t = 1 .. Len(t) /\ t = [n \in 1 .. Len(t) |-> t[n]]
OBVIOUS

\* The end of a text, and a text backwards.
LEMMA TextEnd ==
  ASSUME NEW t \in Seq(Chars), NEW m \in 1 .. Len(t), NEW s, s = SubSeq(t, m, Len(t))
  PROVE  /\ s \in Seq(Chars) /\ Len(s) = (Len(t) - m) + 1
         /\ \A n \in 1 .. Len(s) : s[n] = t[(m + n) - 1]
<1>1. PICK n \in Nat : n = Len(t)
  BY TextFacts
<1>2. PICK k \in Nat : k = (n - m) + 1
  <2>1. (n - m) + 1 \in Nat
    BY <1>1
  <2> QED
    BY <2>1
<1>3. s = [x \in 1 .. k |-> t[(m + x) - 1]]
  BY <1>1, <1>2
<1>4. \A x \in 1 .. k : (m + x) - 1 \in 1 .. Len(t)
  BY <1>1, <1>2
<1>5. \A x \in 1 .. k : t[(m + x) - 1] \in Chars
  <2>1. \A y \in 1 .. Len(t) : t[y] \in Chars
    OBVIOUS
  <2> QED
    BY <1>4, <2>1, Zenon
<1>6. s \in Seq(Chars) /\ Len(s) = k
  BY <1>2, <1>3, <1>5
<1> QED
  BY <1>1, <1>2, <1>3, <1>6

LEMMA Backwards ==
  ASSUME NEW t \in Seq(Chars), NEW r, r = Reverse(t)
  PROVE  /\ r \in Seq(Chars) /\ Len(r) = Len(t)
         /\ \A n \in 1 .. Len(t) : r[n] = t[(Len(t) - n) + 1]
<1>1. PICK k \in Nat : k = Len(t)
  BY TextFacts
<1>2. r = [n \in 1 .. k |-> t[(k - n) + 1]]
  BY <1>1 DEF Reverse
<1>3. \A n \in 1 .. k : (k - n) + 1 \in 1 .. Len(t)
  BY <1>1
<1>4. \A n \in 1 .. k : t[(k - n) + 1] \in Chars
  BY <1>3
<1>5. r \in Seq(Chars) /\ Len(r) = k
  BY <1>1, <1>2, <1>4
<1> QED
  BY <1>1, <1>2, <1>5

\* A space, and what StripLeading looks for, the characters that are none.
Space == " "
Word(t) == {n \in 1 .. Len(t) : t[n] # Space}

LEMMA NothingStripped == StripLeading(<<>>) = <<>>
BY DEF StripLeading

\* A text loses the spaces before its first character that is none.
LEMMA LeadingStripped ==
  ASSUME NEW t \in Seq(Chars), NEW s, s = StripLeading(t)
  PROVE  /\ s \in Seq(Chars)
         /\ s # <<>> => s[1] # Space
         /\ (\E n \in 1 .. Len(t) : t[n] # Space) => Len(s) > 0 /\ s[Len(s)] = t[Len(t)]
         /\ t # <<>> /\ t[1] # Space => s = t
<1> DEFINE m == Min(Word(t))
<1>1. Len(t) \in Nat /\ (t # <<>> => 1 \in 1 .. Len(t))
  BY TextFacts
<1>2. s = IF Word(t) = {} THEN <<>> ELSE SubSeq(t, m, Len(t))
  BY DEF StripLeading, Word, Space
<1>3. CASE Word(t) = {}
  <2>1. s = <<>>
    BY <1>2, <1>3
  <2>2. \A n \in 1 .. Len(t) : t[n] = Space
    BY <1>3 DEF Word
  <2>3. s \in Seq(Chars)
    BY <2>1
  <2> QED
    BY <1>1, <2>1, <2>2, <2>3
<1>4. CASE Word(t) # {}
  <2>1. m \in Word(t) /\ \A y \in Word(t) : m <= y
    <3>1. Word(t) \in SUBSET Nat
      BY <1>1 DEF Word
    <3> QED
      BY <1>4, <3>1, MinOf
  <2>2. s = SubSeq(t, m, Len(t))
    BY <1>2, <1>4
  <2>3. m \in 1 .. Len(t) /\ t[m] # Space
    BY <2>1 DEF Word
  <2>4. t[1] # Space => m <= 1
    <3>1. 1 \in 1 .. Len(t)
      BY <1>1, <2>3
    <3> QED
      BY <2>1, <3>1 DEF Word
  <2> HIDE DEF m
  <2>5. /\ s \in Seq(Chars) /\ Len(s) = (Len(t) - m) + 1
        /\ \A n \in 1 .. Len(s) : s[n] = t[(m + n) - 1]
    BY <2>2, <2>3, TextEnd
  <2>6. Len(s) \in Nat \ {0} /\ 1 \in 1 .. Len(s) /\ Len(s) \in 1 .. Len(s)
    BY <1>1, <2>3, <2>5
  <2>7. (m + 1) - 1 = m /\ (m + Len(s)) - 1 = Len(t)
    BY <1>1, <2>3, <2>5
  <2>8. s[1] = t[m] /\ s[Len(s)] = t[Len(t)]
    BY <2>5, <2>6, <2>7
  <2>9. ASSUME t[1] # Space PROVE s = t
    <3>1. m = 1
      BY <1>1, <2>3, <2>4, <2>9
    <3>2. Len(s) = Len(t)
      BY <1>1, <2>5, <3>1
    <3>3. \A n \in 1 .. Len(t) : (m + n) - 1 = n
      BY <1>1, <3>1
    <3>4. \A n \in 1 .. Len(t) : s[n] = t[n]
      BY <2>5, <3>2, <3>3
    <3>5. s = [n \in 1 .. Len(s) |-> s[n]] /\ t = [n \in 1 .. Len(t) |-> t[n]]
      BY <2>5, TextFacts
    <3> QED
      BY <3>2, <3>4, <3>5
  <2> QED
    BY <2>3, <2>5, <2>6, <2>8, <2>9
<1> QED
  BY <1>3, <1>4

\* A text that begins with a character that is no space keeps it when it loses its spaces.
LEMMA FirstKept ==
  ASSUME NEW q \in Seq(Chars), q # <<>> => q[1] # Space
  PROVE  /\ Strip(q) \in Seq(Chars)
         /\ Strip(q) # <<>> => q # <<>> /\ Strip(q)[1] = q[1]
<1>1. PICK p : p = StripLeading(q)
  OBVIOUS
<1>2. PICK r : r = Reverse(p)
  OBVIOUS
<1>3. PICK s : s = StripLeading(r)
  OBVIOUS
<1>4. PICK w : w = Reverse(s)
  OBVIOUS
<1>5. Strip(q) = w
  BY <1>1, <1>2, <1>3, <1>4 DEF Strip
<1>6. p \in Seq(Chars)
  BY <1>1, LeadingStripped
<1>7. /\ r \in Seq(Chars) /\ Len(r) = Len(p)
      /\ \A n \in 1 .. Len(p) : r[n] = p[(Len(p) - n) + 1]
  BY <1>2, <1>6, Backwards
<1>8. s \in Seq(Chars) /\ ((\E n \in 1 .. Len(r) : r[n] # Space) => Len(s) > 0 /\ s[Len(s)] = r[Len(r)])
  BY <1>3, <1>7, LeadingStripped
<1>9. /\ w \in Seq(Chars) /\ Len(w) = Len(s)
      /\ \A n \in 1 .. Len(s) : w[n] = s[(Len(s) - n) + 1]
  BY <1>4, <1>8, Backwards
<1>10. CASE q = <<>>
  <2>1. p = <<>>
    BY <1>1, <1>10, NothingStripped
  <2>2. r = <<>>
    BY <1>7, <2>1
  <2>3. s = <<>>
    BY <1>3, <2>2, NothingStripped
  <2>4. w = <<>>
    BY <1>9, <2>3
  <2> QED
    BY <1>5, <1>9, <2>4
<1>11. CASE q # <<>>
  <2>1. p = q
    BY <1>1, <1>11, LeadingStripped
  <2>2. Len(q) \in Nat \ {0} /\ Len(s) \in Nat
    BY <1>8, <1>11, TextFacts
  <2>3. Len(q) \in 1 .. Len(q) /\ (Len(q) - Len(q)) + 1 = 1
    BY <2>2
  <2>4. r[Len(q)] = q[1] /\ Len(r) = Len(q) /\ Len(q) \in 1 .. Len(r)
    BY <1>7, <2>1, <2>3
  <2>5. Len(s) > 0 /\ s[Len(s)] = q[1]
    BY <1>8, <1>11, <2>4
  <2>6. 1 \in 1 .. Len(s) /\ (Len(s) - 1) + 1 = Len(s)
    BY <2>2, <2>5
  <2>7. w[1] = q[1]
    BY <1>9, <2>5, <2>6
  <2> QED
    BY <1>5, <1>9, <1>11, <2>7
<1> QED
  BY <1>10, <1>11

LEMMA LowerText ==
  ASSUME NEW t \in Seq(Chars)
  PROVE  /\ ToLower(t) \in Seq(Chars) /\ Len(ToLower(t)) = Len(t)
         /\ \A n \in 1 .. Len(t) : ToLower(t)[n] = lower[t[n]]
BY Assumptions DEF LowerAssumption, ToLower, Chars

LEMMA QueryTexts ==
  ASSUME NEW q \in Queries
  PROVE  q \in Seq(Chars) /\ (q # <<>> => q[1] # Space)
<1>1. PICK t \in Texts \union {searchLabel} : q = StripLeading(t)
  BY DEF Queries
<1>2. t \in Seq(Chars)
  BY <1>1, Assumptions DEF TextsAssumption, Chars
<1> QED
  BY <1>1, <1>2, LeadingStripped

-----------------------------------------------------------------------------
(* The pages the frame shows                                                *)

\* The frame is sent to pages that Search chose.
Chosen(p) == p = NoPage \/ \E section \in Sections, q \in Queries : p = PageFor(section, q)
ChosenInv == Chosen(doc.page) /\ Chosen(req)

LEMMA RequestChosen ==
  ASSUME NEW b \in BoxType, ~Throws(b)
  PROVE  Chosen(Request(b))
<1>1. b.searchIndex \in Sections /\ StripLeading(b.field) \in Queries
  BY DEF Throws, BoxType, Queries
<1> QED
  BY <1>1 DEF Chosen, Request

LEMMA SelectChosen ==
  ASSUME NEW b \in BoxType, OnSelectItem(b), Chosen(req)
  PROVE  Chosen(req')
BY RequestChosen DEF OnSelectItem

LEMMA ChosenStep ==
  ASSUME DSInv, ChosenInv, [Next]_vars
  PROVE  ChosenInv'
<1>1. box \in BoxType /\ Chosen(doc.page) /\ Chosen(req) /\ doc \in [page : Pages, open : SUBSET Nat]
  BY DEF DSInv, DSTypeOK, ChosenInv
<1>2. SUFFICES Chosen(doc'.page) /\ Chosen(req')
  BY DEF ChosenInv, Chosen, PageFor, NoPage
<1>3. CASE \E k \in Keys : KeyDown(k)
  <2>1. PICK k \in Keys : KeyDown(k)
    BY <1>3
  <2>2. CASE KeyInField(k)
    BY <1>1, <2>2 DEF KeyInField
  <2>3. CASE OnSearchSelectKey(k)
    <3>1. PICK b : OnSelectItem(b) /\ doc' = doc /\
                   (b = box \/ \E i \in 0 .. Cardinality(Sections) : b = [box EXCEPT !.searchIndex = i])
      <4>1. CASE /\ \/ k \in {"Down", "ShiftDown"} /\ box.searchIndex < Cardinality(Sections)
                    \/ k = "Up" /\ box.searchIndex > 0
                 /\ OnSelectItem([box EXCEPT !.searchIndex = @ + (IF k = "Up" THEN -1 ELSE 1)])
        <5>1. PICK i : i = box.searchIndex + (IF k = "Up" THEN -1 ELSE 1)
          OBVIOUS
        <5>2. i \in 0 .. Cardinality(Sections)
          BY <1>1, <4>1, <5>1, SectionsCount DEF BoxType
        <5>3. OnSelectItem([box EXCEPT !.searchIndex = i])
          BY <4>1, <5>1
        <5> QED
          BY <2>3, <5>2, <5>3 DEF OnSearchSelectKey
      <4>2. CASE OnSelectItem(box)
        BY <2>3, <4>2 DEF OnSearchSelectKey
      <4> QED
        BY <2>3, <4>1, <4>2, Zenon DEF OnSearchSelectKey
    <3>2. b \in BoxType
      BY <1>1, <3>1 DEF BoxType
    <3> QED
      BY <1>1, <3>1, <3>2, SelectChosen
  <2>4. CASE Navigate(k)
    BY <1>1, <2>4 DEF Navigate
  <2>5. CASE Toggle(focus.i)
    BY <1>1, <2>5 DEF Toggle
  <2>6. CASE FollowLink
    BY <2>6 DEF FollowLink, Document, Chosen
  <2> QED
    BY <2>1, <2>2, <2>3, <2>4, <2>5, <2>6 DEF KeyDown
<1>4. CASE KeyUp
  BY <1>1, <1>4 DEF KeyUp, OnSearchFieldChange
<1>5. CASE \E i \in Items(doc) : ClickResult(i)
  BY <1>1, <1>5 DEF ClickResult, Toggle
<1>6. CASE \E i \in Sections : ClickSelectItem(i)
  <2>1. PICK i \in Sections : ClickSelectItem(i)
    BY <1>6
  <2>2. PICK c : c = Refocus(box, focus, SelectItem(i))
    OBVIOUS
  <2>3. c \in BoxType /\ i \in 0 .. Cardinality(Sections)
    BY <1>1, <2>2, RefocusFacts, SectionsCount
  <2>4. PICK b : b = [c EXCEPT !.searchIndex = i]
    OBVIOUS
  <2>5. b \in BoxType
    BY <2>3, <2>4 DEF BoxType
  <2>6. OnSelectItem(b) /\ doc' = doc
    BY <2>1, <2>2, <2>4 DEF ClickSelectItem
  <2> QED
    BY <1>1, <2>5, <2>6, SelectChosen
<1>7. CASE SearchTimer
  BY <1>1, <1>7, RequestChosen DEF SearchTimer
<1>8. CASE FrameLoaded
  BY <1>1, <1>8 DEF FrameLoaded, Document, Chosen
<1>9. CASE \/ ClickField \/ ClickElsewhere \/ ClickClose \/ OnSearchSelectShow \/ OnSearchSelectHide
           \/ CloseSelectionWindow \/ UNCHANGED vars
  BY <1>1, <1>9 DEF ClickField, ClickElsewhere, ClickClose, OnSearchSelectShow, OnSearchSelectHide,
     CloseSelectionWindow, vars
<1> QED
  BY <1>3, <1>4, <1>5, <1>6, <1>7, <1>8, <1>9 DEF Next

-----------------------------------------------------------------------------
(* What a page shows is what its section has                                *)

LEMMA ListedContained ==
  ASSUME NEW section \in Sections, NEW c
  PROVE  LET index == indexSectionsWithContent[section]
         IN  /\ Contains(index, c) <=> c \in ToSet(index)
             /\ c \in ToSet(index) => c \in Chars /\ c # NoChar
<1> DEFINE index == indexSectionsWithContent[section]
<1>1. index \in Seq(Chars \ {NoChar})
  BY Assumptions DEF DataAssumption, Chars
<1> HIDE DEF index
<1>2. DOMAIN index = 1 .. Len(index) /\ \A n \in 1 .. Len(index) : index[n] \in Chars \ {NoChar}
  BY <1>1
<1>3. Contains(index, c) <=> c \in ToSet(index)
  BY <1>2 DEF Contains, ToSet
<1>4. c \in ToSet(index) => c \in Chars \ {NoChar}
  BY <1>2 DEF ToSet
<1> QED
  BY <1>3, <1>4 DEF index

\* The page of a query that is not empty: it is of the query's first character, if that is listed.
LEMMA PageOfQuery ==
  ASSUME NEW section \in Sections, NEW q \in Queries, Strip(q) # <<>>,
         NEW l, l = ToLower(Strip(q))
  PROVE  /\ l \in Seq(Chars) /\ Len(l) > 0
         /\ PageFor(section, q) =
              [section |-> section, query |-> q,
               char |-> IF l[1] \in ToSet(indexSectionsWithContent[section]) THEN l[1] ELSE NoChar]
<1>1. q \in Seq(Chars) /\ (q # <<>> => q[1] # Space)
  BY QueryTexts
<1>2. Strip(q) \in Seq(Chars) /\ q # <<>> /\ Strip(q)[1] = q[1]
  BY <1>1, FirstKept
<1>3. PICK s : s = Strip(q)
  OBVIOUS
<1>4. s \in Seq(Chars) /\ s # <<>> /\ s[1] = q[1] /\ l = ToLower(s)
  BY <1>2, <1>3
<1>5. Len(s) \in Nat \ {0} /\ 1 \in 1 .. Len(s)
  BY <1>4, TextFacts
<1>6. l \in Seq(Chars) /\ Len(l) = Len(s) /\ l[1] = lower[s[1]]
  BY <1>4, <1>5, LowerText
<1>7. l[1] = lower[q[1]] /\ Len(l) > 0
  BY <1>4, <1>5, <1>6
<1>8. PageFor(section, q) =
        [section |-> section, query |-> q,
         char |-> IF Contains(indexSectionsWithContent[section], l[1]) THEN l[1] ELSE NoChar]
  BY <1>2, <1>7 DEF PageFor
<1> QED
  BY <1>6, <1>7, <1>8, ListedContained

\* A row of a page matches a text when its name begins with it, case aside, and then the page is
\* that of the text's first character.
LEMMA RowMatches ==
  ASSUME NEW section \in Sections, NEW c \in ToSet(indexSectionsWithContent[section]),
         NEW l \in Seq(Chars), Len(l) > 0,
         NEW n \in 1 .. Len(searchData[section][c]),
         NEW row, row = searchData[section][c][n]
  PROVE  /\ IsPrefix(convertToId(l), row.id) <=> IsPrefix(l, ToLower(row.name))
         /\ IsPrefix(l, ToLower(row.name)) => l[1] = c
<1>1. /\ row.name \in Seq(Chars) /\ row.name # <<>> /\ lower[row.name[1]] = c
      /\ row.id = convertToId(ToLower(row.name))
  BY RowsListed DEF Chars
<1>2. PICK name : name = row.name
  OBVIOUS
<1>3. Len(name) \in Nat \ {0} /\ 1 \in 1 .. Len(name) /\ name \in Seq(Chars)
  BY <1>1, <1>2, TextFacts
<1>4. PICK m : m = ToLower(name)
  OBVIOUS
<1>5. m \in Seq(Chars) /\ Len(m) = Len(name) /\ m[1] = c
  BY <1>1, <1>2, <1>3, <1>4, LowerText
<1>6. IsPrefix(convertToId(l), convertToId(m)) <=> IsPrefix(l, m)
  BY <1>5, EncodedPrefix
<1>7. ASSUME IsPrefix(l, m) PROVE l[1] = c
  <2>1. Begins(l, m)
    BY <1>5, <1>7, PrefixIsBegins
  <2>2. 1 \in 1 .. Len(l)
    BY TextFacts
  <2> QED
    BY <1>5, <2>1, <2>2 DEF Begins
<1> QED
  BY <1>1, <1>2, <1>4, <1>6, <1>7

\* The rows a section has, on all its pages, and those whose names begin with a text.
RowsIn(section) ==
  UNION {ToSet(searchData[section][c]) : c \in ToSet(indexSectionsWithContent[section])}

LEMMA RowIn ==
  ASSUME NEW section \in Sections, NEW row
  PROVE  row \in RowsIn(section) <=>
           \E c \in ToSet(indexSectionsWithContent[section]) :
             \E n \in 1 .. Len(searchData[section][c]) : row = searchData[section][c][n]
<1>1. \A c \in ToSet(indexSectionsWithContent[section]) :
        DOMAIN searchData[section][c] = 1 .. Len(searchData[section][c])
  BY RowsListed
<1> QED
  BY <1>1 DEF RowsIn, ToSet

LEMMA ExactPage ==
  ASSUME NEW section \in Sections, NEW q \in Queries, Strip(q) # <<>>,
         NEW p \in Pages, p = PageFor(section, q)
  PROVE  {RowsOf(p)[i + 1].name : i \in Matches[p]} = Answer[section][q]
<1> DEFINE index == ToSet(indexSectionsWithContent[section])
           Found == {r \in RowsIn(section) : IsPrefix(ToLower(Strip(q)), ToLower(r.name))}
<1>1. PICK l : l = ToLower(Strip(q))
  OBVIOUS
<1>2. l \in Seq(Chars) /\ Len(l) > 0
      /\ p = [section |-> section, query |-> q, char |-> IF l[1] \in index THEN l[1] ELSE NoChar]
  BY <1>1, PageOfQuery
<1>3. Answer[section][q] = {r.name : r \in Found}
  <2> DEFINE Of(e, t) ==
        {row.name : row \in {r \in UNION {ToSet(searchData[e][c]) :
                                         c \in ToSet(indexSectionsWithContent[e])} :
                              IsPrefix(ToLower(Strip(t)), ToLower(r.name))}}
  <2>1. Answer = [e \in Sections |-> [t \in Queries |-> Of(e, t)]]
    BY Zenon DEF Answer
  <2>2. Of(section, q) = {r.name : r \in Found}
    BY Zenon DEF RowsIn
  <2> HIDE DEF Of, Found
  <2>3. Answer[section][q] = Of(section, q)
    BY <2>1
  <2> QED
    BY <2>2, <2>3, Zenon
<1>4. Matches[p] = {i \in 0 .. Len(RowsOf(p)) - 1 : IsPrefix(convertToId(l), RowsOf(p)[i + 1].id)}
  BY <1>1, <1>2 DEF Matches
<1>5. \A c \in index : c \in Chars /\ c # NoChar /\ Contains(indexSectionsWithContent[section], c)
  BY ListedContained
<1> SUFFICES /\ \A i \in Matches[p] : RowsOf(p)[i + 1] \in Found
             /\ \A r \in Found : \E i \in Matches[p] : r = RowsOf(p)[i + 1]
  <2> DEFINE Shows == {RowsOf(p)[i + 1].name : i \in Matches[p]}
  <2>1. \A x : x \in Shows <=> \E i \in Matches[p] : x = RowsOf(p)[i + 1].name
    BY Zenon
  <2>2. \A x : x \in Answer[section][q] <=> \E r \in Found : x = r.name
    BY <1>3, Zenon
  <2> HIDE DEF Shows, Found
  <2>3. /\ \A i \in Matches[p] : RowsOf(p)[i + 1] \in Found
        /\ \A r \in Found : \E i \in Matches[p] : r = RowsOf(p)[i + 1]
    BY DEF Found
  <2>4. \A x : x \in Shows <=> x \in Answer[section][q]
    <3>1. ASSUME NEW x \in Shows PROVE x \in Answer[section][q]
      <4>1. PICK i \in Matches[p] : x = RowsOf(p)[i + 1].name
        BY <2>1
      <4>2. RowsOf(p)[i + 1] \in Found
        BY <2>3
      <4> QED
        BY <2>2, <4>1, <4>2
    <3>2. ASSUME NEW x \in Answer[section][q] PROVE x \in Shows
      <4>1. PICK r \in Found : x = r.name
        BY <2>2
      <4>2. PICK i \in Matches[p] : r = RowsOf(p)[i + 1]
        BY <2>3
      <4> QED
        BY <2>1, <4>1, <4>2
    <3> QED
      BY <3>1, <3>2
  <2>5. \A A, B : (\A x : x \in A <=> x \in B) => A = B
    OBVIOUS
  <2>6. Shows = Answer[section][q]
    BY <2>4, <2>5, Zenon
  <2> QED
    BY <2>6 DEF Shows
<1> HIDE DEF index
<1>6. CASE l[1] \in index
  <2>1. PICK rows : rows = searchData[section][l[1]]
    OBVIOUS
  <2>2. RowsOf(p) = rows
    BY <1>2, <1>5, <1>6, <2>1 DEF RowsOf
  <2>3. Len(rows) \in Nat
    BY <1>6, <2>1, RowsListed DEF index
  <2>4. ASSUME NEW i \in Matches[p] PROVE rows[i + 1] \in Found
    <3>1. i + 1 \in 1 .. Len(rows) /\ IsPrefix(convertToId(l), rows[i + 1].id)
      BY <1>4, <2>2, <2>3, <2>4
    <3>2. IsPrefix(l, ToLower(rows[i + 1].name))
      BY <1>2, <1>6, <2>1, <3>1, RowMatches DEF index
    <3>3. rows[i + 1] \in RowsIn(section)
      BY <1>6, <2>1, <3>1, RowIn DEF index
    <3> QED
      BY <1>1, <3>2, <3>3
  <2>5. ASSUME NEW r \in Found PROVE \E i \in Matches[p] : r = rows[i + 1]
    <3>1. IsPrefix(l, ToLower(r.name))
      BY <1>1
    <3>2. PICK c \in index : \E n \in 1 .. Len(searchData[section][c]) : r = searchData[section][c][n]
      BY RowIn DEF index
    <3>3. PICK n \in 1 .. Len(searchData[section][c]) : r = searchData[section][c][n]
      BY <3>2
    <3>4. l[1] = c /\ IsPrefix(convertToId(l), r.id)
      BY <1>2, <3>1, <3>2, <3>3, RowMatches DEF index
    <3>5. n \in 1 .. Len(rows) /\ r = rows[n]
      BY <2>1, <3>3, <3>4
    <3>6. n - 1 \in 0 .. Len(rows) - 1 /\ (n - 1) + 1 = n
      BY <2>3, <3>5
    <3>7. n - 1 \in Matches[p]
      BY <1>4, <2>2, <3>4, <3>5, <3>6
    <3> QED
      BY <3>5, <3>6, <3>7
  <2> QED
    BY <2>2, <2>4, <2>5
<1>7. CASE l[1] \notin index
  <2>1. RowsOf(p) = <<>>
    BY <1>2, <1>7 DEF RowsOf
  <2>2. Matches[p] = {}
    BY <1>4, <2>1
  <2>3. ASSUME NEW r \in Found PROVE FALSE
    <3>1. IsPrefix(l, ToLower(r.name))
      BY <1>1
    <3>2. PICK c \in index : \E n \in 1 .. Len(searchData[section][c]) : r = searchData[section][c][n]
      BY RowIn DEF index
    <3> QED
      BY <1>2, <1>7, <3>1, <3>2, RowMatches DEF index
  <2> QED
    BY <2>2, <2>3
<1> QED
  BY <1>6, <1>7

LEMMA ChosenExact == ASSUME DSInv, ChosenInv PROVE ResultsExact
<1> SUFFICES ASSUME doc.page.section \in Sections, Strip(doc.page.query) # <<>>
             PROVE  {Row(doc, i).name : i \in Shown(doc)} = Answer[doc.page.section][doc.page.query]
  BY Zenon DEF ResultsExact
<1>1. doc.page \in Pages /\ doc.page # NoPage
  BY NoPageIsPage DEF DSInv, DSTypeOK
<1>2. PICK section \in Sections, q \in Queries : doc.page = PageFor(section, q)
  BY <1>1 DEF ChosenInv, Chosen
<1>3. doc.page.section = section /\ doc.page.query = q
  BY <1>2 DEF PageFor
<1>4. {RowsOf(doc.page)[i + 1].name : i \in Matches[doc.page]} = Answer[section][q]
  BY <1>1, <1>2, <1>3, ExactPage
<1> QED
  BY <1>3, <1>4, Zenon DEF Row, Rows, Shown

(* A results page shows the symbols of its section whose names begin with  *)
(* its query, case and outer spaces aside, no more and no less.            *)
THEOREM ResultsAreExact == Spec => []ResultsExact
<1>1. Init => ChosenInv
  BY DEF Init, ChosenInv, Chosen, Document
<1>2. DSInv /\ ChosenInv /\ [Next]_vars => ChosenInv'
  BY ChosenStep
<1>3. DSInv /\ ChosenInv => ResultsExact
  BY ChosenExact
<1> QED
  BY <1>1, <1>2, <1>3, SearchInvariance, PTL DEF Spec
=============================================================================
