--------------------------- MODULE TerminalProofs ----------------------------
(***************************************************************************)
(* What Terminal promises, for windows of any size and whatever is printed. *)
(***************************************************************************)
EXTENDS Terminal, WellFoundedInduction, TLAPS

USE WindowAssumption

-----------------------------------------------------------------------------
(* Screens                                                                  *)

(* Cells and display are functions, of cells that are marked or not. *)
Grid(term) ==
  /\ term = [p \in Cells |-> term[p]]
  /\ \A p \in Cells : term[p].mod \in BOOLEAN

Image(shown) == shown = [p \in Window |-> shown[p]]

\* A screen, also between two steps of vga_writechar, when the cursor may be one place
\* outside.  Types of cells and colours are a matter of their own: see TermInv.
Screen(s) ==
  /\ s = [cx |-> s.cx, cy |-> s.cy, cs |-> s.cs, term |-> s.term, shown |-> s.shown]
  /\ Grid(s.term)
  /\ Image(s.shown)
  /\ s.cx \in 0 .. ww
  /\ s.cy \in 0 .. wh

Inside(s) == s.cx \in 0 .. ww - 1 /\ s.cy \in 0 .. wh - 1

LEMMA Places ==
  /\ \A x, y : <<x, y>> \in Cells <=> x \in 0 .. ww - 1 /\ y \in 0 .. wh
  /\ \A x, y : <<x, y>> \in Window <=> x \in 0 .. ww - 1 /\ y \in 0 .. wh - 1
  /\ \A x, y : <<x, y>> \in Upper <=> x \in 0 .. ww - 1 /\ y \in 0 .. wh - 2
  /\ \A p \in Cells : p = <<p[1], p[2]>>
  /\ Upper \subseteq Window /\ Window \subseteq Cells
BY DEF Cells, Window, Upper

(* A screen is made of five parts. *)
Made(cx, cy, cs, term, shown) ==
  [cx |-> cx, cy |-> cy, cs |-> cs, term |-> term, shown |-> shown]

LEMMA MadeScreen ==
  ASSUME NEW x \in 0 .. ww, NEW y \in 0 .. wh, NEW cs, NEW term, NEW shown,
         Grid(term), Image(shown)
  PROVE  LET t == Made(x, y, cs, term, shown) IN
         /\ Screen(t)
         /\ t.cx = x /\ t.cy = y /\ t.cs = cs /\ t.term = term /\ t.shown = shown
<1> DEFINE t == Made(x, y, cs, term, shown)
<1>1. t.cx = x /\ t.cy = y /\ t.cs = cs /\ t.term = term /\ t.shown = shown
  BY DEF Made
<1>2. t = [cx |-> t.cx, cy |-> t.cy, cs |-> t.cs, term |-> t.term, shown |-> t.shown]
  BY <1>1, Zenon DEF Made
<1> HIDE DEF t
<1>3. Screen(t)
  BY <1>1, <1>2 DEF Screen, Grid, Image
<1> QED BY <1>1, <1>3 DEF t

LEMMA CursorShape ==
  ASSUME NEW s, Screen(s), s.cx \in 0 .. ww - 1
  PROVE  LET t == Cursor(s) IN
         /\ Screen(t) /\ t.cx = s.cx /\ t.cy = s.cy /\ t.shown = s.shown
         /\ \A p \in Cells : p # <<s.cx, s.cy>> => t.term[p] = s.term[p]
         /\ t.term[<<s.cx, s.cy>>].mod = TRUE
<1> DEFINE here == <<s.cx, s.cy>>
           cell == Over(s.term[here], IF s.cs THEN Underscore ELSE Space)
           cells == [s.term EXCEPT ![here] = cell]
           t == Cursor(s)
<1>1. here \in Cells
  BY Places DEF Screen, Grid, Image
<1>2. cell.mod = TRUE
  BY DEF Over
<1>3. t = [s EXCEPT !.term = cells]
  BY <1>1 DEF Cursor, Screen, Grid, Image
<1> HIDE DEF cell
<1>4. \A p \in Cells : cells[p] = IF p = here THEN cell ELSE s.term[p]
  BY DEF Screen, Grid, Image
<1>5. cells = [p \in Cells |-> cells[p]]
  BY DEF Screen, Grid, Image
<1> HIDE DEF cells, here
<1>6. \A p \in Cells : cells[p].mod \in BOOLEAN
  BY <1>2, <1>4 DEF Screen, Grid, Image
<1>7. t = Made(s.cx, s.cy, s.cs, cells, s.shown)
  BY <1>3 DEF Screen, Grid, Image, Made
<1>8. /\ Screen(t) /\ t.cx = s.cx /\ t.cy = s.cy
      /\ t.term = cells /\ t.shown = s.shown
  BY <1>5, <1>6, <1>7, MadeScreen DEF Screen, Grid, Image
<1> QED BY <1>1, <1>2, <1>4, <1>8 DEF here

LEMMA PaintedShape ==
  ASSUME NEW s, Screen(s)
  PROVE  LET t == Painted(s) IN
         /\ Screen(t) /\ t.cx = s.cx /\ t.cy = s.cy
         /\ \A p \in Cells : t.term[p] = Flagged(s.term[p], s.term[p].mod /\ p \notin Window)
         /\ \A p \in Window :
              t.shown[p] = IF s.term[p].mod THEN Look(s.term[p]) ELSE s.shown[p]
<1> DEFINE shown == [p \in Window |-> IF s.term[p].mod THEN Look(s.term[p]) ELSE s.shown[p]]
           cells == [p \in Cells |-> Flagged(s.term[p], s.term[p].mod /\ p \notin Window)]
           t == Painted(s)
<1>1. \A p \in Cells : cells[p].mod \in BOOLEAN
  BY DEF Flagged
<1>2. /\ \A p \in Cells : cells[p] = Flagged(s.term[p], s.term[p].mod /\ p \notin Window)
      /\ \A p \in Window : shown[p] = IF s.term[p].mod THEN Look(s.term[p]) ELSE s.shown[p]
      /\ cells = [p \in Cells |-> cells[p]]
      /\ shown = [p \in Window |-> shown[p]]
  OBVIOUS
<1>3. t = [s EXCEPT !.shown = shown, !.term = cells]
  BY DEF Painted
<1> HIDE DEF shown, cells
<1>4. t = Made(s.cx, s.cy, s.cs, cells, shown)
  <2>1. t = [[s EXCEPT !.shown = shown] EXCEPT !.term = cells]
    BY <1>3
  <2>2. [s EXCEPT !.shown = shown] = Made(s.cx, s.cy, s.cs, s.term, shown)
    BY DEF Screen, Grid, Image, Made
  <2>3. [Made(s.cx, s.cy, s.cs, s.term, shown) EXCEPT !.term = cells] = Made(s.cx, s.cy, s.cs, cells, shown)
    BY DEF Made
  <2> QED BY <2>1, <2>2, <2>3, Zenon
<1>5. /\ Screen(t) /\ t.cx = s.cx /\ t.cy = s.cy
      /\ t.term = cells /\ t.shown = shown
  BY <1>1, <1>2, <1>4, MadeScreen DEF Screen, Grid, Image
<1> QED BY <1>2, <1>5

LEMMA RedrawShape ==
  ASSUME NEW s, Screen(s), s.cx \in 0 .. ww - 1
  PROVE  LET t == Redraw(s)
             here == <<s.cx, s.cy>>
         IN
         /\ Screen(t) /\ t.cx = s.cx /\ t.cy = s.cy
         /\ \A p \in Cells : p # here =>
              t.term[p] = Flagged(s.term[p], s.term[p].mod /\ p \notin Window)
         /\ \A p \in Window : p # here =>
              t.shown[p] = IF s.term[p].mod THEN Look(s.term[p]) ELSE s.shown[p]
<1> DEFINE c == Cursor(s)
<1>1. /\ Screen(c) /\ c.cx = s.cx /\ c.cy = s.cy /\ c.shown = s.shown
      /\ \A p \in Cells : p # <<s.cx, s.cy>> => c.term[p] = s.term[p]
  BY CursorShape
<1>2. Redraw(s) = Painted(c)
  BY DEF Redraw
<1> HIDE DEF c
<1>3. LET t == Painted(c) IN
         /\ Screen(t) /\ t.cx = c.cx /\ t.cy = c.cy
         /\ \A p \in Cells : t.term[p] = Flagged(c.term[p], c.term[p].mod /\ p \notin Window)
         /\ \A p \in Window :
              t.shown[p] = IF c.term[p].mod THEN Look(c.term[p]) ELSE c.shown[p]
  BY <1>1, PaintedShape
<1> QED BY <1>1, <1>2, <1>3, Places, Zenon

(* t is s with all rows but the last moved up. *)
Scrolled(s, t) ==
  LET below(p) == s.term[<<p[1], p[2] + 1>>] IN
  /\ \A p \in Cells : t.term[p] = IF p \in Upper THEN Flagged(below(p), FALSE) ELSE s.term[p]
  /\ \A p \in Window :
       t.shown[p] = IF p \notin Upper THEN Look(Over(s.term[p], Space))
                    ELSE IF s.term[p].c # below(p).c THEN Look(below(p)) ELSE s.shown[p]

LEMMA ScrollShape ==
  ASSUME NEW s, Screen(s)
  PROVE  LET t == Scroll(s) IN Screen(t) /\ t.cx = s.cx /\ t.cy = s.cy /\ Scrolled(s, t)
<1> DEFINE below(p) == s.term[<<p[1], p[2] + 1>>]
           shown == [p \in Window |->
              IF p \notin Upper THEN Look(Over(s.term[p], Space))
              ELSE IF s.term[p].c # below(p).c THEN Look(below(p)) ELSE s.shown[p]]
           cells == [p \in Cells |->
              IF p \in Upper THEN Flagged(below(p), FALSE) ELSE s.term[p]]
           t == Scroll(s)
<1>1. \A p \in Cells : cells[p].mod \in BOOLEAN
  BY DEF Flagged, Screen, Grid, Image
<1>2. /\ \A p \in Cells : cells[p] = IF p \in Upper THEN Flagged(below(p), FALSE) ELSE s.term[p]
      /\ \A p \in Window : shown[p] =
              IF p \notin Upper THEN Look(Over(s.term[p], Space))
              ELSE IF s.term[p].c # below(p).c THEN Look(below(p)) ELSE s.shown[p]
      /\ cells = [p \in Cells |-> cells[p]]
      /\ shown = [p \in Window |-> shown[p]]
  BY Zenon
<1>3. t = [s EXCEPT !.shown = shown, !.term = cells]
  BY DEF Scroll
<1> HIDE DEF shown, cells
<1>4. t = Made(s.cx, s.cy, s.cs, cells, shown)
  <2>1. t = [[s EXCEPT !.shown = shown] EXCEPT !.term = cells]
    BY <1>3
  <2>2. [s EXCEPT !.shown = shown] = Made(s.cx, s.cy, s.cs, s.term, shown)
    BY DEF Screen, Grid, Image, Made
  <2>3. [Made(s.cx, s.cy, s.cs, s.term, shown) EXCEPT !.term = cells]
          = Made(s.cx, s.cy, s.cs, cells, shown)
    BY DEF Made
  <2> QED BY <2>1, <2>2, <2>3, Zenon
<1>5. /\ Screen(t) /\ t.cx = s.cx /\ t.cy = s.cy
      /\ t.term = cells /\ t.shown = shown
  BY <1>1, <1>2, <1>4, MadeScreen DEF Screen, Grid, Image
<1> QED BY <1>2, <1>5, Zenon DEF Scrolled

(* The cursor moves, and the cells become others. *)
Moved(s, x, y, cells) == [s EXCEPT !.cx = x, !.cy = y, !.term = cells]

LEMMA MovedShape ==
  ASSUME NEW s, Screen(s), NEW x \in 0 .. ww, NEW y \in 0 .. wh, NEW cells, Grid(cells)
  PROVE  LET t == Moved(s, x, y, cells) IN
         Screen(t) /\ t.cx = x /\ t.cy = y /\ t.term = cells /\ t.shown = s.shown
<1> DEFINE t == Moved(s, x, y, cells)
<1>1. t = [[[s EXCEPT !.cx = x] EXCEPT !.cy = y] EXCEPT !.term = cells]
  BY DEF Moved
<1>2. [s EXCEPT !.cx = x] = Made(x, s.cy, s.cs, s.term, s.shown)
  BY DEF Screen, Grid, Image, Made
<1>3. [Made(x, s.cy, s.cs, s.term, s.shown) EXCEPT !.cy = y] = Made(x, y, s.cs, s.term, s.shown)
  BY DEF Made
<1>4. [Made(x, y, s.cs, s.term, s.shown) EXCEPT !.term = cells] = Made(x, y, s.cs, cells, s.shown)
  BY DEF Made
<1>5. t = Made(x, y, s.cs, cells, s.shown)
  BY <1>1, <1>2, <1>3, <1>4, Zenon
<1> QED BY <1>5, MadeScreen DEF Screen, Grid, Image

LEMMA CursorMoved ==
  ASSUME NEW s, Screen(s), NEW x, NEW y
  PROVE  [s EXCEPT !.cx = x, !.cy = y] = Moved(s, x, y, s.term)
<1>1. [s EXCEPT !.cx = x] = Made(x, s.cy, s.cs, s.term, s.shown)
  BY DEF Screen, Grid, Image, Made
<1>2. [Made(x, s.cy, s.cs, s.term, s.shown) EXCEPT !.cy = y] = Made(x, y, s.cs, s.term, s.shown)
  BY DEF Made
<1>3. [Made(x, y, s.cs, s.term, s.shown) EXCEPT !.term = s.term]
        = Made(x, y, s.cs, s.term, s.shown)
  BY DEF Made
<1>4. /\ [s EXCEPT !.cx = x, !.cy = y] = [[s EXCEPT !.cx = x] EXCEPT !.cy = y]
      /\ Moved(s, x, y, s.term) = [[[s EXCEPT !.cx = x] EXCEPT !.cy = y] EXCEPT !.term = s.term]
  BY DEF Moved
<1> QED BY <1>1, <1>2, <1>3, <1>4, Zenon

(* One cell is stored, and the cursor moves in its row. *)
Stored(s, x, cell) == [s EXCEPT !.cx = x, !.term[<<s.cx, s.cy>>] = cell]

LEMMA CellStored ==
  ASSUME NEW s, Screen(s), NEW x, NEW cell
  PROVE  Stored(s, x, cell) = Moved(s, x, s.cy, [s.term EXCEPT ![<<s.cx, s.cy>>] = cell])
<1> DEFINE here == <<s.cx, s.cy>>
           cells == [s.term EXCEPT ![here] = cell]
<1>1. [s EXCEPT !.cx = x] = Made(x, s.cy, s.cs, s.term, s.shown)
  BY DEF Screen, Grid, Image, Made
<1>2. [Made(x, s.cy, s.cs, s.term, s.shown) EXCEPT !.term[here] = cell]
        = Made(x, s.cy, s.cs, cells, s.shown)
  BY DEF Made
<1>3. [Made(x, s.cy, s.cs, s.term, s.shown) EXCEPT !.cy = s.cy]
        = Made(x, s.cy, s.cs, s.term, s.shown)
  BY DEF Made
<1> HIDE DEF here
<1>4. [Made(x, s.cy, s.cs, s.term, s.shown) EXCEPT !.term = cells]
        = Made(x, s.cy, s.cs, cells, s.shown)
  BY DEF Made
<1>5. /\ Stored(s, x, cell) = [[s EXCEPT !.cx = x] EXCEPT !.term[here] = cell]
      /\ Moved(s, x, s.cy, cells)
           = [[[s EXCEPT !.cx = x] EXCEPT !.cy = s.cy] EXCEPT !.term = cells]
  BY DEF Stored, Moved, here
<1>6. Stored(s, x, cell) = Moved(s, x, s.cy, cells)
  BY <1>1, <1>2, <1>3, <1>4, <1>5, Zenon
<1> QED BY <1>6 DEF here

LEMMA NewLineShape ==
  ASSUME NEW s, Screen(s), Inside(s)
  PROVE  LET t == NewLine(s)
             here == <<0, s.cy + 1>>
             cell(p) == IF p[2] = s.cy /\ p[1] >= s.cx THEN Over(s.term[p], Space) ELSE s.term[p]
         IN
         /\ Screen(t) /\ t.cx = 0 /\ t.cy = s.cy + 1
         /\ \A p \in Cells : p # here =>
              t.term[p] = Flagged(cell(p), cell(p).mod /\ p \notin Window)
         /\ \A p \in Window : p # here =>
              t.shown[p] = IF cell(p).mod THEN Look(cell(p)) ELSE s.shown[p]
<1> DEFINE cell(p) == IF p[2] = s.cy /\ p[1] >= s.cx THEN Over(s.term[p], Space) ELSE s.term[p]
           cells == [p \in Cells |-> cell(p)]
           y == s.cy + 1
           b == Moved(s, 0, y, cells)
<1>1. 0 \in 0 .. ww /\ y \in 0 .. wh /\ 0 \in 0 .. ww - 1
  BY DEF Inside
<1>2. cells = [p \in Cells |-> cells[p]] /\ \A p \in Cells : cells[p] = cell(p)
  BY Zenon
<1>3. Grid(cells)
  BY <1>2 DEF Over, Screen, Grid, Image
<1>4. NewLine(s) = Redraw(b)
  BY Zenon DEF NewLine, Moved
<1> HIDE DEF cells, y
<1>5. Screen(b) /\ b.cx = 0 /\ b.cy = y /\ b.term = cells /\ b.shown = s.shown
  BY <1>1, <1>3, MovedShape
<1> HIDE DEF b
<1>6. LET t == Redraw(b)
          here == <<b.cx, b.cy>>
      IN
      /\ Screen(t) /\ t.cx = b.cx /\ t.cy = b.cy
      /\ \A p \in Cells : p # here =>
           t.term[p] = Flagged(b.term[p], b.term[p].mod /\ p \notin Window)
      /\ \A p \in Window : p # here =>
           t.shown[p] = IF b.term[p].mod THEN Look(b.term[p]) ELSE b.shown[p]
  BY <1>1, <1>5, RedrawShape
<1> HIDE DEF cell
<1>7. LET t == Redraw(b) IN
      /\ Screen(t) /\ t.cx = 0 /\ t.cy = y
      /\ \A p \in Cells : p # <<0, y>> =>
           t.term[p] = Flagged(cell(p), cell(p).mod /\ p \notin Window)
      /\ \A p \in Window : p # <<0, y>> =>
           t.shown[p] = IF cell(p).mod THEN Look(cell(p)) ELSE s.shown[p]
  BY <1>2, <1>5, <1>6, Places, Zenon
<1> QED BY <1>4, <1>7, Zenon DEF cell, y

LEMMA StoredShape ==
  ASSUME NEW s, Screen(s), NEW x \in 0 .. ww, NEW cell, cell.mod \in BOOLEAN
  PROVE  LET here == <<s.cx, s.cy>>
             t == Stored(s, x, cell)
         IN
         /\ Screen(t) /\ t.cx = x /\ t.cy = s.cy /\ t.shown = s.shown
         /\ \A p \in Cells : t.term[p] = IF p = here THEN cell ELSE s.term[p]
<1> DEFINE here == <<s.cx, s.cy>>
           cells == [s.term EXCEPT ![here] = cell]
           t == Stored(s, x, cell)
<1>1. /\ cells = [p \in Cells |-> cells[p]]
      /\ \A p \in Cells : cells[p] = IF p = here THEN cell ELSE s.term[p]
  BY DEF Screen, Grid, Image
<1>2. Grid(cells)
  BY <1>1 DEF Screen, Grid, Image
<1>3. t = Moved(s, x, s.cy, cells)
  BY CellStored, Zenon
<1>4. s.cy \in 0 .. wh
  BY DEF Screen, Grid, Image
<1> HIDE DEF cells, t
<1>5. Screen(t) /\ t.cx = x /\ t.cy = s.cy /\ t.term = cells /\ t.shown = s.shown
  BY <1>2, <1>3, <1>4, MovedShape
<1> QED BY <1>1, <1>5, Zenon DEF t

LEMMA BackspaceShape ==
  ASSUME NEW s, Screen(s), Inside(s), s.cx # 0
  PROVE  LET here == <<s.cx, s.cy>>
             t == Backspace(s)
         IN
         /\ Screen(t) /\ t.cx = s.cx - 1 /\ t.cy = s.cy /\ t.shown = s.shown
         /\ \A p \in Cells : t.term[p] = IF p = here THEN Over(s.term[here], Space) ELSE s.term[p]
<1> DEFINE here == <<s.cx, s.cy>>
           x == s.cx - 1
<1>1. x \in 0 .. ww
  BY DEF Inside
<1>2. here \in Cells
  BY Places DEF Inside, Screen, Grid, Image
<1> DEFINE cell == Over(s.term[here], Space)
<1>3. cell.mod \in BOOLEAN
  BY DEF Over
<1>4. Backspace(s) = Stored(s, x, Over(s.term[here], Space))
  <2>1. Backspace(s) = [s EXCEPT !.cx = x, !.term[here] = Over(@, Space)]
    BY Zenon DEF Backspace
  <2>2. [s EXCEPT !.cx = x, !.term[here] = Over(@, Space)]
          = [[s EXCEPT !.cx = x] EXCEPT !.term[here] = Over(@, Space)]
    OBVIOUS
  <2>3. [s EXCEPT !.cx = x] = Made(x, s.cy, s.cs, s.term, s.shown)
    BY DEF Screen, Grid, Image, Made
  <2>4. [Made(x, s.cy, s.cs, s.term, s.shown) EXCEPT !.term[here] = Over(@, Space)]
          = [Made(x, s.cy, s.cs, s.term, s.shown) EXCEPT !.term[here] = Over(s.term[here], Space)]
    BY DEF Made
  <2>5. Stored(s, x, Over(s.term[here], Space))
          = [[s EXCEPT !.cx = x] EXCEPT !.term[here] = Over(s.term[here], Space)]
    BY DEF Stored
  <2> QED BY <2>1, <2>2, <2>3, <2>4, <2>5, Zenon
<1> HIDE DEF x, cell
<1>5. LET t == Stored(s, x, cell) IN
      /\ Screen(t) /\ t.cx = x /\ t.cy = s.cy /\ t.shown = s.shown
      /\ \A p \in Cells : t.term[p] = IF p = here THEN cell ELSE s.term[p]
  BY <1>1, <1>3, StoredShape
<1> QED BY <1>4, <1>5, Zenon DEF x, cell

LEMMA TypeShape ==
  ASSUME NEW s, Screen(s), Inside(s), NEW c
  PROVE  LET here == <<s.cx, s.cy>>
             t == Type(s, c)
         IN
         /\ Screen(t) /\ t.cx = s.cx + 1 /\ t.cy = s.cy /\ t.shown = s.shown
         /\ \A p \in Cells :
              t.term[p] = IF p = here THEN [c |-> c, fg |-> pen.fg, bg |-> pen.bg, mod |-> TRUE]
                          ELSE s.term[p]
<1> DEFINE x == s.cx + 1
           cell == [c |-> c, fg |-> pen.fg, bg |-> pen.bg, mod |-> TRUE]
<1>1. x \in 0 .. ww
  BY DEF Inside
<1>2. cell.mod \in BOOLEAN
  OBVIOUS
<1>3. Type(s, c) = Stored(s, x, cell)
  BY Zenon DEF Type, Stored
<1> HIDE DEF x, cell
<1>4. LET here == <<s.cx, s.cy>>
          t == Stored(s, x, cell)
      IN
      /\ Screen(t) /\ t.cx = x /\ t.cy = s.cy /\ t.shown = s.shown
      /\ \A p \in Cells : t.term[p] = IF p = here THEN cell ELSE s.term[p]
  BY <1>1, <1>2, StoredShape
<1> QED BY <1>3, <1>4, Zenon DEF x, cell

LEMMA WrapShape ==
  ASSUME NEW s, Screen(s), s.cy \in 0 .. wh - 1
  PROVE  LET t == Wrap(s) IN
         /\ Screen(t) /\ t.term = s.term /\ t.shown = s.shown
         /\ IF s.cx = ww THEN t.cx = 0 /\ t.cy = s.cy + 1 ELSE t = s
<1>1. CASE s.cx = ww
  <2> DEFINE y == s.cy + 1
  <2>1. Wrap(s) = Moved(s, 0, y, s.term)
    <3>1. Wrap(s) = [s EXCEPT !.cx = 0, !.cy = y]
      BY <1>1 DEF Wrap
    <3>2. [s EXCEPT !.cx = 0, !.cy = y] = Moved(s, 0, y, s.term)
      BY CursorMoved
    <3> QED BY <3>1, <3>2, Zenon
  <2>2. 0 \in 0 .. ww /\ y \in 0 .. wh
    OBVIOUS
  <2> HIDE DEF y
  <2>3. LET t == Moved(s, 0, y, s.term) IN
        Screen(t) /\ t.cx = 0 /\ t.cy = y /\ t.term = s.term /\ t.shown = s.shown
    BY <2>2, MovedShape DEF Screen, Grid, Image
  <2> QED BY <1>1, <2>1, <2>3, Zenon DEF y
<1>2. CASE s.cx # ww
  BY <1>2 DEF Wrap, Screen, Grid, Image
<1> QED BY <1>1, <1>2

LEMMA FeedShape ==
  ASSUME NEW s, Screen(s), s.cx \in 0 .. ww - 1
  PROVE  LET t == Feed(s) IN
         /\ Screen(t) /\ Inside(t) /\ t.cx = s.cx
         /\ s.cy \in 0 .. wh - 1 => t = s
         /\ s.cy = wh => t.cy = wh - 1 /\ Scrolled(s, t)
<1>1. CASE s.cy \in 0 .. wh - 1
  <2>1. Feed(s) = s /\ s.cy # wh /\ Inside(s)
    BY <1>1 DEF Feed, Inside
  <2> QED BY <1>1, <2>1, Zenon
<1>2. CASE s.cy = wh
  <2> DEFINE y == wh - 1
             b == [s EXCEPT !.cy = y]
  <2>1. Feed(s) = Scroll(b)
    BY <1>2 DEF Feed
  <2>2. y \in 0 .. wh /\ s.cx \in 0 .. ww
    OBVIOUS
  <2> HIDE DEF y
  <2>3. b = Moved(s, s.cx, y, s.term)
    <3>1. [s EXCEPT !.cy = y] = Made(s.cx, y, s.cs, s.term, s.shown)
      BY DEF Screen, Grid, Image, Made
    <3>2. [s EXCEPT !.cx = s.cx] = Made(s.cx, s.cy, s.cs, s.term, s.shown)
      BY DEF Screen, Grid, Image, Made
    <3>3. [Made(s.cx, s.cy, s.cs, s.term, s.shown) EXCEPT !.cy = y]
            = Made(s.cx, y, s.cs, s.term, s.shown)
      BY DEF Made
    <3>4. [Made(s.cx, y, s.cs, s.term, s.shown) EXCEPT !.term = s.term]
            = Made(s.cx, y, s.cs, s.term, s.shown)
      BY DEF Made
    <3>5. Moved(s, s.cx, y, s.term)
            = [[[s EXCEPT !.cx = s.cx] EXCEPT !.cy = y] EXCEPT !.term = s.term]
      BY DEF Moved
    <3> QED BY <3>1, <3>2, <3>3, <3>4, <3>5, Zenon
  <2>4. Screen(b) /\ b.cx = s.cx /\ b.cy = y /\ b.term = s.term /\ b.shown = s.shown
    BY <2>2, <2>3, MovedShape DEF Screen, Grid, Image
  <2> HIDE DEF b
  <2>5. LET t == Scroll(b) IN Screen(t) /\ t.cx = b.cx /\ t.cy = b.cy /\ Scrolled(b, t)
    BY <2>4, ScrollShape, Zenon
  <2>6. Inside(Scroll(b))
    BY <2>4, <2>5 DEF Inside, y
  <2>7. s.cy \notin 0 .. wh - 1
    BY <1>2
  <2>8. LET t == Scroll(b) IN Screen(t) /\ t.cx = s.cx /\ t.cy = y /\ Scrolled(s, t)
    BY <2>4, <2>5, Zenon DEF Scrolled
  <2>9. Inside(Feed(s)) /\ (s.cy \in 0 .. wh - 1 => Feed(s) = s)
    BY <2>1, <2>6, <2>7, Zenon
  <2> QED BY <2>1, <2>8, <2>9, Zenon DEF y
<1> QED BY <1>1, <1>2 DEF Screen, Grid, Image

LEMMA BlinkShape ==
  ASSUME NEW s, Screen(s)
  PROVE  LET t == [s EXCEPT !.cs = ~s.cs] IN
         Screen(t) /\ t.cx = s.cx /\ t.cy = s.cy /\ t.term = s.term /\ t.shown = s.shown
<1> DEFINE t == [s EXCEPT !.cs = ~s.cs]
           cs == ~s.cs
<1>1. t = Made(s.cx, s.cy, cs, s.term, s.shown)
  BY DEF Screen, Made
<1> HIDE DEF cs
<1> QED BY <1>1, MadeScreen DEF Screen

-----------------------------------------------------------------------------
(* The display shows the page                                               *)

Before(s, p) == p[2] < s.cy \/ (p[2] = s.cy /\ p[1] < s.cx)

Will(s, p) == IF s.term[p].mod THEN s.term[p].c ELSE s.shown[p].c

Page(s) ==
  \A p \in Window : p # <<s.cx, s.cy>> =>
    Will(s, p) = IF Before(s, p) THEN s.term[p].c ELSE Space

LEMMA PageMeans == RedrawShowsPage <=> (~lost => Page(scr))
BY Places DEF RedrawShowsPage, Page, Will, Upcoming, Text, Before, Window

LEMMA Place ==
  ASSUME NEW p \in Cells
  PROVE  /\ p[1] \in 0 .. ww - 1 /\ p[2] \in 0 .. wh
         /\ \A x, y : p = <<x, y>> <=> p[1] = x /\ p[2] = y
         /\ p \in Window <=> p[2] < wh
         /\ p \in Upper <=> p[2] < wh - 1
         /\ p \in Upper => <<p[1], p[2] + 1>> \in Window
BY DEF Cells, Window, Upper

LEMMA CellParts ==
  /\ \A cell : Look(cell).c = cell.c
  /\ \A cell, mod : Flagged(cell, mod).c = cell.c /\ Flagged(cell, mod).mod = mod
  /\ \A cell, c : Over(cell, c).c = c /\ Over(cell, c).mod = TRUE
BY DEF Look, Flagged, Over

LEMMA CursorPage ==
  ASSUME NEW s, Screen(s), Inside(s), Page(s)
  PROVE  Page(Cursor(s)) /\ Screen(Cursor(s)) /\ Inside(Cursor(s))
<1> DEFINE t == Cursor(s)
<1>1. /\ Screen(t) /\ t.cx = s.cx /\ t.cy = s.cy /\ t.shown = s.shown
      /\ \A p \in Cells : p # <<s.cx, s.cy>> => t.term[p] = s.term[p]
  BY CursorShape DEF Inside
<1> HIDE DEF t
<1>2. Page(t)
  BY <1>1, Places, Zenon DEF Page, Will, Before
<1> QED BY <1>1, <1>2 DEF Inside, t

LEMMA RedrawPage ==
  ASSUME NEW s, Screen(s), Inside(s)
  PROVE  /\ Screen(Redraw(s)) /\ Inside(Redraw(s))
         /\ Page(s) => Page(Redraw(s))
<1> DEFINE t == Redraw(s)
<1>1. /\ Screen(t) /\ t.cx = s.cx /\ t.cy = s.cy
      /\ \A p \in Cells : p # <<s.cx, s.cy>> =>
           t.term[p] = Flagged(s.term[p], s.term[p].mod /\ p \notin Window)
      /\ \A p \in Window : p # <<s.cx, s.cy>> =>
           t.shown[p] = IF s.term[p].mod THEN Look(s.term[p]) ELSE s.shown[p]
  BY RedrawShape DEF Inside
<1> HIDE DEF t
<1>2. ASSUME Page(s) PROVE Page(t)
  <2> SUFFICES ASSUME NEW p \in Window, p # <<s.cx, s.cy>>
               PROVE  Will(t, p) = IF Before(t, p) THEN t.term[p].c ELSE Space
    BY <1>1, Zenon DEF Page
  <2>1. p \in Cells
    BY Places
  <2>2. t.term[p].c = s.term[p].c /\ t.term[p].mod = FALSE
    <3>1. t.term[p] = Flagged(s.term[p], s.term[p].mod /\ p \notin Window)
      BY <1>1, <2>1
    <3>2. (s.term[p].mod /\ p \notin Window) = FALSE
      OBVIOUS
    <3>3. t.term[p] = Flagged(s.term[p], FALSE)
      BY <3>1, <3>2, Zenon
    <3> QED BY <3>3 DEF Flagged
  <2>3. Will(t, p) = Will(s, p)
    BY <1>1, <2>2, CellParts DEF Will
  <2>4. Before(t, p) <=> Before(s, p)
    BY <1>1 DEF Before
  <2> QED BY <1>2, <2>2, <2>3, <2>4 DEF Page
<1> QED BY <1>1, <1>2 DEF Inside, t

\* What vga_writechar does before it puts the cursor back.
LEMMA NewLinePage ==
  ASSUME NEW s, Screen(s), Inside(s)
  PROVE  LET t == Feed(Wrap(NewLine(s))) IN
         /\ Screen(t) /\ Inside(t)
         /\ Page(s) => Page(t)
<1> DEFINE cell(p) == IF p[2] = s.cy /\ p[1] >= s.cx THEN Over(s.term[p], Space) ELSE s.term[p]
           n == NewLine(s)
           t == Feed(n)
<1>1. /\ Screen(n) /\ n.cx = 0 /\ n.cy = s.cy + 1
      /\ \A p \in Cells : p # <<0, s.cy + 1>> =>
           n.term[p] = Flagged(cell(p), cell(p).mod /\ p \notin Window)
      /\ \A p \in Window : p # <<0, s.cy + 1>> =>
           n.shown[p] = IF cell(p).mod THEN Look(cell(p)) ELSE s.shown[p]
  BY NewLineShape, Zenon
<1> HIDE DEF n, cell
<1>2. Wrap(n) = n
  BY <1>1 DEF Wrap
<1>3. n.cx \in 0 .. ww - 1
  BY <1>1
<1>4. /\ Screen(t) /\ Inside(t) /\ t.cx = 0
      /\ n.cy \in 0 .. wh - 1 => t = n
      /\ n.cy = wh => t.cy = wh - 1 /\ Scrolled(n, t)
  BY <1>1, <1>3, FeedShape
<1> HIDE DEF t
<1>5. ASSUME Page(s) PROVE Page(t)
  <2>1. ASSUME NEW p \in Window, p # <<0, s.cy + 1>>
        PROVE  /\ n.term[p].c = cell(p).c /\ n.term[p].mod = FALSE
               /\ n.shown[p].c = IF Before(n, p) THEN cell(p).c ELSE Space
    <3>1. /\ p \in Cells /\ p[1] \in 0 .. ww - 1 /\ p[2] \in 0 .. wh - 1
          /\ p = <<s.cx, s.cy>> <=> p[1] = s.cx /\ p[2] = s.cy
          /\ p = <<0, s.cy + 1>> <=> p[1] = 0 /\ p[2] = s.cy + 1
      BY DEF Window, Cells
    <3>2. n.term[p].c = cell(p).c /\ n.term[p].mod = FALSE
      <4>1. n.term[p] = Flagged(cell(p), cell(p).mod /\ p \notin Window)
        BY <1>1, <2>1, <3>1
      <4>2. (cell(p).mod /\ p \notin Window) = FALSE
        OBVIOUS
      <4>3. n.term[p] = Flagged(cell(p), FALSE)
        BY <4>1, <4>2, Zenon
      <4> QED BY <4>3 DEF Flagged
    <3>3. Will(n, p) = Will(n, p) /\ n.shown[p].c = IF cell(p).mod THEN cell(p).c ELSE s.shown[p].c
      BY <1>1, <2>1, CellParts
    <3>4. CASE p[2] = s.cy /\ p[1] >= s.cx
      <4>1. cell(p) = Over(s.term[p], Space)
        BY <3>4 DEF cell
      <4>2. cell(p).c = Space /\ cell(p).mod = TRUE
        BY <4>1 DEF Over
      <4> QED BY <3>2, <3>3, <4>2
    <3>5. CASE ~(p[2] = s.cy /\ p[1] >= s.cx)
      <4>1. cell(p) = s.term[p]
        BY <3>5 DEF cell
      <4>2. p # <<s.cx, s.cy>>
        BY <3>5, <3>1 DEF Inside
      <4>3. Before(n, p) <=> Before(s, p)
        BY <3>5, <1>1, <3>1 DEF Before, Inside
      <4>4. Will(s, p) = IF Before(s, p) THEN s.term[p].c ELSE Space
        BY <1>5, <4>2 DEF Page
      <4> QED BY <3>2, <3>3, <4>1, <4>3, <4>4 DEF Will
    <3> QED BY <3>4, <3>5
  <2>2. CASE n.cy \in 0 .. wh - 1
    BY <1>1, <1>4, <2>1, <2>2 DEF Page, Will
  <2>3. CASE n.cy = wh
    <3> SUFFICES ASSUME NEW p \in Window, p # <<t.cx, t.cy>>
                 PROVE  Will(t, p) = IF Before(t, p) THEN t.term[p].c ELSE Space
      BY DEF Page
    <3> USE <1>4, <2>3
    <3>1. /\ p \in Cells /\ p[1] \in 0 .. ww - 1 /\ p[2] \in 0 .. wh - 1
          /\ p \in Upper <=> p[2] < wh - 1
          /\ p = <<t.cx, t.cy>> <=> p[1] = t.cx /\ p[2] = t.cy
          /\ p = <<0, s.cy + 1>> <=> p[1] = 0 /\ p[2] = s.cy + 1
      BY DEF Window, Cells, Upper
    <3>2. p # <<0, s.cy + 1>>
      BY <1>1, <3>1
    <3>3. CASE p \in Upper
      <4> DEFINE q == <<p[1], p[2] + 1>>
      <4>1. q \in Window /\ q # <<0, s.cy + 1>>
        BY <3>1, <3>3, Place, <1>1, Places
      <4>2. t.term[p] = Flagged(n.term[q], FALSE)
        BY <3>1, <3>3, Zenon DEF Scrolled
      <4>3. t.shown[p] = IF n.term[p].c # n.term[q].c THEN Look(n.term[q]) ELSE n.shown[p]
        BY <3>3, Zenon DEF Scrolled
      <4>4. n.term[p].c = cell(p).c /\ n.shown[p].c = cell(p).c
        <5>1. Before(n, p)
          BY <3>1 DEF Before
        <5> QED BY <2>1, <3>2, <5>1
      <4>5. Before(t, p)
        BY <3>1, <3>3 DEF Before
      <4> HIDE DEF q
      <4>6. t.term[p].c = n.term[q].c /\ t.term[p].mod = FALSE
        BY <4>2 DEF Flagged
      <4>7. t.shown[p].c = n.term[q].c
        BY <4>3, <4>4, CellParts
      <4> QED BY <4>5, <4>6, <4>7 DEF Will
    <3>4. CASE p \notin Upper
      <4>1. t.term[p] = n.term[p]
        BY <3>1, <3>4, Zenon DEF Scrolled
      <4>2. t.shown[p] = Look(Over(n.term[p], Space))
        BY <3>4, Zenon DEF Scrolled
      <4>3. ~Before(t, p)
        BY <3>1, <3>4 DEF Before
      <4>4. n.term[p].mod = FALSE
        BY <2>1, <3>2
      <4>5. t.shown[p].c = Space
        BY <4>2 DEF Look, Over
      <4> QED BY <4>1, <4>3, <4>4, <4>5 DEF Will
    <3> QED BY <3>3, <3>4
  <2> QED BY <1>1, <2>2, <2>3 DEF Screen
<1> QED BY <1>2, <1>4, <1>5 DEF t, n

LEMMA BackspacePage ==
  ASSUME NEW s, Screen(s), Inside(s)
  PROVE  LET t == Feed(Wrap(Backspace(s))) IN
         /\ t = Backspace(s)
         /\ Screen(t) /\ Inside(t)
         /\ Page(s) => Page(t)
<1> DEFINE t == Backspace(s)
<1>1. CASE s.cx = 0
  <2>1. t = s
    BY <1>1 DEF Backspace
  <2>2. Wrap(s) = s /\ Feed(s) = s
    BY DEF Wrap, Feed, Inside
  <2> QED BY <2>1, <2>2, Zenon
<1>2. CASE s.cx # 0
  <2>1. /\ Screen(t) /\ t.cx = s.cx - 1 /\ t.cy = s.cy /\ t.shown = s.shown
        /\ \A p \in Cells :
             t.term[p] = IF p = <<s.cx, s.cy>> THEN Over(s.term[<<s.cx, s.cy>>], Space)
                         ELSE s.term[p]
    BY <1>2, BackspaceShape, Zenon
  <2> HIDE DEF t
  <2>2. Inside(t)
    BY <1>2, <2>1 DEF Inside
  <2>3. Wrap(t) = t /\ Feed(t) = t
    BY <2>2 DEF Wrap, Feed, Inside
  <2>4. ASSUME Page(s) PROVE Page(t)
    <3> SUFFICES ASSUME NEW p \in Window, p # <<t.cx, t.cy>>
                 PROVE  Will(t, p) = IF Before(t, p) THEN t.term[p].c ELSE Space
      BY DEF Page
    <3>1. /\ p \in Cells /\ p[1] \in 0 .. ww - 1 /\ p[2] \in 0 .. wh - 1
          /\ p = <<s.cx, s.cy>> <=> p[1] = s.cx /\ p[2] = s.cy
          /\ p = <<t.cx, t.cy>> <=> p[1] = t.cx /\ p[2] = t.cy
      BY DEF Window, Cells
    <3>2. CASE p = <<s.cx, s.cy>>
      <4>1. t.term[p] = Over(s.term[p], Space)
        BY <2>1, <3>1, <3>2
      <4>2. t.term[p].c = Space /\ t.term[p].mod = TRUE
        BY <4>1 DEF Over
      <4> QED BY <4>2 DEF Will
    <3>3. CASE p # <<s.cx, s.cy>>
      <4>1. t.term[p] = s.term[p]
        BY <2>1, <3>1, <3>3
      <4>2. Before(t, p) <=> Before(s, p)
        BY <2>1, <3>1, <3>3 DEF Before, Inside
      <4>3. Will(s, p) = IF Before(s, p) THEN s.term[p].c ELSE Space
        BY <2>4, <3>3 DEF Page
      <4> QED BY <2>1, <4>1, <4>2, <4>3 DEF Will
    <3> QED BY <3>2, <3>3
  <2> QED BY <2>1, <2>2, <2>3, <2>4 DEF t
<1> QED BY <1>1, <1>2

LEMMA TypePage ==
  ASSUME NEW s, Screen(s), Inside(s), NEW c
  PROVE  LET t == Feed(Wrap(Type(s, c))) IN
         /\ Screen(t) /\ Inside(t)
         /\ Page(s) /\ ~(s.cx = ww - 1 /\ s.cy = wh - 1) => Page(t)
<1> DEFINE cell == [c |-> c, fg |-> pen.fg, bg |-> pen.bg, mod |-> TRUE]
           n == Type(s, c)
           w == Wrap(n)
           t == Feed(w)
<1>1. /\ Screen(n) /\ n.cx = s.cx + 1 /\ n.cy = s.cy /\ n.shown = s.shown
      /\ \A p \in Cells : n.term[p] = IF p = <<s.cx, s.cy>> THEN cell ELSE s.term[p]
  BY TypeShape, Zenon
<1>2. cell.c = c /\ cell.mod = TRUE
  OBVIOUS
<1> HIDE DEF n, cell
<1>3. n.cy \in 0 .. wh - 1
  BY <1>1 DEF Inside
<1>4. /\ Screen(w) /\ w.term = n.term /\ w.shown = n.shown
      /\ IF n.cx = ww THEN w.cx = 0 /\ w.cy = n.cy + 1 ELSE w = n
  BY <1>1, <1>3, WrapShape
<1> HIDE DEF w
<1>5. w.cx \in 0 .. ww - 1
  BY <1>1, <1>4 DEF Screen
<1>6. /\ Screen(t) /\ Inside(t) /\ t.cx = w.cx
      /\ w.cy \in 0 .. wh - 1 => t = w
  BY <1>4, <1>5, FeedShape
<1> HIDE DEF t
<1>7. ASSUME Page(s), ~(s.cx = ww - 1 /\ s.cy = wh - 1) PROVE Page(t)
  <2>1. t = w
    BY <1>1, <1>4, <1>6, <1>7 DEF Inside
  <2> SUFFICES ASSUME NEW p \in Window, p # <<w.cx, w.cy>>
               PROVE  Will(w, p) = IF Before(w, p) THEN w.term[p].c ELSE Space
    BY <2>1 DEF Page
  <2>2. /\ p \in Cells /\ p[1] \in 0 .. ww - 1 /\ p[2] \in 0 .. wh - 1
        /\ p = <<s.cx, s.cy>> <=> p[1] = s.cx /\ p[2] = s.cy
        /\ p = <<w.cx, w.cy>> <=> p[1] = w.cx /\ p[2] = w.cy
    BY DEF Window, Cells
  <2>3. CASE p = <<s.cx, s.cy>>
    <3>1. w.term[p] = cell
      BY <1>1, <1>4, <2>2, <2>3
    <3>2. Before(w, p)
      BY <1>1, <1>4, <2>2, <2>3 DEF Before, Inside
    <3> QED BY <1>2, <3>1, <3>2 DEF Will
  <2>4. CASE p # <<s.cx, s.cy>>
    <3>1. w.term[p] = s.term[p] /\ w.shown = s.shown
      BY <1>1, <1>4, <2>2, <2>4
    <3>2. Before(w, p) <=> Before(s, p)
      BY <1>1, <1>4, <2>2, <2>4 DEF Before, Inside
    <3>3. Will(s, p) = IF Before(s, p) THEN s.term[p].c ELSE Space
      BY <1>7, <2>4 DEF Page
    <3> QED BY <3>1, <3>2, <3>3 DEF Will
  <2> QED BY <2>3, <2>4
<1> QED BY <1>6, <1>7 DEF t, w, n

(* All cells become blank. *)
Blanked(s, fg, bg) ==
  [s EXCEPT !.cx = 0, !.cy = 0,
            !.term = [p \in Cells |-> [c |-> Space, fg |-> fg, bg |-> bg, mod |-> TRUE]]]

LEMMA ClearPage ==
  ASSUME NEW s, Screen(s), NEW fg, NEW bg
  PROVE  LET t == Blanked(s, fg, bg) IN
         Screen(t) /\ Inside(t) /\ Page(t) /\ t.cx = 0 /\ t.cy = 0
<1> DEFINE blank == [p \in Cells |-> [c |-> Space, fg |-> fg, bg |-> bg, mod |-> TRUE]]
           t == Blanked(s, fg, bg)
<1>1. /\ Grid(blank)
      /\ \A p \in Cells : blank[p].mod = TRUE /\ blank[p].c = Space
  BY DEF Grid
<1>2. t = Moved(s, 0, 0, blank)
  BY DEF Moved, Blanked
<1> HIDE DEF blank, t
<1>3. 0 \in 0 .. ww /\ 0 \in 0 .. wh /\ 0 \in 0 .. ww - 1 /\ 0 \in 0 .. wh - 1
  OBVIOUS
<1>4. Screen(t) /\ t.cx = 0 /\ t.cy = 0 /\ t.term = blank
  BY <1>1, <1>2, <1>3, MovedShape
<1>5. Page(t)
  BY <1>1, <1>4, Places DEF Page, Will
<1> QED BY <1>3, <1>4, <1>5, Zenon DEF Inside, t

LEMMA WrittenPage ==
  ASSUME NEW s, Screen(s), Inside(s), NEW c
  PROVE  LET t == Written(s, c) IN
         /\ Screen(t) /\ Inside(t)
         /\ Page(s) /\ ~WrapsLast(s, c) => Page(t)
<1> DEFINE b == Feed(Wrap(CASE c = NL -> NewLine(s)
                            [] c = BS -> Backspace(s)
                            [] OTHER -> Type(s, c)))
<1>1. /\ Screen(b) /\ Inside(b)
      /\ Page(s) /\ ~WrapsLast(s, c) => Page(b)
  <2>1. CASE c = NL
    <3>1. b = Feed(Wrap(NewLine(s)))
      BY <2>1 DEF NL, BS
    <3> HIDE DEF b
    <3> QED BY <3>1, NewLinePage, Zenon
  <2>2. CASE c = BS
    <3>1. b = Feed(Wrap(Backspace(s)))
      BY <2>2 DEF NL, BS
    <3> HIDE DEF b
    <3> QED BY <3>1, BackspacePage, Zenon
  <2>3. CASE c # NL /\ c # BS
    <3>1. b = Feed(Wrap(Type(s, c)))
      BY <2>3
    <3>2. ~WrapsLast(s, c) => ~(s.cx = ww - 1 /\ s.cy = wh - 1)
      BY <2>3 DEF WrapsLast
    <3> HIDE DEF b
    <3>3. /\ Screen(b) /\ Inside(b)
          /\ Page(s) /\ ~(s.cx = ww - 1 /\ s.cy = wh - 1) => Page(b)
      BY <3>1, TypePage, Zenon
    <3> QED BY <3>2, <3>3
  <2> QED BY <2>1, <2>2, <2>3
<1>2. Written(s, c) = Cursor(b)
  BY DEF Written
<1> HIDE DEF b
<1>3. Screen(Cursor(b)) /\ Inside(Cursor(b)) /\ (Page(b) => Page(Cursor(b)))
  <2>1. Screen(Cursor(b)) /\ Cursor(b).cx = b.cx /\ Cursor(b).cy = b.cy
    BY <1>1, CursorShape DEF Inside
  <2> QED BY <1>1, <2>1, CursorPage DEF Inside
<1> QED BY <1>1, <1>2, <1>3, Zenon

-----------------------------------------------------------------------------
(* The invariant                                                            *)

PageInv == Screen(scr) /\ Inside(scr) /\ RedrawShowsPage

\* Between two characters the cursor is in the window, and the next redraw shows the page,
\* for windows of any size and whatever is printed.
THEOREM PageInvariance == Spec => []PageInv
<1>1. Init => PageInv
  <2> SUFFICES ASSUME Init PROVE PageInv
    OBVIOUS
  <2>1. /\ scr.cx = 0 /\ scr.cy = 0
        /\ Grid(scr.term) /\ Image(scr.shown)
        /\ \A p \in Cells : scr.term[p].c = Space /\ scr.term[p].mod = TRUE
    BY DEF Init, Grid, Image
  <2>2. scr = [cx |-> scr.cx, cy |-> scr.cy, cs |-> scr.cs,
               term |-> scr.term, shown |-> scr.shown]
    BY DEF Init
  <2>3. Screen(scr) /\ Inside(scr)
    BY <2>1, <2>2 DEF Screen, Inside
  <2>4. Page(scr)
    BY <2>1, Places DEF Page, Will
  <2> QED BY <2>3, <2>4, PageMeans DEF PageInv
<1>2. PageInv /\ [Next]_vars => PageInv'
  <2> SUFFICES ASSUME PageInv, [Next]_vars PROVE PageInv'
    OBVIOUS
  <2>1. Screen(scr) /\ Inside(scr) /\ (~lost => Page(scr))
    BY PageMeans DEF PageInv
  <2>2. SUFFICES Screen(scr') /\ Inside(scr') /\ (~lost' => Page(scr'))
    <3>1. RedrawShowsPage' <=> (~lost' => Page(scr'))
      BY Places DEF RedrawShowsPage, Page, Will, Upcoming, Text, Before, Window
    <3> QED BY <3>1 DEF PageInv, Screen, Inside, Grid, Image
  <2>3. ASSUME NEW s, Screen(s), Inside(s)
        PROVE  /\ Screen(Redraw(s)) /\ Inside(Redraw(s))
               /\ Page(s) => Page(Redraw(s))
    BY <2>3, RedrawPage, Zenon
  <2>4. ASSUME NEW c, NEW redraw \in BOOLEAN, PutChar(c, redraw)
        PROVE  Screen(scr') /\ Inside(scr') /\ (~lost' => Page(scr'))
    <3>1. PICK s : /\ scr' = Shown(s, redraw)
                   /\ \/ s = Written(scr, c) /\ lost' = (lost \/ WrapsLast(scr, c))
                      \/ s = scr /\ lost' = lost
      BY <2>4, Zenon DEF PutChar
    <3>2. Screen(s) /\ Inside(s) /\ (~lost' => Page(s))
      <4>1. /\ Screen(Written(scr, c)) /\ Inside(Written(scr, c))
            /\ Page(scr) /\ ~WrapsLast(scr, c) => Page(Written(scr, c))
        BY <2>1, WrittenPage, Zenon
      <4> QED BY <2>1, <3>1, <4>1
    <3> QED BY <2>3, <3>1, <3>2, Zenon DEF Shown
  <2>5. ASSUME NEW c \in Bytes, Kprintf(c) \/ Echo(c) \/ WriteChar(c)
        PROVE  Screen(scr') /\ Inside(scr') /\ (~lost' => Page(scr'))
    BY <2>4, <2>5, Zenon DEF Kprintf, Echo, WriteChar
  <2>6. CASE WriteEnd
    BY <2>1, <2>3, <2>6, Zenon DEF WriteEnd
  <2>7. CASE Blink
    <3> DEFINE s == [scr EXCEPT !.cs = ~scr.cs]
    <3>1. Screen(s) /\ s.cx = scr.cx /\ s.cy = scr.cy /\ s.term = scr.term /\ s.shown = scr.shown
      BY <2>1, BlinkShape
    <3>2. scr' = Redraw(s) /\ lost' = lost
      BY <2>7 DEF Blink
    <3> HIDE DEF s
    <3>3. Inside(s) /\ (~lost => Page(s))
      BY <2>1, <3>1, Zenon DEF Inside, Page, Will, Before
    <3> QED BY <2>3, <3>1, <3>2, <3>3, Zenon
  <2>8. CASE Clear
    <3> DEFINE s == Blanked(scr, pen.fg, pen.bg)
    <3>1. Screen(s) /\ Inside(s) /\ Page(s)
      BY <2>1, ClearPage, Zenon
    <3>2. scr' = Redraw(s)
      BY <2>8 DEF Clear, Blanked
    <3> HIDE DEF s
    <3> QED BY <2>3, <3>1, <3>2, Zenon
  <2>9. CASE UNCHANGED vars
    BY <2>1, <2>9 DEF vars
  <2> QED BY <2>5, <2>6, <2>7, <2>8, <2>9 DEF Next
<1> QED BY <1>1, <1>2, PTL DEF Spec

\* Unless a line was wrapped on the last row, the next redraw shows the text and blanks
\* behind it (vga_redraw, vga_scroll).
THEOREM RedrawShows == Spec => []RedrawShowsPage
<1>1. PageInv => RedrawShowsPage
  BY DEF PageInv
<1> QED BY <1>1, PageInvariance, PTL

-----------------------------------------------------------------------------
(* Sequences                                                                *)

(* a has n elements. *)
Lasts(a, n) == a = [k \in 1 .. n |-> a[k]]

LEMMA SameSequence ==
  ASSUME NEW S, NEW a \in Seq(S), NEW b \in Seq(S), Len(a) = Len(b),
         \A j \in 1 .. Len(a) : a[j] = b[j]
  PROVE  a = b
OBVIOUS

LEMMA SequenceOf ==
  ASSUME NEW n \in Nat, NEW a, Lasts(a, n), NEW S, \A k \in 1 .. n : a[k] \in S
  PROVE  a \in Seq(S) /\ Len(a) = n
<1>1. a \in [1 .. n -> S]
  BY DEF Lasts
<1>2. a \in Seq(S) /\ DOMAIN a = 1 .. n
  BY <1>1
<1> QED BY <1>2

LEMMA Grown ==
  ASSUME NEW n \in Nat, NEW a, Lasts(a, n), NEW b, Lasts(b, n + 1),
         \A k \in 1 .. n : b[k] = a[k]
  PROVE  b = Append(a, b[n + 1])
<1> DEFINE S == {a[k] : k \in 1 .. n} \cup {b[n + 1]}
           m == n + 1
<1>1. /\ \A k \in 1 .. n : a[k] \in S
      /\ \A k \in 1 .. m : b[k] \in S
      /\ b[m] \in S /\ m \in Nat
  OBVIOUS
<1> HIDE DEF S
<1>2. a \in Seq(S) /\ Len(a) = n
  BY <1>1, SequenceOf
<1>3. Lasts(b, m)
  OBVIOUS
<1> HIDE DEF m
<1>4. b \in Seq(S) /\ Len(b) = m
  BY <1>1, <1>3, SequenceOf
<1> DEFINE c == Append(a, b[m])
<1>5. c \in Seq(S) /\ Len(c) = n + 1 /\ c[n + 1] = b[m] /\ \A k \in 1 .. n : c[k] = a[k]
  BY <1>1, <1>2
<1> HIDE DEF c
<1>6. b = c
  <2>1. \A k \in 1 .. n + 1 : b[k] = c[k]
    BY <1>5 DEF m
  <2> QED BY <1>4, <1>5, <2>1, SameSequence DEF m
<1> QED BY <1>6 DEF c, m

LEMMA Shrunk ==
  ASSUME NEW n \in Nat, n > 0, NEW a, Lasts(a, n), NEW b, Lasts(b, n - 1),
         \A k \in 1 .. n - 1 : b[k] = a[k]
  PROVE  b = SubSeq(a, 1, Len(a) - 1)
<1> DEFINE S == {a[k] : k \in 1 .. n}
           m == n - 1
<1>1. /\ \A k \in 1 .. n : a[k] \in S
      /\ \A k \in 1 .. m : b[k] \in S
      /\ m \in Nat
  OBVIOUS
<1> HIDE DEF S
<1>2. a \in Seq(S) /\ Len(a) = n
  BY <1>1, SequenceOf
<1>3. Lasts(b, m)
  OBVIOUS
<1> HIDE DEF m
<1>4. b \in Seq(S) /\ Len(b) = m
  BY <1>1, <1>3, SequenceOf
<1> DEFINE c == SubSeq(a, 1, Len(a) - 1)
<1>5. c \in Seq(S) /\ Len(c) = n - 1 /\ \A k \in 1 .. n - 1 : c[k] = a[k]
  BY <1>2
<1> HIDE DEF c
<1> QED BY <1>4, <1>5, SameSequence DEF c, m

LEMMA Dropped ==
  ASSUME NEW n \in Nat, n > 0, NEW a, Lasts(a, n), NEW b, Lasts(b, n - 1),
         \A k \in 1 .. n - 1 : b[k] = a[k + 1]
  PROVE  b = Tail(a)
<1> DEFINE S == {a[k] : k \in 1 .. n}
           m == n - 1
<1>1. /\ \A k \in 1 .. n : a[k] \in S
      /\ \A k \in 1 .. m : b[k] \in S
      /\ m \in Nat
  OBVIOUS
<1> HIDE DEF S
<1>2. a \in Seq(S) /\ Len(a) = n
  BY <1>1, SequenceOf
<1>3. Lasts(b, m)
  OBVIOUS
<1> HIDE DEF m
<1>4. b \in Seq(S) /\ Len(b) = m
  BY <1>1, <1>3, SequenceOf
<1> DEFINE c == Tail(a)
<1>5. c \in Seq(S) /\ Len(c) = n - 1 /\ \A k \in 1 .. n - 1 : c[k] = a[k + 1]
  BY <1>2
<1> HIDE DEF c
<1> QED BY <1>4, <1>5, SameSequence DEF c, m

-----------------------------------------------------------------------------
(* The text                                                                 *)

MarkOf(cell) ==
  IF cell.c = Space THEN << >> ELSE <<cell.c, [fg |-> cell.fg, bg |-> cell.bg]>>

Row(s, y) == [k \in 1 .. ww |-> MarkOf(s.term[<<k - 1, y>>])]

LinesOf(s) == [j \in 1 .. s.cy |-> Row(s, j - 1)]

LineOf(s) == [k \in 1 .. s.cx |-> MarkOf(s.term[<<k - 1, s.cy>>])]

LEMMA TextShape ==
  ASSUME NEW s, Screen(s)
  PROVE  /\ Lasts(LineOf(s), s.cx) /\ Len(LineOf(s)) = s.cx
         /\ Lasts(LinesOf(s), s.cy) /\ Len(LinesOf(s)) = s.cy
         /\ \A k \in 1 .. s.cx : LineOf(s)[k] = MarkOf(s.term[<<k - 1, s.cy>>])
         /\ \A j \in 1 .. s.cy : LinesOf(s)[j] = Row(s, j - 1)
         /\ s.cx \in Nat /\ s.cy \in Nat
BY DEF LineOf, LinesOf, Lasts, Screen

LEMMA MarkParts ==
  /\ \A cell, mod : MarkOf(Flagged(cell, mod)) = MarkOf(cell)
  /\ \A cell : MarkOf(Over(cell, Space)) = << >>
BY DEF MarkOf, Flagged, Over

LEMMA SameRow ==
  ASSUME NEW s, NEW t, NEW x, NEW y,
         \A k \in 1 .. ww : MarkOf(s.term[<<k - 1, x>>]) = MarkOf(t.term[<<k - 1, y>>])
  PROVE  Row(s, x) = Row(t, y)
BY DEF Row

LEMMA SameText ==
  ASSUME NEW s, Screen(s), NEW t, Screen(t), t.cx = s.cx, t.cy = s.cy,
         \A p \in Cells : Before(s, p) => MarkOf(t.term[p]) = MarkOf(s.term[p])
  PROVE  LineOf(t) = LineOf(s) /\ LinesOf(t) = LinesOf(s)
<1>1. ASSUME NEW k \in 1 .. s.cx
      PROVE  MarkOf(t.term[<<k - 1, s.cy>>]) = MarkOf(s.term[<<k - 1, s.cy>>])
  BY Places DEF Screen, Before
<1>2. ASSUME NEW j \in 1 .. s.cy PROVE Row(t, j - 1) = Row(s, j - 1)
  <2>1. \A k \in 1 .. ww : MarkOf(t.term[<<k - 1, j - 1>>]) = MarkOf(s.term[<<k - 1, j - 1>>])
    BY Places DEF Screen, Before
  <2> QED BY <2>1, SameRow
<1> QED BY <1>1, <1>2 DEF LineOf, LinesOf

LEMMA CursorText ==
  ASSUME NEW s, Screen(s), Inside(s)
  PROVE  LineOf(Cursor(s)) = LineOf(s) /\ LinesOf(Cursor(s)) = LinesOf(s)
<1> DEFINE t == Cursor(s)
<1>1. /\ Screen(t) /\ t.cx = s.cx /\ t.cy = s.cy
      /\ \A p \in Cells : p # <<s.cx, s.cy>> => t.term[p] = s.term[p]
  BY CursorShape DEF Inside
<1>2. ASSUME NEW p \in Cells, Before(s, p) PROVE p # <<s.cx, s.cy>>
  BY <1>2 DEF Before, Inside
<1> HIDE DEF t
<1> QED BY <1>1, <1>2, SameText DEF t

LEMMA RedrawText ==
  ASSUME NEW s, Screen(s), Inside(s)
  PROVE  LineOf(Redraw(s)) = LineOf(s) /\ LinesOf(Redraw(s)) = LinesOf(s)
<1> DEFINE t == Redraw(s)
<1>1. /\ Screen(t) /\ t.cx = s.cx /\ t.cy = s.cy
      /\ \A p \in Cells : p # <<s.cx, s.cy>> =>
           t.term[p] = Flagged(s.term[p], s.term[p].mod /\ p \notin Window)
  BY RedrawShape, Zenon DEF Inside
<1> HIDE DEF t
<1>2. ASSUME NEW p \in Cells, Before(s, p) PROVE MarkOf(t.term[p]) = MarkOf(s.term[p])
  <2>1. p # <<s.cx, s.cy>>
    BY <1>2 DEF Before, Inside
  <2>2. t.term[p] = Flagged(s.term[p], s.term[p].mod /\ p \notin Window)
    BY <1>1, <2>1
  <2> QED BY <2>2, MarkParts, Zenon
<1> QED BY <1>1, <1>2, SameText DEF t

Padding(s) == [k \in 1 .. ww |-> IF k <= Len(LineOf(s)) THEN LineOf(s)[k] ELSE << >>]

FedLines(lines, full) ==
  IF Len(lines) + 1 < wh THEN Append(lines, full) ELSE Tail(Append(lines, full))

\* A row is added, and the rows before it stay.
LEMMA RowAdded ==
  ASSUME NEW s, Screen(s), NEW n, Screen(n), n.cx = 0, n.cy = s.cy + 1,
         \A p \in Cells : p[2] < s.cy => MarkOf(n.term[p]) = MarkOf(s.term[p])
  PROVE  LineOf(n) = << >> /\ LinesOf(n) = Append(LinesOf(s), Row(n, s.cy))
<1>1. LineOf(n) = << >>
  BY DEF LineOf
<1>2. ASSUME NEW j \in 1 .. s.cy PROVE LinesOf(n)[j] = LinesOf(s)[j]
  <2>1. \A k \in 1 .. ww : MarkOf(n.term[<<k - 1, j - 1>>]) = MarkOf(s.term[<<k - 1, j - 1>>])
    BY Places DEF Screen
  <2>2. Row(n, j - 1) = Row(s, j - 1)
    BY <2>1, SameRow
  <2> QED BY <2>2, TextShape
<1> DEFINE a == LinesOf(s)
           b == LinesOf(n)
           m == s.cy
<1>3. m \in Nat /\ Lasts(a, m) /\ Lasts(b, m + 1) /\ b[m + 1] = Row(n, m)
  BY TextShape
<1>4. \A k \in 1 .. m : b[k] = a[k]
  BY <1>2
<1> HIDE DEF a, b, m
<1>5. b = Append(a, b[m + 1])
  BY <1>3, <1>4, Grown
<1> QED BY <1>1, <1>3, <1>5 DEF a, b, m

LEMMA FeedText ==
  ASSUME NEW n, Screen(n), n.cx = 0, n.cy \in 1 .. wh
  PROVE  LET t == Feed(n) IN
         /\ Screen(t) /\ Inside(t) /\ LineOf(t) = << >>
         /\ LinesOf(t) = IF n.cy < wh THEN LinesOf(n) ELSE Tail(LinesOf(n))
<1> DEFINE t == Feed(n)
<1>1. n.cx \in 0 .. ww - 1
  OBVIOUS
<1>2. /\ Screen(t) /\ Inside(t) /\ t.cx = 0
      /\ n.cy \in 0 .. wh - 1 => t = n
      /\ n.cy = wh => t.cy = wh - 1 /\ Scrolled(n, t)
  BY <1>1, FeedShape
<1> HIDE DEF t
<1>3. LineOf(t) = << >>
  BY <1>2 DEF LineOf
<1>4. CASE n.cy < wh
  BY <1>2, <1>3, <1>4 DEF t
<1>5. CASE n.cy = wh
  <2>1. ASSUME NEW k \in 1 .. wh - 1 PROVE LinesOf(t)[k] = LinesOf(n)[k + 1]
    <3>1. ASSUME NEW x \in 1 .. ww
          PROVE  MarkOf(t.term[<<x - 1, k - 1>>]) = MarkOf(n.term[<<x - 1, k>>])
      <4> DEFINE p == <<x - 1, k - 1>>
      <4>1. p \in Upper /\ p \in Cells /\ p[1] = x - 1 /\ p[2] + 1 = k
        BY Places
      <4> HIDE DEF p
      <4>2. t.term[p] = Flagged(n.term[<<p[1], p[2] + 1>>], FALSE)
        BY <1>2, <1>5, <4>1, Zenon DEF Scrolled
      <4>3. t.term[p] = Flagged(n.term[<<x - 1, k>>], FALSE)
        BY <4>1, <4>2
      <4> QED BY <4>3, MarkParts, Zenon DEF p
    <3> DEFINE y == k - 1
    <3>2. \A x \in 1 .. ww : MarkOf(t.term[<<x - 1, y>>]) = MarkOf(n.term[<<x - 1, k>>])
      BY <3>1
    <3>3. Row(t, y) = Row(n, k)
      BY <3>2, SameRow
    <3>4. LinesOf(t)[k] = Row(t, y)
      <4>1. k \in 1 .. t.cy
        BY <1>2, <1>5
      <4> QED BY <1>2, <4>1, TextShape
    <3>5. LinesOf(n)[k + 1] = Row(n, k)
      <4> DEFINE m == k + 1
      <4>1. m \in 1 .. n.cy /\ m - 1 = k
        BY <1>5
      <4> HIDE DEF m
      <4>2. LinesOf(n)[m] = Row(n, m - 1)
        BY <4>1, TextShape
      <4> QED BY <4>1, <4>2 DEF m
    <3> QED BY <3>3, <3>4, <3>5
  <2> DEFINE a == LinesOf(n)
             b == LinesOf(t)
  <2>2. Lasts(a, wh) /\ Lasts(b, wh - 1) /\ \A k \in 1 .. wh - 1 : b[k] = a[k + 1]
    BY <1>2, <1>5, <2>1, TextShape
  <2> HIDE DEF a, b
  <2>3. b = Tail(a)
    BY <2>2, Dropped
  <2> QED BY <1>2, <1>3, <1>5, <2>3 DEF a, b, t
<1> QED BY <1>4, <1>5

\* A row is full.
LEMMA FullText ==
  ASSUME NEW s, Screen(s), Inside(s), NEW n, Screen(n), n.cx = 0, n.cy = s.cy + 1,
         \A p \in Cells : p[2] < s.cy => MarkOf(n.term[p]) = MarkOf(s.term[p])
  PROVE  LET t == Feed(n) IN
         /\ Screen(t) /\ Inside(t) /\ LineOf(t) = << >>
         /\ LinesOf(t) = FedLines(LinesOf(s), Row(n, s.cy))
<1> DEFINE t == Feed(n)
<1>1. LinesOf(n) = Append(LinesOf(s), Row(n, s.cy))
  BY RowAdded
<1>2. n.cy \in 1 .. wh /\ (n.cy < wh <=> Len(LinesOf(s)) + 1 < wh)
  BY TextShape DEF Inside
<1>3. /\ Screen(t) /\ Inside(t) /\ LineOf(t) = << >>
      /\ LinesOf(t) = IF n.cy < wh THEN LinesOf(n) ELSE Tail(LinesOf(n))
  BY <1>2, FeedText
<1> HIDE DEF t
<1> QED BY <1>1, <1>2, <1>3 DEF FedLines, t

LEMMA NewLineText ==
  ASSUME NEW s, Screen(s), Inside(s)
  PROVE  LET t == Feed(Wrap(NewLine(s))) IN
         /\ Screen(t) /\ Inside(t) /\ LineOf(t) = << >>
         /\ LinesOf(t) = FedLines(LinesOf(s), Padding(s))
<1> DEFINE cell(p) == IF p[2] = s.cy /\ p[1] >= s.cx THEN Over(s.term[p], Space) ELSE s.term[p]
           n == NewLine(s)
<1>1. /\ Screen(n) /\ n.cx = 0 /\ n.cy = s.cy + 1
      /\ \A p \in Cells : p # <<0, s.cy + 1>> =>
           n.term[p] = Flagged(cell(p), cell(p).mod /\ p \notin Window)
  BY NewLineShape, Zenon
<1> HIDE DEF n, cell
<1>2. Wrap(n) = n
  BY <1>1 DEF Wrap
<1>3. ASSUME NEW p \in Cells, p[2] <= s.cy
      PROVE  MarkOf(n.term[p]) = MarkOf(cell(p))
  <2>1. p # <<0, s.cy + 1>>
    BY <1>3 DEF Inside
  <2>2. n.term[p] = Flagged(cell(p), cell(p).mod /\ p \notin Window)
    BY <1>1, <2>1
  <2> QED BY <2>2, MarkParts, Zenon
<1>4. ASSUME NEW p \in Cells, p[2] < s.cy PROVE MarkOf(n.term[p]) = MarkOf(s.term[p])
  <2>1. s.cy \in Nat /\ p[2] \in Nat
    <3>1. p[2] \in 0 .. wh
      BY Place, Zenon
    <3> QED BY <3>1 DEF Inside
  <2>2. p[2] <= s.cy /\ cell(p) = s.term[p]
    BY <1>4, <2>1 DEF cell
  <2> QED BY <1>3, <2>2
<1>5. Row(n, s.cy) = Padding(s)
  <2>1. ASSUME NEW k \in 1 .. ww
        PROVE  MarkOf(n.term[<<k - 1, s.cy>>])
                 = IF k <= Len(LineOf(s)) THEN LineOf(s)[k] ELSE << >>
    <3> DEFINE p == <<k - 1, s.cy>>
    <3>1. p \in Cells /\ p[1] = k - 1 /\ p[2] = s.cy /\ p[2] <= s.cy
      BY Places DEF Inside
    <3>2. s.cx \in 0 .. ww - 1 /\ Len(LineOf(s)) = s.cx
          /\ (k <= s.cx => LineOf(s)[k] = MarkOf(s.term[p]))
      BY TextShape DEF Inside
    <3> HIDE DEF p
    <3>3. MarkOf(n.term[p]) = MarkOf(cell(p))
      BY <1>3, <3>1
    <3>4. CASE k <= s.cx
      <4>1. cell(p) = s.term[p]
        BY <3>1, <3>2, <3>4 DEF cell
      <4> QED BY <3>2, <3>3, <3>4, <4>1 DEF p
    <3>5. CASE k > s.cx
      <4>1. cell(p) = Over(s.term[p], Space)
        BY <3>1, <3>2, <3>5 DEF cell
      <4>2. MarkOf(cell(p)) = << >>
        BY <4>1, MarkParts, Zenon
      <4> QED BY <3>2, <3>3, <3>5, <4>2 DEF p
    <3> QED BY <3>2, <3>4, <3>5
  <2> QED BY <2>1 DEF Row, Padding
<1>6. LET t == Feed(n) IN
      /\ Screen(t) /\ Inside(t) /\ LineOf(t) = << >>
      /\ LinesOf(t) = FedLines(LinesOf(s), Row(n, s.cy))
  BY <1>1, <1>4, FullText
<1> QED BY <1>2, <1>5, <1>6, Zenon DEF n

LEMMA BackspaceText ==
  ASSUME NEW s, Screen(s), Inside(s)
  PROVE  LET t == Backspace(s) IN
         /\ s.cx = 0 => t = s
         /\ s.cx # 0 => LineOf(t) = SubSeq(LineOf(s), 1, Len(LineOf(s)) - 1) /\ LinesOf(t) = LinesOf(s)
<1> DEFINE t == Backspace(s)
<1>1. CASE s.cx = 0
  BY <1>1 DEF Backspace
<1>2. CASE s.cx # 0
  <2>1. /\ Screen(t) /\ t.cx = s.cx - 1 /\ t.cy = s.cy
        /\ \A p \in Cells :
             t.term[p] = IF p = <<s.cx, s.cy>> THEN Over(s.term[<<s.cx, s.cy>>], Space)
                         ELSE s.term[p]
    BY <1>2, BackspaceShape, Zenon
  <2> HIDE DEF t
  <2>2. ASSUME NEW j \in 1 .. s.cy PROVE Row(t, j - 1) = Row(s, j - 1)
    <3>1. \A k \in 1 .. ww : MarkOf(t.term[<<k - 1, j - 1>>]) = MarkOf(s.term[<<k - 1, j - 1>>])
      BY <2>1, Places DEF Screen
    <3> QED BY <3>1, SameRow
  <2>3. LinesOf(t) = LinesOf(s)
    BY <2>1, <2>2 DEF LinesOf
  <2>4. \A k \in 1 .. s.cx - 1 : t.term[<<k - 1, s.cy>>] = s.term[<<k - 1, s.cy>>]
    BY <2>1, Places DEF Inside
  <2> DEFINE a == LineOf(s)
             b == LineOf(t)
             m == s.cx
  <2>5. m \in Nat /\ m > 0 /\ Lasts(a, m) /\ Lasts(b, m - 1)
    BY <1>2, <2>1, TextShape
  <2>6. \A k \in 1 .. m - 1 : b[k] = a[k]
    BY <2>1, <2>4 DEF LineOf, Inside
  <2> HIDE DEF a, b, m
  <2>7. b = SubSeq(a, 1, Len(a) - 1)
    BY <2>5, <2>6, Shrunk
  <2> QED BY <1>2, <2>3, <2>7 DEF a, b, t
<1> QED BY <1>1, <1>2

LEMMA TypeText ==
  ASSUME NEW s, Screen(s), Inside(s), NEW c
  PROVE  LET mark == IF c = Space THEN << >> ELSE <<c, Ink>>
             t == Feed(Wrap(Type(s, c)))
         IN
         /\ Screen(t) /\ Inside(t)
         /\ s.cx + 1 < ww =>
              LineOf(t) = Append(LineOf(s), mark) /\ LinesOf(t) = LinesOf(s)
         /\ ~(s.cx + 1 < ww) =>
              /\ LineOf(t) = << >>
              /\ LinesOf(t) = FedLines(LinesOf(s), Append(LineOf(s), mark))
<1> DEFINE cell == [c |-> c, fg |-> pen.fg, bg |-> pen.bg, mod |-> TRUE]
           mark == IF c = Space THEN << >> ELSE <<c, Ink>>
           n == Type(s, c)
           w == Wrap(n)
           t == Feed(w)
<1>1. /\ Screen(n) /\ n.cx = s.cx + 1 /\ n.cy = s.cy
      /\ \A p \in Cells : n.term[p] = IF p = <<s.cx, s.cy>> THEN cell ELSE s.term[p]
  BY TypeShape, Zenon
<1>2. MarkOf(cell) = mark
  BY DEF MarkOf, Ink
<1> HIDE DEF n, cell, mark
<1>3. n.cy \in 0 .. wh - 1
  BY <1>1 DEF Inside
<1>4. /\ Screen(w) /\ w.term = n.term
      /\ IF n.cx = ww THEN w.cx = 0 /\ w.cy = n.cy + 1 ELSE w = n
  BY <1>1, <1>3, WrapShape
<1> HIDE DEF w
<1>5. w.cx \in 0 .. ww - 1
  BY <1>1, <1>4 DEF Screen
<1>6. /\ Screen(t) /\ Inside(t) /\ t.cx = w.cx
      /\ w.cy \in 0 .. wh - 1 => t = w
  BY <1>4, <1>5, FeedShape
<1>7. \A p \in Cells : p[2] < s.cy => MarkOf(n.term[p]) = MarkOf(s.term[p])
  BY <1>1 DEF Inside
\* The line and its new mark.
<1>8. LineOf(n) = Append(LineOf(s), mark)
  <2>1. n.term[<<s.cx, s.cy>>] = cell
    BY <1>1, Places DEF Inside
  <2>2. \A k \in 1 .. s.cx : n.term[<<k - 1, s.cy>>] = s.term[<<k - 1, s.cy>>]
    BY <1>1, Places DEF Inside
  <2> DEFINE a == LineOf(s)
             b == LineOf(n)
             m == s.cx
  <2>3. m \in Nat /\ Lasts(a, m) /\ Lasts(b, m + 1)
    BY <1>1, TextShape
  <2>4. \A k \in 1 .. m : b[k] = a[k]
    BY <1>1, <2>2 DEF LineOf, Inside
  <2>5. b[m + 1] = mark
    <3> DEFINE k == m + 1
    <3>1. k \in 1 .. n.cx /\ k - 1 = s.cx
      BY <1>1 DEF Inside
    <3> HIDE DEF k
    <3>2. LineOf(n)[k] = MarkOf(n.term[<<k - 1, n.cy>>])
      BY <1>1, <3>1, TextShape
    <3> QED BY <1>1, <1>2, <2>1, <3>1, <3>2 DEF k
  <2> HIDE DEF a, b, m
  <2>6. b = Append(a, b[m + 1])
    BY <2>3, <2>4, Grown
  <2> QED BY <2>5, <2>6 DEF a, b
<1> HIDE DEF t
<1>9. CASE s.cx + 1 < ww
  <2>1. t = n
    BY <1>1, <1>3, <1>4, <1>6, <1>9
  <2>2. ASSUME NEW j \in 1 .. s.cy PROVE Row(n, j - 1) = Row(s, j - 1)
    <3>1. \A k \in 1 .. ww : MarkOf(n.term[<<k - 1, j - 1>>]) = MarkOf(s.term[<<k - 1, j - 1>>])
      BY <1>1, Places DEF Screen
    <3> QED BY <3>1, SameRow
  <2>3. LinesOf(n) = LinesOf(s)
    BY <1>1, <2>2 DEF LinesOf
  <2> QED BY <1>6, <1>8, <1>9, <2>1, <2>3 DEF t, w, n, mark
<1>10. CASE ~(s.cx + 1 < ww)
  <2>1. s.cx + 1 = ww
    BY <1>10 DEF Inside
  <2>2. w.cx = 0 /\ w.cy = s.cy + 1 /\ \A p \in Cells : p[2] < s.cy => MarkOf(w.term[p]) = MarkOf(s.term[p])
    BY <1>1, <1>4, <1>7, <2>1
  <2>3. /\ LineOf(t) = << >>
        /\ LinesOf(t) = FedLines(LinesOf(s), Row(w, s.cy))
    BY <1>4, <2>2, FullText DEF t
  <2>4. Row(w, s.cy) = LineOf(n)
    BY <1>1, <1>4, <2>1 DEF Row, LineOf
  <2> QED BY <1>6, <1>8, <1>10, <2>3, <2>4 DEF t, w, n, mark
<1> QED BY <1>9, <1>10

LEMMA WrittenText ==
  ASSUME NEW s, Screen(s), Inside(s), NEW c
  PROVE  LET mark == IF c = Space THEN << >> ELSE <<c, Ink>>
             t == Written(s, c)
         IN
         /\ c = NL => LineOf(t) = << >> /\ LinesOf(t) = FedLines(LinesOf(s), Padding(s))
         /\ c = BS /\ s.cx = 0 => LineOf(t) = LineOf(s) /\ LinesOf(t) = LinesOf(s)
         /\ c = BS /\ s.cx # 0 =>
              LineOf(t) = SubSeq(LineOf(s), 1, Len(LineOf(s)) - 1) /\ LinesOf(t) = LinesOf(s)
         /\ c \notin {NL, BS} =>
              IF s.cx + 1 < ww
              THEN LineOf(t) = Append(LineOf(s), mark) /\ LinesOf(t) = LinesOf(s)
              ELSE /\ LineOf(t) = << >>
                   /\ LinesOf(t) = FedLines(LinesOf(s), Append(LineOf(s), mark))
<1> DEFINE b == Feed(Wrap(CASE c = NL -> NewLine(s)
                            [] c = BS -> Backspace(s)
                            [] OTHER -> Type(s, c)))
           mark == IF c = Space THEN << >> ELSE <<c, Ink>>
<1>1. NL # BS
  BY DEF NL, BS
<1>2. Written(s, c) = Cursor(b)
  BY DEF Written
<1>3. CASE c = NL
  <2>1. b = Feed(Wrap(NewLine(s)))
    BY <1>1, <1>3
  <2> HIDE DEF b
  <2>2. Screen(b) /\ Inside(b) /\ LineOf(b) = << >> /\ LinesOf(b) = FedLines(LinesOf(s), Padding(s))
    BY <2>1, NewLineText, Zenon
  <2>3. LineOf(Cursor(b)) = LineOf(b) /\ LinesOf(Cursor(b)) = LinesOf(b)
    BY <2>2, CursorText, Zenon
  <2> QED BY <1>1, <1>2, <1>3, <2>2, <2>3
<1>4. CASE c = BS
  <2>1. b = Feed(Wrap(Backspace(s)))
    BY <1>1, <1>4
  <2> HIDE DEF b
  <2>2. b = Backspace(s) /\ Screen(b) /\ Inside(b)
    BY <2>1, BackspacePage, Zenon
  <2>3. LineOf(Cursor(b)) = LineOf(b) /\ LinesOf(Cursor(b)) = LinesOf(b)
    BY <2>2, CursorText, Zenon
  <2>4. /\ s.cx = 0 => b = s
        /\ s.cx # 0 => LineOf(b) = SubSeq(LineOf(s), 1, Len(LineOf(s)) - 1) /\ LinesOf(b) = LinesOf(s)
    BY <2>2, BackspaceText, Zenon
  <2> QED BY <1>1, <1>2, <1>4, <2>3, <2>4
<1>5. CASE c \notin {NL, BS}
  <2>1. b = Feed(Wrap(Type(s, c)))
    BY <1>5
  <2> HIDE DEF b, mark
  <2>2. /\ Screen(b) /\ Inside(b)
        /\ s.cx + 1 < ww =>
             LineOf(b) = Append(LineOf(s), mark) /\ LinesOf(b) = LinesOf(s)
        /\ ~(s.cx + 1 < ww) =>
             /\ LineOf(b) = << >>
             /\ LinesOf(b) = FedLines(LinesOf(s), Append(LineOf(s), mark))
    BY <2>1, TypeText, Zenon DEF mark
  <2>3. LineOf(Cursor(b)) = LineOf(b) /\ LinesOf(Cursor(b)) = LinesOf(b)
    BY <2>2, CursorText, Zenon
  <2> QED BY <1>1, <1>2, <1>5, <2>2, <2>3 DEF mark
<1> QED BY <1>3, <1>4, <1>5

LEMMA BlankedText ==
  ASSUME NEW s, s.cx = 0, s.cy = 0
  PROVE  LineOf(s) = << >> /\ LinesOf(s) = << >>
BY DEF LineOf, LinesOf

-----------------------------------------------------------------------------
(* The terminal keeps the text                                              *)

(* What Terminal substitutes for the variables of Paper. *)
Lines == [j \in 1 .. scr.cy |-> [k \in 1 .. ww |-> MarkAt(k - 1, j - 1)]]
Line == [k \in 1 .. scr.cx |-> MarkAt(k - 1, scr.cy)]

LEMMA TheText == Lines = LinesOf(scr) /\ Line = LineOf(scr)
<1>1. \A x, y : MarkAt(x, y) = MarkOf(scr.term[<<x, y>>])
  BY DEF MarkAt, MarkOf
<1> QED BY <1>1 DEF Lines, Line, LinesOf, LineOf, Row

LEMMA TheNextText == Lines' = LinesOf(scr') /\ Line' = LineOf(scr')
<1>1. \A x, y : MarkAt(x, y)' = MarkOf(scr'.term[<<x, y>>])
  BY DEF MarkAt, MarkOf
<1> QED BY <1>1 DEF Lines, Line, LinesOf, LineOf, Row

\* A character that is not part of an escape sequence is written, erases or ends the line.
LEMMA WrittenIsPaper ==
  ASSUME PageInv, NEW c \in Bytes, UNCHANGED Ink,
         LineOf(scr') = LineOf(Written(scr, c)), LinesOf(scr') = LinesOf(Written(scr, c))
  PROVE  Sheet!Next
<1> DEFINE mark == IF c = Space THEN << >> ELSE <<c, Ink>>
           t == Written(scr, c)
<1>1. Screen(scr) /\ Inside(scr)
  BY DEF PageInv
<1>2. /\ c = NL => LineOf(t) = << >> /\ LinesOf(t) = FedLines(LinesOf(scr), Padding(scr))
      /\ c = BS /\ scr.cx = 0 => LineOf(t) = LineOf(scr) /\ LinesOf(t) = LinesOf(scr)
      /\ c = BS /\ scr.cx # 0 =>
           /\ LineOf(t) = SubSeq(LineOf(scr), 1, Len(LineOf(scr)) - 1)
           /\ LinesOf(t) = LinesOf(scr)
      /\ c \notin {NL, BS} =>
           IF scr.cx + 1 < ww
           THEN LineOf(t) = Append(LineOf(scr), mark) /\ LinesOf(t) = LinesOf(scr)
           ELSE /\ LineOf(t) = << >>
                /\ LinesOf(t) = FedLines(LinesOf(scr), Append(LineOf(scr), mark))
  BY <1>1, WrittenText, Zenon
<1>3. Lines' = LinesOf(t) /\ Line' = LineOf(t)
  BY TheNextText
<1>4. Lines = LinesOf(scr) /\ Line = LineOf(scr) /\ Len(Line) = scr.cx
  BY <1>1, TheText, TextShape
<1> HIDE DEF t
<1>5. CASE c = NL
  <2>1. Padding(scr) = [k \in 1 .. ww |-> IF k <= Len(Line) THEN Line[k] ELSE << >>]
    BY <1>4 DEF Padding
  <2>2. Line' = << >> /\ Lines' = FedLines(Lines, Padding(scr)) /\ UNCHANGED Ink
    BY <1>2, <1>3, <1>4, <1>5
  <2>3. Sheet!Padded = Padding(scr)
    BY <2>1 DEF Sheet!Padded, Sheet!NoMark, Line
  <2>4. Sheet!NewLine
    BY <2>2, <2>3, Zenon DEF Sheet!NewLine, Sheet!Fed, FedLines, Lines, Line
  <2> QED BY <2>4 DEF Sheet!Next
<1>6. CASE c = BS /\ scr.cx = 0
  <2>1. Line' = Line /\ Lines' = Lines
    BY <1>2, <1>3, <1>4, <1>6
  <2>2. Sheet!Recolour
    BY <2>1 DEF Sheet!Recolour, Lines, Line
  <2> QED BY <2>2 DEF Sheet!Next
<1>7. CASE c = BS /\ scr.cx # 0
  <2>1. Line' = SubSeq(Line, 1, Len(Line) - 1) /\ Lines' = Lines
    BY <1>2, <1>3, <1>4, <1>7
  <2>2. Line # << >>
    <3>1. Len(<< >>) = 0
      OBVIOUS
    <3> QED BY <1>4, <1>7, <3>1
  <2>3. Sheet!Erase
    BY <2>1, <2>2, Zenon DEF Sheet!Erase, Lines, Line
  <2> QED BY <2>3 DEF Sheet!Next
<1>8. CASE c \notin {NL, BS}
  <2>1. IF Len(Line) + 1 < ww
        THEN Line' = Append(Line, mark) /\ UNCHANGED Lines
        ELSE Line' = << >> /\ Lines' = FedLines(Lines, Append(Line, mark))
    BY <1>2, <1>3, <1>4, <1>8
  <2>2. Sheet!Mark(c) = mark
    BY DEF Sheet!Mark, Sheet!NoMark
  <2> HIDE DEF mark
  <2>3. Sheet!Put(c)
    BY <2>1, <2>2, Zenon DEF Sheet!Put, Sheet!Fed, FedLines, Lines, Line
  <2> QED BY <1>8, <2>3 DEF Sheet!Next
<1> QED BY <1>5, <1>6, <1>7, <1>8

\* The cells keep what was printed in its colours, on any window, and the escape sequences
\* leave no trace: Terminal implements Paper (vga_writechar, vga_scroll, vga_update_curs).
THEOREM TerminalKeepsText == Spec => KeepsText
<1>1. Init => Sheet!Init
  <2> SUFFICES ASSUME Init PROVE Sheet!Init
    OBVIOUS
  <2>1. LineOf(scr) = << >> /\ LinesOf(scr) = << >>
    BY BlankedText DEF Init
  <2>2. Line = << >> /\ Lines = << >>
    BY <2>1, TheText
  <2> QED BY <2>2 DEF Sheet!Init, Lines, Line
<1>2. PageInv /\ [Next]_vars => [Sheet!Next]_<<Lines, Line, Ink>>
  <2> SUFFICES ASSUME PageInv, [Next]_vars, ~ UNCHANGED <<Lines, Line, Ink>> PROVE Sheet!Next
    OBVIOUS
  <2>1. Screen(scr) /\ Inside(scr)
    BY DEF PageInv
  <2>2. ASSUME NEW s, Screen(s), Inside(s)
        PROVE  LineOf(Redraw(s)) = LineOf(s) /\ LinesOf(Redraw(s)) = LinesOf(s)
    BY <2>2, RedrawText, Zenon
  <2>3. ASSUME LineOf(scr') = LineOf(scr), LinesOf(scr') = LinesOf(scr)
        PROVE  Sheet!Next
    <3>1. Line' = Line /\ Lines' = Lines
      BY <2>3, TheText, TheNextText
    <3>2. Sheet!Recolour
      BY <3>1 DEF Sheet!Recolour, Lines, Line
    <3> QED BY <3>2 DEF Sheet!Next
  <2>4. ASSUME NEW c \in Bytes, NEW redraw \in BOOLEAN, PutChar(c, redraw)
        PROVE  Sheet!Next
    <3>1. \/ scr' = Shown(Written(scr, c), redraw) /\ UNCHANGED pen
          \/ scr' = Shown(scr, redraw)
      BY <2>4, Zenon DEF PutChar
    <3>2. CASE scr' = Shown(Written(scr, c), redraw) /\ UNCHANGED pen
      <4> DEFINE t == Written(scr, c)
      <4>1. Screen(t) /\ Inside(t)
        BY <2>1, WrittenPage, Zenon
      <4> HIDE DEF t
      <4>2. LineOf(scr') = LineOf(t) /\ LinesOf(scr') = LinesOf(t)
        BY <2>2, <3>2, <4>1, Zenon DEF Shown, t
      <4>3. UNCHANGED Ink
        BY <3>2 DEF Ink
      <4> QED BY <4>2, <4>3, WrittenIsPaper DEF t
    <3>3. CASE scr' = Shown(scr, redraw)
      <4>1. LineOf(scr') = LineOf(scr) /\ LinesOf(scr') = LinesOf(scr)
        BY <2>1, <2>2, <3>3, Zenon DEF Shown
      <4> QED BY <2>3, <4>1
    <3> QED BY <3>1, <3>2, <3>3
  <2>5. ASSUME NEW c \in Bytes, Kprintf(c) \/ Echo(c) \/ WriteChar(c)
        PROVE  Sheet!Next
    BY <2>4, <2>5, Zenon DEF Kprintf, Echo, WriteChar
  <2>6. CASE WriteEnd
    <3>1. scr' = Redraw(scr)
      BY <2>6 DEF WriteEnd
    <3>2. LineOf(scr') = LineOf(scr) /\ LinesOf(scr') = LinesOf(scr)
      BY <2>1, <2>2, <3>1, Zenon
    <3> QED BY <2>3, <3>2
  <2>7. CASE Blink
    <3> DEFINE s == [scr EXCEPT !.cs = ~scr.cs]
    <3>1. Screen(s) /\ s.cx = scr.cx /\ s.cy = scr.cy /\ s.term = scr.term
      BY <2>1, BlinkShape
    <3>2. scr' = Redraw(s)
      BY <2>7 DEF Blink
    <3> HIDE DEF s
    <3>3. Inside(s) /\ LineOf(s) = LineOf(scr) /\ LinesOf(s) = LinesOf(scr)
      BY <2>1, <3>1 DEF Inside, LineOf, LinesOf, Row
    <3>4. LineOf(scr') = LineOf(scr) /\ LinesOf(scr') = LinesOf(scr)
      BY <2>2, <3>1, <3>2, <3>3, Zenon
    <3> QED BY <2>3, <3>4
  <2>8. CASE Clear
    <3> DEFINE s == Blanked(scr, pen.fg, pen.bg)
    <3>1. Screen(s) /\ Inside(s) /\ s.cx = 0 /\ s.cy = 0
      BY <2>1, ClearPage, Zenon
    <3>2. scr' = Redraw(s) /\ UNCHANGED pen
      BY <2>8 DEF Clear, Blanked
    <3> HIDE DEF s
    <3>3. LineOf(scr') = << >> /\ LinesOf(scr') = << >>
      BY <2>2, <3>1, <3>2, BlankedText, Zenon
    <3>4. Line' = << >> /\ Lines' = << >> /\ UNCHANGED Ink
      BY <3>2, <3>3, TheNextText DEF Ink
    <3>5. Sheet!Clear
      BY <3>4 DEF Sheet!Clear, Lines, Line
    <3> QED BY <3>5 DEF Sheet!Next
  <2>9. CASE UNCHANGED vars
    <3>1. UNCHANGED <<Lines, Line, Ink>>
      <4>1. LineOf(scr') = LineOf(scr) /\ LinesOf(scr') = LinesOf(scr) /\ UNCHANGED Ink
        BY <2>9 DEF vars, Ink
      <4> QED BY <4>1, TheText, TheNextText
    <3> QED BY <3>1
  <2> QED BY <2>5, <2>6, <2>7, <2>8, <2>9 DEF Next
<1>3. Sheet!Spec <=> Sheet!Init /\ [][Sheet!Next]_<<Lines, Line, Ink>>
  BY DEF Sheet!Spec, Sheet!vars, Lines, Line
<1> QED BY <1>1, <1>2, <1>3, PageInvariance, PTL DEF Spec, KeepsText

-----------------------------------------------------------------------------
(* The pen: FoldLeft over the parameters of ESC [ ... m                     *)

Pens == [fg : Shade, bg : Shade, bold : {0, 1}]

\* A parameter of ESC [ ... m leaves a pen: a colour out of range is -1.
LEMMA SgrType ==
  ASSUME NEW p \in Pens, NEW n \in Nat
  PROVE  Sgr(p, n) \in Pens
<1>1. \A m : Colour(m) \in Shade
  BY DEF Colour, Shade
<1>2. 14 \in Shade /\ 0 \in Shade
  BY DEF Shade
<1> QED BY <1>1, <1>2 DEF Sgr, Pens

Smaller == {ss \in Nat \X Nat : ss[1] < ss[2]}

LEMMA LeastOf ==
  ASSUME NEW S \in SUBSET Nat, S # {}
  PROVE  \E m \in S : \A y \in S : m <= y
<1>1. IsWellFoundedOn(Smaller, Nat)
  BY NatLessThanWellFounded DEF OpToRel, Smaller
<1>2. PICK x \in S : \A y \in S : ~ (<<y, x>> \in Smaller)
  BY <1>1, WFMin
<1>3. \A y \in S : ~ (y < x)
  BY <1>2 DEF Smaller
<1> QED BY <1>3

LEMMA GreatestOf ==
  ASSUME NEW n \in Nat, NEW S \in SUBSET (1 .. n), S # {}
  PROVE  Max(S) \in S /\ \A y \in S : y <= Max(S)
<1> DEFINE T == {n - x : x \in S}
<1>1. \A x \in S : x \in 1 .. n /\ n - x \in Nat
  OBVIOUS
<1>2. T \in SUBSET Nat /\ T # {}
  BY <1>1
<1>3. PICK m \in T : \A t \in T : m <= t
  BY <1>2, LeastOf
<1>4. PICK x \in S : m = n - x
  OBVIOUS
<1>5. \A y \in S : x >= y
  BY <1>1, <1>3, <1>4
<1>6. Max(S) \in S /\ \A y \in S : Max(S) >= y
  BY <1>4, <1>5 DEF Max
<1> QED BY <1>1, <1>6

\* The function of FoldLeft: on a set of positions, the pen after their parameters.
Iterates(f, k, p, seq) ==
  f = [s \in SUBSET (1 .. k) |->
         IF s = {} THEN p ELSE Sgr(f[s \ {Max(s)}], seq[Max(s)])]

LEMMA IterateOf ==
  ASSUME NEW n \in Nat, NEW p, NEW seq
  PROVE  \E f : Iterates(f, n, p, seq)
<1> DEFINE Bad == {k \in Nat : ~ \E f : Iterates(f, k, p, seq)}
<1>1. ASSUME Bad # {} PROVE FALSE
  <2>1. PICK m \in Bad : \A y \in Bad : m <= y
    BY <1>1, LeastOf
  <2>2. CASE m = 0
    <3> DEFINE f == [s \in SUBSET (1 .. 0) |-> p]
    <3>1. \A s \in SUBSET (1 .. 0) : s = {}
      OBVIOUS
    <3>2. Iterates(f, 0, p, seq)
      BY <3>1 DEF Iterates
    <3> QED BY <2>2, <3>2
  <2>3. CASE m # 0
    <3>1. m - 1 \in Nat /\ m - 1 \notin Bad
      BY <2>1, <2>3
    <3>2. PICK f : Iterates(f, m - 1, p, seq)
      BY <3>1
    <3> DEFINE g == [s \in SUBSET (1 .. m) |->
                       IF m \in s THEN Sgr(f[s \ {m}], seq[m]) ELSE f[s]]
    <3>3. ASSUME NEW s \in SUBSET (1 .. m)
          PROVE  g[s] = IF s = {} THEN p ELSE Sgr(g[s \ {Max(s)}], seq[Max(s)])
      <4>1. CASE m \in s
        <5>1. Max(s) = m
          <6>1. m \in Nat /\ s # {}
            BY <2>1, <4>1
          <6>2. Max(s) \in s /\ \A y \in s : y <= Max(s)
            BY <6>1, GreatestOf
          <6>3. PICK x : x = Max(s)
            OBVIOUS
          <6>4. x \in 1 .. m /\ m <= x
            BY <4>1, <6>2, <6>3
          <6> QED BY <6>1, <6>3, <6>4
        <5>2. s \ {m} \in SUBSET (1 .. m) /\ m \notin s \ {m}
          OBVIOUS
        <5>3. g[s \ {m}] = f[s \ {m}]
          BY <5>2
        <5> QED BY <4>1, <5>1, <5>3
      <4>2. CASE m \notin s
        <5>1. s \in SUBSET (1 .. m - 1)
          BY <4>2, <2>3
        <5>2. s \ {Max(s)} \in SUBSET (1 .. m) /\ m \notin s \ {Max(s)}
          BY <4>2
        <5>3. g[s] = f[s] /\ g[s \ {Max(s)}] = f[s \ {Max(s)}]
          BY <4>2, <5>2
        <5>4. f[s] = IF s = {} THEN p ELSE Sgr(f[s \ {Max(s)}], seq[Max(s)])
          BY <3>2, <5>1, Zenon DEF Iterates
        <5> QED BY <5>3, <5>4
      <4> QED BY <4>1, <4>2
    <3>4. Iterates(g, m, p, seq)
      BY <3>3, Zenon DEF Iterates
    <3> QED BY <2>1, <3>4
  <2> QED BY <2>2, <2>3
<1> QED BY <1>1

\* The fold of vga_csi_dispatch over the parameters yields a pen.
LEMMA FoldType ==
  ASSUME NEW n \in Nat, NEW p \in Pens, NEW seq, DOMAIN seq = 1 .. n,
         \A i \in 1 .. n : seq[i] \in Nat
  PROVE  FoldLeft(Sgr, p, seq) \in Pens
<1> DEFINE f == CHOOSE g : Iterates(g, n, p, seq)
<1>1. FoldLeft(Sgr, p, seq) = f[1 .. n]
  BY DEF FoldLeft, MapThenFoldSet, Iterates
<1>2. Iterates(f, n, p, seq)
  BY IterateOf
<1> HIDE DEF f
<1>3. \A s \in SUBSET (1 .. n) :
         f[s] = IF s = {} THEN p ELSE Sgr(f[s \ {Max(s)}], seq[Max(s)])
  BY <1>2, Zenon DEF Iterates
<1> DEFINE Bad == {k \in Nat : k <= n /\ \E s \in SUBSET (1 .. k) : f[s] \notin Pens}
<1>4. ASSUME Bad # {} PROVE FALSE
  <2>1. PICK m \in Bad : \A y \in Bad : m <= y
    BY <1>4, LeastOf
  <2>9. m \in Nat /\ m <= n
    BY <2>1
  <2>2. PICK s \in SUBSET (1 .. m) : f[s] \notin Pens
    BY <2>1
  <2>3. s \in SUBSET (1 .. n) /\ s # {}
    <3>1. s \in SUBSET (1 .. n)
      BY <2>2, <2>9
    <3>2. s = {} => f[s] = p
      BY <1>3, <3>1
    <3> QED BY <2>2, <3>1, <3>2
  <2>4. Max(s) \in 1 .. m /\ Max(s) \in s /\ \A y \in s : y <= Max(s)
    BY <2>2, <2>3, <2>9, GreatestOf
  <2>10. PICK x : x = Max(s)
    OBVIOUS
  <2>5. s \ {x} \in SUBSET (1 .. m - 1)
    <3>1. \A y \in s \ {x} : y \in 1 .. m /\ x \in 1 .. m /\ y <= x /\ y # x
      BY <2>4, <2>10
    <3>2. \A y \in s \ {x} : y \in 1 .. m - 1
      BY <2>9, <3>1
    <3> QED BY <3>2
  <2>6. m - 1 \in Nat /\ m - 1 <= n
    BY <2>4, <2>9
  <2>11. m - 1 \notin Bad
    BY <2>1, <2>6
  <2>7. f[s \ {x}] \in Pens
    BY <2>5, <2>6, <2>11
  <2>8. f[s] = Sgr(f[s \ {x}], seq[x]) /\ seq[x] \in Nat
    BY <1>3, <2>3, <2>4, <2>9, <2>10
  <2> QED BY <2>2, <2>7, <2>8, SgrType
<1>5. n \notin Bad
  BY <1>4
<1> QED BY <1>1, <1>5

-----------------------------------------------------------------------------
(* Types                                                                    *)

\* A screen of cells that hold characters and colours.
Hues == [c : Glyph, fg : Shade, bg : Shade, mod : BOOLEAN]
Pixels == [c : Glyph \cup {-1}, fg : Shade, bg : Shade]
Typed(s) ==
  s \in [cx : 0 .. ww, cy : 0 .. wh, cs : BOOLEAN, term : [Cells -> Hues], shown : [Window -> Pixels]]

LEMMA TypedParts ==
  ASSUME NEW s, Typed(s)
  PROVE  s.term \in [Cells -> Hues] /\ s.cx \in 0 .. ww /\ s.cy \in 0 .. wh
BY DEF Typed

LEMMA MovedTyped ==
  ASSUME NEW s, Typed(s), NEW x, NEW y, NEW cells,
         x \in 0 .. ww, y \in 0 .. wh, cells \in [Cells -> Hues]
  PROVE  /\ Typed(Moved(s, x, y, cells))
         /\ Moved(s, x, y, cells).cx = x /\ Moved(s, x, y, cells).cy = y
BY DEF Typed, Moved

LEMMA MovedEach ==
  ASSUME NEW s, Typed(s), NEW x, NEW y
  PROVE  /\ Moved(s, x, y, s.term) = [s EXCEPT !.cx = x, !.cy = y]
         /\ Moved(s, s.cx, y, s.term) = [s EXCEPT !.cy = y]
BY DEF Typed, Moved

LEMMA HueType ==
  ASSUME NEW cell \in Hues
  PROVE  /\ Look(cell) \in Pixels
         /\ \A mod \in BOOLEAN : Flagged(cell, mod) \in Hues
         /\ \A c \in Glyph : Over(cell, c) \in Hues
BY DEF Look, Flagged, Over, Hues, Pixels

LEMMA CursorTyped ==
  ASSUME NEW s, Typed(s), s.cx \in 0 .. ww - 1
  PROVE  Typed(Cursor(s)) /\ Cursor(s).cx = s.cx /\ Cursor(s).cy = s.cy
<1> DEFINE here == <<s.cx, s.cy>>
           cell == Over(s.term[here], IF s.cs THEN Underscore ELSE Space)
<1>1. here \in Cells
  BY Places DEF Typed
<1>2. cell \in Hues
  <2>1. (IF s.cs THEN Underscore ELSE Space) \in Glyph
    BY DEF Glyph
  <2>2. s.term[here] \in Hues
    BY <1>1 DEF Typed
  <2> QED BY <2>1, <2>2, HueType
<1>3. Cursor(s) = [s EXCEPT !.term[here] = cell]
  BY <1>1 DEF Cursor, Typed
<1> HIDE DEF cell, here
<1> QED BY <1>1, <1>2, <1>3 DEF Typed

LEMMA RedrawTyped ==
  ASSUME NEW s, Typed(s), s.cx \in 0 .. ww - 1
  PROVE  Typed(Redraw(s)) /\ Redraw(s).cx = s.cx /\ Redraw(s).cy = s.cy
<1> DEFINE t == Cursor(s)
           look == [p \in Window |-> IF t.term[p].mod THEN Look(t.term[p]) ELSE t.shown[p]]
           cells == [p \in Cells |-> Flagged(t.term[p], t.term[p].mod /\ p \notin Window)]
<1>1. Typed(t) /\ t.cx = s.cx /\ t.cy = s.cy
  BY CursorTyped
<1>2. Redraw(s) = [t EXCEPT !.shown = look, !.term = cells]
  BY DEF Redraw, Painted
<1> HIDE DEF t
<1>3. look \in [Window -> Pixels]
  <2> SUFFICES ASSUME NEW p \in Window PROVE (IF t.term[p].mod THEN Look(t.term[p]) ELSE t.shown[p]) \in Pixels
    OBVIOUS
  <2>1. t.term[p] \in Hues /\ t.shown[p] \in Pixels
    BY <1>1, Places DEF Typed
  <2> QED BY <2>1, HueType
<1>4. cells \in [Cells -> Hues]
  <2> SUFFICES ASSUME NEW p \in Cells PROVE Flagged(t.term[p], t.term[p].mod /\ p \notin Window) \in Hues
    OBVIOUS
  <2>1. t.term[p] \in Hues
    BY <1>1 DEF Typed
  <2> QED BY <2>1, HueType DEF Hues
<1> HIDE DEF look, cells
<1> QED BY <1>1, <1>2, <1>3, <1>4 DEF Typed

LEMMA FeedTyped ==
  ASSUME NEW s, Typed(s)
  PROVE  Typed(Feed(s)) /\ Feed(s).cx = s.cx
<1>1. CASE ~(s.cy > wh - 1)
  BY <1>1 DEF Feed
<1>2. CASE s.cy > wh - 1
  <2> DEFINE t == [s EXCEPT !.cy = wh - 1]
             below(p) == t.term[<<p[1], p[2] + 1>>]
             look == [p \in Window |->
                        IF p \notin Upper THEN Look(Over(t.term[p], Space))
                        ELSE IF t.term[p].c # below(p).c THEN Look(below(p)) ELSE t.shown[p]]
             cells == [p \in Cells |-> IF p \in Upper THEN Flagged(below(p), FALSE) ELSE t.term[p]]
  <2>1. Typed(t) /\ t.cx = s.cx
    <3>1. s.cx \in 0 .. ww /\ wh - 1 \in 0 .. wh /\ s.term \in [Cells -> Hues]
      BY DEF Typed
    <3>2. PICK y \in 0 .. wh : y = wh - 1
      BY <3>1
    <3>3. t = Moved(s, s.cx, y, s.term)
      BY <3>1, <3>2, MovedEach
    <3> HIDE DEF t
    <3>4. Typed(Moved(s, s.cx, y, s.term)) /\ Moved(s, s.cx, y, s.term).cx = s.cx
      BY <3>1, <3>2, MovedTyped
    <3> QED BY <3>3, <3>4, Zenon
  <2>2. Feed(s) = [t EXCEPT !.shown = look, !.term = cells]
    BY <1>2 DEF Feed, Scroll
  <2> HIDE DEF t
  <2>3. \A p \in Cells : t.term[p] \in Hues
    BY <2>1 DEF Typed
  <2>4. \A p \in Upper : below(p) \in Hues
    <3> SUFFICES ASSUME NEW p \in Upper PROVE <<p[1], p[2] + 1>> \in Cells
      BY <2>3
    <3> QED BY Place, Places
  <2>5. look \in [Window -> Pixels]
    <3> SUFFICES ASSUME NEW p \in Window
                 PROVE  (IF p \notin Upper THEN Look(Over(t.term[p], Space))
                         ELSE IF t.term[p].c # below(p).c THEN Look(below(p)) ELSE t.shown[p]) \in Pixels
      BY Zenon
    <3>1. t.term[p] \in Hues /\ t.shown[p] \in Pixels
      BY <2>1, Places DEF Typed
    <3>2. Look(Over(t.term[p], Space)) \in Pixels
      BY <3>1, HueType DEF Glyph
    <3>3. p \in Upper => Look(below(p)) \in Pixels
      BY <2>4, HueType
    <3> HIDE DEF below
    <3> QED BY <3>1, <3>2, <3>3
  <2>6. cells \in [Cells -> Hues]
    <3> SUFFICES ASSUME NEW p \in Cells
                 PROVE  (IF p \in Upper THEN Flagged(below(p), FALSE) ELSE t.term[p]) \in Hues
      BY Zenon
    <3>1. p \in Upper => Flagged(below(p), FALSE) \in Hues
      BY <2>4, HueType
    <3> HIDE DEF below
    <3> QED BY <2>3, <3>1
  <2> HIDE DEF look, cells
  <2> QED BY <2>1, <2>2, <2>5, <2>6 DEF Typed
<1> QED BY <1>1, <1>2

LEMMA WrapTyped ==
  ASSUME NEW s, Typed(s), s.cy \in 0 .. wh - 1 \/ s.cx \in 0 .. ww - 1
  PROVE  Typed(Wrap(s)) /\ Wrap(s).cx \in 0 .. ww - 1
<1>1. s.cx \in 0 .. ww /\ s.cy \in 0 .. wh /\ s.term \in [Cells -> Hues]
  BY DEF Typed
<1>2. CASE s.cx > ww - 1
  <2>1. PICK y \in 0 .. wh : y = s.cy + 1
    BY <1>1, <1>2
  <2>2. Wrap(s) = Moved(s, 0, y, s.term)
    <3>1. Wrap(s) = [s EXCEPT !.cx = 0, !.cy = y]
      BY <1>2, <2>1 DEF Wrap
    <3>2. Moved(s, 0, y, s.term) = [s EXCEPT !.cx = 0, !.cy = y]
      BY DEF Moved, Typed
    <3> QED BY <3>1, <3>2, Zenon
  <2>3. 0 \in 0 .. ww /\ 0 \in 0 .. ww - 1
    OBVIOUS
  <2> QED BY <1>1, <2>2, <2>3, MovedTyped
<1>3. CASE ~(s.cx > ww - 1)
  BY <1>1, <1>3 DEF Wrap
<1> QED BY <1>2, <1>3

\* The step of vga_writechar that depends on the character.
LEMMA StepTyped ==
  ASSUME NEW s, Typed(s), Inside(s), NEW c \in Bytes, pen \in Pens,
         NEW b, b = CASE c = NL -> NewLine(s) [] c = BS -> Backspace(s) [] OTHER -> Type(s, c)
  PROVE  Typed(b) /\ (b.cy \in 0 .. wh - 1 \/ b.cx \in 0 .. ww - 1)
<1> DEFINE here == <<s.cx, s.cy>>
<1>1. here \in Cells /\ s.term[here] \in Hues /\ Space \in Glyph /\ c \in Glyph
  BY Places DEF Typed, Inside, Glyph
<1>2. CASE c = NL
  <2> DEFINE cells == [p \in Cells |->
                         IF p[2] = s.cy /\ p[1] >= s.cx THEN Over(s.term[p], Space) ELSE s.term[p]]
  <2>1. b = Redraw([s EXCEPT !.cx = 0, !.cy = s.cy + 1, !.term = cells])
    BY <1>2 DEF NewLine, NL, BS
  <2>2. cells \in [Cells -> Hues]
    <3> SUFFICES ASSUME NEW p \in Cells
                 PROVE  Over(s.term[p], Space) \in Hues /\ s.term[p] \in Hues
      BY Zenon
    <3>1. s.term[p] \in Hues
      BY DEF Typed
    <3> QED BY <1>1, <3>1, HueType
  <2> HIDE DEF cells
  <2>3. PICK y \in 0 .. wh : y = s.cy + 1
    BY DEF Typed, Inside
  <2>4. PICK n : n = Moved(s, 0, y, cells)
    OBVIOUS
  <2>5. b = Redraw(n)
    BY <2>1, <2>3, <2>4 DEF Moved
  <2>6. Typed(n) /\ n.cx = 0
    <3>1. 0 \in 0 .. ww
      OBVIOUS
    <3> QED BY <2>2, <2>4, <3>1, MovedTyped
  <2>7. Typed(b) /\ b.cx = n.cx
    BY <2>5, <2>6, RedrawTyped
  <2> QED BY <2>6, <2>7
<1>3. CASE c = BS
  <2>1. CASE s.cx = 0
    <3>1. b = s
      BY <1>3, <2>1 DEF Backspace, NL, BS
    <3> QED BY <3>1 DEF Inside
  <2>2. CASE s.cx # 0
    <3> DEFINE cell == Over(s.term[here], Space)
    <3>1. cell \in Hues
      BY <1>1, HueType
    <3>2. b = [s EXCEPT !.cx = s.cx - 1, !.term[here] = cell]
      BY <1>1, <1>3, <2>2 DEF Backspace, Typed, NL, BS
    <3> HIDE DEF cell, here
    <3>3. PICK cells : cells = [s.term EXCEPT ![here] = cell]
      OBVIOUS
    <3>4. cells \in [Cells -> Hues]
      BY <3>1, <3>3 DEF Typed
    <3>5. PICK x \in 0 .. ww : x = s.cx - 1
      BY <2>2 DEF Inside
    <3>6. b = Moved(s, x, s.cy, cells)
      BY <3>2, <3>3, <3>5 DEF Moved, Typed
    <3>7. s.cy \in 0 .. wh
      BY DEF Typed
    <3> QED BY <3>4, <3>6, <3>7, MovedTyped DEF Inside
  <2> QED BY <2>1, <2>2
<1>4. CASE c # NL /\ c # BS
  <2> DEFINE cell == [c |-> c, fg |-> pen.fg, bg |-> pen.bg, mod |-> TRUE]
  <2>1. cell \in Hues
    BY <1>1 DEF Hues, Pens
  <2>2. b = [s EXCEPT !.cx = s.cx + 1, !.term[here] = cell]
    BY <1>4 DEF Type
  <2> HIDE DEF cell, here
  <2>3. PICK cells : cells = [s.term EXCEPT ![here] = cell]
    OBVIOUS
  <2>4. cells \in [Cells -> Hues]
    BY <2>1, <2>3 DEF Typed
  <2>5. PICK x \in 0 .. ww : x = s.cx + 1
    BY DEF Inside
  <2>6. b = Moved(s, x, s.cy, cells)
    BY <2>2, <2>3, <2>5 DEF Moved, Typed
  <2>7. s.cy \in 0 .. wh
    BY DEF Typed
  <2> QED BY <2>4, <2>6, <2>7, MovedTyped DEF Inside
<1> QED BY <1>2, <1>3, <1>4

LEMMA WrittenTyped ==
  ASSUME NEW s, Typed(s), Inside(s), NEW c \in Bytes, pen \in Pens
  PROVE  Typed(Written(s, c))
<1> DEFINE b == CASE c = NL -> NewLine(s) [] c = BS -> Backspace(s) [] OTHER -> Type(s, c)
<1>1. Typed(b) /\ (b.cy \in 0 .. wh - 1 \/ b.cx \in 0 .. ww - 1)
  BY StepTyped
<1>2. Written(s, c) = Cursor(Feed(Wrap(b)))
  BY DEF Written
<1> HIDE DEF b
<1>3. Typed(Wrap(b)) /\ Wrap(b).cx \in 0 .. ww - 1
  BY <1>1, WrapTyped
<1>4. Typed(Feed(Wrap(b))) /\ Feed(Wrap(b)).cx = Wrap(b).cx
  BY <1>3, FeedTyped
<1> QED BY <1>2, <1>3, <1>4, CursorTyped

Automata ==
  [state : 0 .. 13, params : [1 .. NParams -> 0 .. MaxParam], pi : 0 .. NParams - 1]

\* In each state a byte has a next state: Own and Anywhere name states, and the rest stay.
LEMMA NextStateType ==
  ASSUME NEW state \in 0 .. 13, NEW c
  PROVE  NextState(state, c) \in 0 .. 13
<1> DEFINE go(rows) == {row[1] : row \in {r \in rows : c \in r[2]}}
           own == go(Own(state))
           any == go(Anywhere)
<1>1. own \subseteq 0 .. 13
  <2>1. \A row \in Own(state) : row[1] \in 0 .. 13
    BY DEF Own
  <2> QED BY <2>1
<1>2. any \subseteq 0 .. 13
  <2>1. \A row \in Anywhere : row[1] \in 0 .. 13
    BY DEF Anywhere
  <2> QED BY <2>1
<1>3. NextState(state, c) =
        CHOOSE n \in 0 .. 13 :
          IF own # {} THEN n \in own ELSE IF any # {} THEN n \in any ELSE n = state
  BY DEF NextState
<1> HIDE DEF own, any
<1>4. \E n \in 0 .. 13 :
        IF own # {} THEN n \in own ELSE IF any # {} THEN n \in any ELSE n = state
  BY <1>1, <1>2
<1> QED BY <1>3, <1>4

\* vga_csi_dispatch reads as many parameters as it has got.
LEMMA DispatchType ==
  ASSUME vt100 \in Automata, pen \in Pens, NEW c
  PROVE  Dispatch(c) \in Pens
<1> USE ParamsAssumption
<1> DEFINE n == vt100.pi + 1
           seq == SubSeq(vt100.params, 1, n)
<1>1. n \in Nat /\ n <= NParams /\ n >= 1
  BY DEF Automata
<1>2. DOMAIN seq = 1 .. n /\ \A i \in 1 .. n : seq[i] \in Nat
  <2>1. \A i \in 1 .. NParams : vt100.params[i] \in Nat
    BY DEF Automata
  <2> HIDE DEF n
  <2>2. vt100.params \in Seq(Nat) /\ Len(vt100.params) = NParams
    BY DEF Automata
  <2>3. seq = [i \in 1 .. n |-> vt100.params[i]]
    BY <1>1, <2>2
  <2> QED BY <1>1, <2>1, <2>3
<1> HIDE DEF seq, n
<1>3. FoldLeft(Sgr, pen, seq) \in Pens
  BY <1>1, <1>2, FoldType
<1> QED BY <1>3 DEF Dispatch, seq, n

(* TypeOK by parts; it is inductive once the screen is a record.             *)
LEMMA TypesMean ==
  TypeOK <=> /\ scr.cx \in 0 .. ww - 1 /\ scr.cy \in 0 .. wh - 1
             /\ scr.term \in [Cells -> Hues] /\ scr.shown \in [Window -> Pixels]
             /\ scr.cs \in BOOLEAN
             /\ vt100 \in Automata /\ pen \in Pens /\ writing \in BOOLEAN /\ lost \in BOOLEAN
BY DEF TypeOK, Hues, Pixels, Automata, Pens

TermInv ==
  /\ Typed(scr) /\ Inside(scr)
  /\ vt100 \in Automata /\ pen \in Pens /\ writing \in BOOLEAN /\ lost \in BOOLEAN

\* vga_putchar: the parameter a digit is added to is one of the NParams.
LEMMA ParamsStep ==
  ASSUME vt100 \in Automata, NEW next \in 0 .. 13, NEW c \in Bytes, c \in Digit \cup {Semicolon},
         IF c = Semicolon
         THEN /\ vt100.pi + 1 < NParams
              /\ vt100' = [vt100 EXCEPT !.state = next, !.pi = @ + 1]
         ELSE LET value == vt100.params[vt100.pi + 1] * 10 + (c - Zero) IN
              /\ value <= MaxParam
              /\ vt100' = [vt100 EXCEPT !.state = next, !.params[vt100.pi + 1] = value]
  PROVE  vt100' \in Automata
<1> USE ParamsAssumption
<1>1. CASE c = Semicolon
  <2>1. vt100.pi + 1 \in 0 .. NParams - 1
    BY <1>1 DEF Automata
  <2>2. PICK i : i = vt100.pi + 1
    OBVIOUS
  <2>3. vt100' = [vt100 EXCEPT !.state = next, !.pi = i]
    BY <1>1, <2>2
  <2> QED BY <2>1, <2>2, <2>3 DEF Automata
<1>2. CASE c # Semicolon
  <2> DEFINE k == vt100.pi + 1
             value == vt100.params[k] * 10 + (c - Zero)
             params == [vt100.params EXCEPT ![k] = value]
  <2>1. k \in 1 .. NParams /\ vt100.params \in [1 .. NParams -> 0 .. MaxParam]
    BY DEF Automata
  <2>2. vt100.params[k] \in 0 .. MaxParam /\ c - Zero \in 0 .. 9
    BY <1>2, <2>1 DEF Digit, Zero, Semicolon
  <2>3. value \in 0 .. MaxParam
    BY <1>2, <2>2
  <2>4. vt100' = [vt100 EXCEPT !.state = next, !.params = params]
    BY <1>2 DEF Automata
  <2> HIDE DEF value, k
  <2>5. params \in [1 .. NParams -> 0 .. MaxParam]
    BY <2>1, <2>3
  <2> HIDE DEF params
  <2> QED BY <2>4, <2>5 DEF Automata
<1> QED BY <1>1, <1>2

LEMMA ParamAction ==
  ASSUME NEW state, NEW c, Action(state, c) = "param"
  PROVE  c \in Digit \cup {Semicolon}
BY DEF Action

LEMMA PutCharTyped ==
  ASSUME TermInv, NEW c \in Bytes, NEW redraw \in BOOLEAN, PutChar(c, redraw)
  PROVE  /\ Typed(scr') /\ Inside(scr') /\ vt100' \in Automata /\ pen' \in Pens
         /\ lost' \in BOOLEAN
<1>1. /\ Typed(scr) /\ Inside(scr) /\ vt100 \in Automata /\ pen \in Pens /\ lost \in BOOLEAN
  BY DEF TermInv
<1>2. PICK next : next = NextState(vt100.state, c)
  OBVIOUS
<1>3. vt100.state \in 0 .. 13
  BY <1>1 DEF Automata
<1>4. next \in 0 .. 13
  BY <1>2, <1>3, NextStateType
<1>5. [vt100 EXCEPT !.state = next] \in Automata
  BY <1>1, <1>4 DEF Automata
<1>6. Typed(scr') /\ Inside(scr')
  <2>1. PICK s : scr' = Shown(s, redraw) /\ (s = Written(scr, c) \/ s = scr)
    BY Zenon DEF PutChar
  <2>2. Screen(scr)
    BY <1>1 DEF Typed, Screen, Grid, Image, Hues
  <2>3. Typed(s) /\ Inside(s)
    <3>1. Inside(Written(scr, c))
      BY <1>1, <2>2, WrittenPage, Zenon
    <3>2. Typed(Written(scr, c))
      BY <1>1, WrittenTyped
    <3> QED BY <1>1, <2>1, <3>1, <3>2
  <2>4. Typed(Redraw(s)) /\ Inside(Redraw(s))
    <3>1. s.cx \in 0 .. ww - 1
      BY <2>3 DEF Inside
    <3> QED BY <2>3, <3>1, RedrawTyped DEF Inside
  <2> QED BY <2>1, <2>3, <2>4 DEF Shown
<1>7. lost' \in BOOLEAN
  BY <1>1 DEF PutChar
<1>8. pen' \in Pens
  <2>1. pen' = pen \/ pen' = Dispatch(c)
    BY Zenon DEF PutChar
  <2> QED BY <1>1, <2>1, DispatchType
<1>9. vt100' \in Automata
  <2>1. CASE vt100' = [vt100 EXCEPT !.state = next]
    BY <1>5, <2>1
  <2>2. CASE vt100' = [state |-> next, params |-> NoParams, pi |-> 0]
    BY <1>4, <2>2, ParamsAssumption DEF Automata, NoParams
  <2>3. CASE /\ Action(vt100.state, c) = "param"
             /\ IF c = Semicolon
                THEN /\ vt100.pi + 1 < NParams
                     /\ vt100' = [vt100 EXCEPT !.state = next, !.pi = @ + 1]
                ELSE LET value == vt100.params[vt100.pi + 1] * 10 + (c - Zero) IN
                     /\ value <= MaxParam
                     /\ vt100' = [vt100 EXCEPT !.state = next, !.params[vt100.pi + 1] = value]
    BY <1>1, <1>4, <2>3, ParamAction, ParamsStep
  <2> QED BY <1>2, <2>1, <2>2, <2>3, Zenon DEF PutChar
<1> QED BY <1>6, <1>7, <1>8, <1>9

(* Between two characters the cursor is in the window, cells and display    *)
(* hold printed characters and colours of the palette or -1, the automaton  *)
(* is in a state of its table, and the pen is one that console_colors and   *)
(* vga_csi_dispatch know: for windows of any size and any bytes.            *)
THEOREM TerminalTypes == Spec => []TypeOK
<1>1. Init => TermInv
  <2> SUFFICES ASSUME Init PROVE TermInv
    OBVIOUS
  <2>1. Space \in Glyph /\ 14 \in Shade /\ 0 \in Shade /\ -1 \in Shade
    BY DEF Glyph, Shade
  <2>2. scr.cx = 0 /\ scr.cy = 0
    BY DEF Init
  <2>3. Typed(scr) /\ Inside(scr)
    BY <2>1 DEF Init, Typed, Inside, Hues, Pixels
  <2>4. vt100 \in Automata /\ pen \in Pens
    BY <2>1, ParamsAssumption DEF Init, Automata, Pens, NoParams
  <2> QED BY <2>3, <2>4 DEF Init, TermInv
<1>2. TermInv /\ [Next]_vars => TermInv'
  <2> SUFFICES ASSUME TermInv, [Next]_vars PROVE TermInv'
    OBVIOUS
  <2> USE DEF TermInv
  <2>1. SUFFICES /\ Typed(scr') /\ Inside(scr') /\ vt100' \in Automata /\ pen' \in Pens
                 /\ writing' \in BOOLEAN /\ lost' \in BOOLEAN
    BY <2>1 DEF Typed, Inside, Automata, Pens, Hues, Pixels, Glyph, Shade, Cells, Window
  <2>2. ASSUME NEW s, Typed(s), Inside(s)
        PROVE  Typed(Redraw(s)) /\ Inside(Redraw(s))
    <3>1. s.cx \in 0 .. ww - 1
      BY <2>2 DEF Inside
    <3> QED BY <2>2, <3>1, RedrawTyped DEF Inside
  <2>3. CASE \E c \in Bytes : Kprintf(c) \/ Echo(c) \/ WriteChar(c)
    BY <2>3, PutCharTyped DEF Kprintf, Echo, WriteChar
  <2>4. CASE WriteEnd
    BY <2>2, <2>4 DEF WriteEnd
  <2>5. CASE Blink
    <3>1. PICK s : s = [scr EXCEPT !.cs = ~scr.cs]
      OBVIOUS
    <3>2. Typed(s) /\ Inside(s)
      BY <3>1 DEF Typed, Inside
    <3>3. scr' = Redraw(s)
      BY <2>5, <3>1 DEF Blink
    <3> QED BY <2>2, <2>5, <3>2, <3>3 DEF Blink
  <2>6. CASE Clear
    <3> DEFINE cells == [p \in Cells |-> [c |-> Space, fg |-> pen.fg, bg |-> pen.bg, mod |-> TRUE]]
    <3>1. cells \in [Cells -> Hues]
      BY DEF Hues, Pens, Glyph
    <3>2. scr' = Redraw(Moved(scr, 0, 0, cells))
      BY <2>6 DEF Clear, Moved
    <3> HIDE DEF cells
    <3>3. 0 \in 0 .. ww /\ 0 \in 0 .. wh
      OBVIOUS
    <3>4. PICK s : s = Moved(scr, 0, 0, cells)
      OBVIOUS
    <3>5. Typed(s) /\ s.cx = 0 /\ s.cy = 0
      BY <3>1, <3>3, <3>4, MovedTyped
    <3>6. Inside(s)
      BY <3>5 DEF Inside
    <3> QED BY <2>2, <2>6, <3>2, <3>4, <3>5, <3>6 DEF Clear
  <2>7. CASE UNCHANGED vars
    BY <2>7 DEF vars
  <2> QED BY <2>3, <2>4, <2>5, <2>6, <2>7 DEF Next
<1>3. TermInv => TypeOK
  BY TypesMean DEF TermInv, Typed, Inside
<1> QED BY <1>1, <1>2, <1>3, PTL DEF Spec
=============================================================================
