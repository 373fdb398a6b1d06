------------------------------ MODULE Terminal -------------------------------
(***************************************************************************)
(* The text terminal of src/vgatext.c: the automaton for escape sequences  *)
(* that vt100sg.pl builds from vt100_state.txt, the cells, the cursor, and *)
(* the display, which follows the cells when they are redrawn or scrolled. *)
(*                                                                         *)
(* All who print do so with interrupts off: the kernel, keyboard_intr,     *)
(* which echoes keys, and devfs_write.  In between, the timer blinks.      *)
(***************************************************************************)
EXTENDS Integers, SequencesExt

CONSTANTS
  ww, wh,      \* the window, in characters: 128 and 95 in the kernel
  Bytes,       \* what is printed
  NParams,     \* the length of vt100_params, 16 in the code
  MaxParam     \* bound on the value of a parameter

ASSUME WindowAssumption == ww \in Nat \ {0} /\ wh \in Nat \ {0}
ASSUME BytesAssumption == Bytes \subseteq 0 .. 255
ASSUME ParamsAssumption == NParams \in Nat \ {0} /\ MaxParam \in Nat

NL == 10
BS == 8
Space == 32
Underscore == 95
Semicolon == 59
Zero == 48
SmallM == 109

(* term has one row more than the window, under it. *)
Cells == (0 .. ww - 1) \X (0 .. wh)
Window == (0 .. ww - 1) \X (0 .. wh - 1)
Upper == (0 .. ww - 1) \X (0 .. wh - 2)

VARIABLES
  scr,      \* cx, cy, cs, the cells term, and shown: what the display has
  vt100,    \* state, params and pi of the automaton
  pen,      \* cfg, cbg and vt100_attr.bold
  writing,  \* devfs_write is between two characters
  lost      \* a line has been wrapped on the last row since the last clear

vars == <<scr, vt100, pen, writing, lost>>

(* An index into console_colors; anything else reads the memory around it. *)
Colour(n) == IF n \in 0 .. 15 THEN n ELSE -1

Ink == [fg |-> pen.fg, bg |-> pen.bg]

-----------------------------------------------------------------------------
(* The automaton                                                            *)

Control == (0 .. 23) \cup {25} \cup (28 .. 31)
Digit == Zero .. Zero + 9

(* What vga_putchar does with a byte: of all actions, it knows these four. *)
Action(state, c) ==
  CASE state = 0 /\ c \in 32 .. 255 -> "print"
    [] (state \in 0 .. 6 /\ c \in Control) \/ c \in {24, 26} -> "execute"
    [] state \in {3, 4, 7, 8} /\ c \in Digit \cup {Semicolon} -> "param"
    [] state \in {3, 4, 5} /\ c \in 64 .. 126 -> "csi_dispatch"
    [] OTHER -> "none"

(* The rows of the table, *)
Own(state) ==
  CASE state = 1 -> {<<0, (48 .. 79) \cup (81 .. 87) \cup {89, 90, 92} \cup (96 .. 126)>>,
                     <<13, {88, 94, 95}>>, <<3, {91}>>, <<7, {80}>>, <<12, {93}>>}
    [] state = 2 -> {<<0, 48 .. 126>>}
    [] state = 3 -> {<<0, 64 .. 126>>, <<4, Digit \cup (59 .. 63)>>, <<6, {58}>>, <<5, 32 .. 47>>}
    [] state = 4 -> {<<0, 64 .. 126>>, <<5, 32 .. 47>>}
    [] state \in {5, 6} -> {<<0, 64 .. 126>>}
    [] state = 7 -> {<<9, Control \cup (32 .. 47) \cup {127}>>, <<11, {58}>>,
                     <<8, Digit \cup (60 .. 63)>>}
    [] state = 8 -> {<<9, 32 .. 47>>, <<10, 64 .. 126>>}
    [] state = 9 -> {<<10, 64 .. 126>>, <<11, 48 .. 63>>}
    [] OTHER -> {}

(* and what holds in each row that does not say otherwise. *)
Anywhere ==
  {<<0, {24, 26} \cup (128 .. 143) \cup (145 .. 151) \cup {153, 154, 156}>>,
   <<13, {152, 158, 159}>>, <<1, {27}>>, <<7, {144}>>, <<12, {157}>>, <<3, {155}>>}

NextState(state, c) ==
  LET go(rows) == {row[1] : row \in {r \in rows : c \in r[2]}}
  IN  CHOOSE n \in 0 .. 13 :
        IF go(Own(state)) # {} THEN n \in go(Own(state))
        ELSE IF go(Anywhere) # {} THEN n \in go(Anywhere)
        ELSE n = state

(* One parameter of ESC [ ... m. *)
Sgr(p, n) ==
  CASE n = 0 -> [fg |-> 14, bg |-> 0, bold |-> 0]
    [] n = 1 -> [p EXCEPT !.bold = 1]
    [] n \in 2 .. 39 -> [p EXCEPT !.fg = Colour((n - 30) + p.bold * 8)]
    [] OTHER -> [p EXCEPT !.bg = Colour(n - 40)]

(* vga_csi_dispatch. *)
Dispatch(c) ==
  IF c = SmallM THEN FoldLeft(Sgr, pen, SubSeq(vt100.params, 1, vt100.pi + 1)) ELSE pen

NoParams == [k \in 1 .. NParams |-> 0]
-----------------------------------------------------------------------------
(* Cells and display                                                        *)

(* Definitions named Bad... are wrong versions of the one they precede, as *)
(* a slip in the code would make it; nothing uses them.                    *)

Look(cell) == [c |-> cell.c, fg |-> cell.fg, bg |-> cell.bg]

Flagged(cell, mod) == [c |-> cell.c, fg |-> cell.fg, bg |-> cell.bg, mod |-> mod]

(* A character is stored and the colours are left. *)
Over(cell, c) == [c |-> c, fg |-> cell.fg, bg |-> cell.bg, mod |-> TRUE]

(* vga_update_curs. *)
Cursor(s) ==
  [s EXCEPT !.term[<<s.cx, s.cy>>] = Over(@, IF s.cs THEN Underscore ELSE Space)]

Painted(s) ==
  [s EXCEPT
     !.shown = [p \in Window |-> IF s.term[p].mod THEN Look(s.term[p]) ELSE s.shown[p]],
     !.term = [p \in Cells |-> Flagged(s.term[p], s.term[p].mod /\ p \notin Window)]]

(* vga_redraw. *)
Redraw(s) == Painted(Cursor(s))

(* vga_scroll: a cell is drawn anew if its character changes, and the last *)
(* row is drawn blank and keeps its text in term.                          *)
Scroll(s) ==
  LET below(p) == s.term[<<p[1], p[2] + 1>>] IN
  [s EXCEPT
     !.shown = [p \in Window |->
        IF p \notin Upper THEN Look(Over(s.term[p], Space))
        ELSE IF s.term[p].c # below(p).c THEN Look(below(p)) ELSE s.shown[p]],
     !.term = [p \in Cells |->
        IF p \in Upper THEN Flagged(below(p), FALSE) ELSE s.term[p]]]

(* The whole row is. *)
BadNewLine(s) ==
  Redraw([s EXCEPT !.cx = 0, !.cy = s.cy + 1,
     !.term = [p \in Cells |->
        IF p[2] = s.cy THEN Over(s.term[p], Space) ELSE s.term[p]]])

(* The rest of the row is blanked. *)
NewLine(s) ==
  Redraw([s EXCEPT !.cx = 0, !.cy = s.cy + 1,
     !.term = [p \in Cells |->
        IF p[2] = s.cy /\ p[1] >= s.cx THEN Over(s.term[p], Space) ELSE s.term[p]]])

(* The cell is not marked. *)
BadBackspace(s) ==
  IF s.cx = 0 THEN s
  ELSE [s EXCEPT !.cx = s.cx - 1, !.term[<<s.cx, s.cy>>] = Flagged(Over(@, Space), @.mod)]

Backspace(s) ==
  IF s.cx = 0 THEN s
  ELSE [s EXCEPT !.cx = s.cx - 1, !.term[<<s.cx, s.cy>>] = Over(@, Space)]

Type(s, c) ==
  [s EXCEPT !.cx = s.cx + 1,
            !.term[<<s.cx, s.cy>>] = [c |-> c, fg |-> pen.fg, bg |-> pen.bg, mod |-> TRUE]]

(* One character late. *)
BadWrap(s) == IF s.cx > ww THEN [s EXCEPT !.cx = 0, !.cy = s.cy + 1] ELSE s

Wrap(s) == IF s.cx > ww - 1 THEN [s EXCEPT !.cx = 0, !.cy = s.cy + 1] ELSE s

Feed(s) == IF s.cy > wh - 1 THEN Scroll([s EXCEPT !.cy = wh - 1]) ELSE s

(* vga_writechar. *)
Written(s, c) ==
  Cursor(Feed(Wrap(
    CASE c = NL -> NewLine(s)
      [] c = BS -> Backspace(s)
      [] OTHER -> Type(s, c))))

(* The window wraps on its last row. *)
WrapsLast(s, c) == c \notin {NL, BS} /\ s.cx = ww - 1 /\ s.cy = wh - 1
-----------------------------------------------------------------------------
(* Those who print                                                          *)

Init ==
  /\ scr = [cx |-> 0, cy |-> 0, cs |-> FALSE,
            term |-> [p \in Cells |-> [c |-> Space, fg |-> 14, bg |-> 0, mod |-> TRUE]],
            shown |-> [p \in Window |-> [c |-> -1, fg |-> -1, bg |-> -1]]]
  /\ vt100 = [state |-> 0, params |-> NoParams, pi |-> 0]
  /\ pen = [fg |-> 14, bg |-> 0, bold |-> 0]
  /\ writing = FALSE
  /\ lost = FALSE

Shown(s, redraw) == IF redraw THEN Redraw(s) ELSE s

(* vga_putchar, and the redraw of a caller that asks for one. *)
PutChar(c, redraw) ==
  LET action == Action(vt100.state, c)
      next == NextState(vt100.state, c)
  IN
  \/ /\ action \in {"print", "execute"}
     /\ scr' = Shown(Written(scr, c), redraw)
     /\ lost' = (lost \/ WrapsLast(scr, c))
     /\ vt100' = [vt100 EXCEPT !.state = next]
     /\ UNCHANGED pen
  \/ /\ action = "param"
     /\ IF c = Semicolon
        THEN /\ vt100.pi + 1 < NParams
             /\ vt100' = [vt100 EXCEPT !.state = next, !.pi = @ + 1]
        ELSE LET value == vt100.params[vt100.pi + 1] * 10 + (c - Zero) IN
             /\ value <= MaxParam
             /\ vt100' = [vt100 EXCEPT !.state = next, !.params[vt100.pi + 1] = value]
     /\ scr' = Shown(scr, redraw)
     /\ UNCHANGED <<pen, lost>>
  \/ /\ action = "csi_dispatch"
     /\ pen' = Dispatch(c)
     /\ vt100' = [state |-> next, params |-> NoParams, pi |-> 0]
     /\ scr' = Shown(scr, redraw)
     /\ UNCHANGED lost
  \/ /\ action = "none"
     /\ vt100' = [vt100 EXCEPT !.state = next]
     /\ scr' = Shown(scr, redraw)
     /\ UNCHANGED <<pen, lost>>

(* printf of the kernel. *)
Kprintf(c) ==
  /\ ~writing
  /\ PutChar(c, FALSE)
  /\ UNCHANGED writing

(* keyboard_intr echoes a key. *)
Echo(c) ==
  /\ ~writing
  /\ PutChar(c, TRUE)
  /\ UNCHANGED writing

(* devfs_write: its loop, *)
WriteChar(c) ==
  /\ PutChar(c, FALSE)
  /\ writing' = TRUE

(* and its end. *)
WriteEnd ==
  /\ writing
  /\ writing' = FALSE
  /\ scr' = Redraw(scr)
  /\ UNCHANGED <<vt100, pen, lost>>

(* timer_intr, every fifty ticks: cs is flipped, then all is redrawn. *)
Blink ==
  /\ ~writing
  /\ scr' = Redraw([scr EXCEPT !.cs = ~scr.cs])
  /\ UNCHANGED <<vt100, pen, writing, lost>>

(* vga_clear_text. *)
Clear ==
  /\ ~writing
  /\ scr' = Redraw([scr EXCEPT !.cx = 0, !.cy = 0,
       !.term = [p \in Cells |-> [c |-> Space, fg |-> pen.fg, bg |-> pen.bg, mod |-> TRUE]]])
  /\ lost' = FALSE
  /\ UNCHANGED <<vt100, pen, writing>>

Next ==
  \/ \E c \in Bytes : Kprintf(c) \/ Echo(c) \/ WriteChar(c)
  \/ WriteEnd \/ Blink \/ Clear

Spec == Init /\ [][Next]_vars
-----------------------------------------------------------------------------
Shade == -1 .. 15
Glyph == {Space, Underscore} \cup Bytes

(* Between two characters the cursor is inside the window. *)
TypeOK ==
  /\ scr.cx \in 0 .. ww - 1 /\ scr.cy \in 0 .. wh - 1
  /\ scr.term \in [Cells -> [c : Glyph, fg : Shade, bg : Shade, mod : BOOLEAN]]
  /\ scr.shown \in [Window -> [c : Glyph \cup {-1}, fg : Shade, bg : Shade]]
  /\ vt100 \in [state : 0 .. 13, params : [1 .. NParams -> 0 .. MaxParam],
                pi : 0 .. NParams - 1]
  /\ pen \in [fg : Shade, bg : Shade, bold : {0, 1}]
  /\ scr.cs \in BOOLEAN /\ writing \in BOOLEAN /\ lost \in BOOLEAN

(* The text: full rows, and what stands before the cursor. *)
Text == {p \in Window : p[2] < scr.cy \/ (p[2] = scr.cy /\ p[1] < scr.cx)}

MarkAt(x, y) ==
  LET cell == scr.term[<<x, y>>]
  IN  IF cell.c = Space THEN << >> ELSE <<cell.c, [fg |-> cell.fg, bg |-> cell.bg]>>

(* The cells keep what was printed, in its colours, whatever cursor, wrap, *)
(* backspace and scroll do to them, and escape sequences leave no trace    *)
(* (vga_writechar, vga_scroll, vga_update_curs): see Paper.                *)
Sheet == INSTANCE Paper WITH
  Width <- ww, Height <- wh, Chars <- Bytes \ {NL, BS}, Blank <- Space, pen <- Ink,
  lines <- [j \in 1 .. scr.cy |-> [k \in 1 .. ww |-> MarkAt(k - 1, j - 1)]],
  line <- [k \in 1 .. scr.cx |-> MarkAt(k - 1, scr.cy)]

KeepsText == Sheet!Spec

(* What the display has at p after the next redraw. *)
Upcoming(p) == IF scr.term[p].mod THEN scr.term[p].c ELSE scr.shown[p].c

(* Unless a line was wrapped on the last row, the next redraw shows the    *)
(* text, and blanks behind it, although nobody redraws between characters, *)
(* rows are scrolled that are not on the display yet, and the last row     *)
(* keeps its old text (vga_redraw, vga_scroll).                            *)
RedrawShowsPage ==
  ~lost => \A p \in Window \ {<<scr.cx, scr.cy>>} :
              Upcoming(p) = IF p \in Text THEN scr.term[p].c ELSE Space
=============================================================================
