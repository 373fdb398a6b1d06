------------------------------ MODULE Keyboard -------------------------------
(***************************************************************************)
(* The keyboard: keyboard_intr of src/keyboard.c puts what is typed into   *)
(* the ring kbdbuf, and devfs_read of src/fs/devfs.c, a read(2) on         *)
(* /dev/stdin, takes it out and edits the line.                            *)
(*                                                                         *)
(* The interrupt handler runs to its end; devfs_read spins and reads with  *)
(* interrupts on, so keys arrive, and other readers are scheduled, between *)
(* any two accesses it makes to the shared indices.  Each action of a      *)
(* reader is one such access.  The kernel is built without optimization.   *)
(***************************************************************************)
EXTENDS Integers

CONSTANTS
  Readers,      \* processes that may be in devfs_read
  KBD_BUFSIZ,   \* 1024 in the code
  BufLen,       \* the len of the read call
  MaxTyped,     \* bound on the keys put into the ring
  MaxSlot       \* bound on the slots read, of the ring and behind it

ASSUME KbdBufsizAssumption == KBD_BUFSIZ \in Nat \ {0}
ASSUME BufLenAssumption == BufLen \in Nat \ {0}
ASSUME MaxTypedAssumption == MaxTyped \in Nat
ASSUME MaxSlotAssumption == MaxSlot \in Nat /\ MaxSlot >= KBD_BUFSIZ

(* Scan codes of the keys that differ: two shifts, control, a letter that  *)
(* control turns into an end of file, backspace and newline.               *)
Modifier == {"lshift", "rshift", "lctl"}
Scan == Modifier \cup {"d", "backspace", "enter"}

Bucky == {"BUCKY_SHIFT", "BUCKY_CTL"}
Plain == {"d", "D", "junk"}
Terminator == {"nl", "eof"}
Char == Plain \cup Terminator \cup {"bs"}

(* Definitions named Bad... are wrong versions of the one they precede, as *)
(* a slip in the code would make it; nothing uses them.                    *)

(* The row with shift has no entry for the right shift key. *)
BadKbdus ==
  [shifted \in BOOLEAN |->
    [scan \in Scan |->
      CASE scan = "lshift" -> "BUCKY_SHIFT"
        [] scan = "rshift" -> IF shifted THEN "junk" ELSE "BUCKY_SHIFT"
        [] scan = "lctl" -> "BUCKY_CTL"
        [] scan = "d" -> IF shifted THEN "D" ELSE "d"
        [] scan = "backspace" -> "bs"
        [] scan = "enter" -> "nl"]]

(* The two rows of the layout, picked by the shift bit of kbd_state. *)
kbdus ==
  [shifted \in BOOLEAN |->
    [scan \in Scan |->
      CASE scan \in {"lshift", "rshift"} -> "BUCKY_SHIFT"
        [] scan = "lctl" -> "BUCKY_CTL"
        [] scan = "d" -> IF shifted THEN "D" ELSE "d"
        [] scan = "backspace" -> "bs"
        [] scan = "enter" -> "nl"]]

VARIABLES
  held,      \* the modifier keys that are down
  kbd_state, \* the modifiers the driver believes are down
  kbdbuf,    \* the ring, and the memory behind it: the key in each slot
  kbwritep,
  kbreadp,
  typed,     \* keys put into the ring so far: a key is numbered with it
  last,      \* the number of the key that was taken last
  pc, i, s, c,   \* of each reader: its next step, its locals i and c, its buffer
  idx        \* of each reader: the register that holds kbreadp

kbdvars == <<held, kbd_state, kbdbuf, kbwritep, typed>>
rdvars == <<kbreadp, last, pc, i, s, c, idx>>
vars == <<kbdvars, rdvars>>

NoKey == [n |-> 0, ch |-> "junk"]

Init ==
  /\ held = {}
  /\ kbd_state = {}
  /\ kbdbuf = [slot \in 0 .. MaxSlot |-> NoKey]
  /\ kbwritep = 0
  /\ kbreadp = 0
  /\ typed = 0
  /\ last = 0
  /\ pc = [r \in Readers |-> "idle"]
  /\ i = [r \in Readers |-> 0]
  /\ s = [r \in Readers |-> [j \in 0 .. BufLen |-> "junk"]]
  /\ c = [r \in Readers |-> "junk"]
  /\ idx = [r \in Readers |-> 0]

Row(scan) == kbdus["BUCKY_SHIFT" \in kbd_state][scan]

(* The write index wraps one slot early. *)
BadPut(ch) ==
  /\ typed < MaxTyped
  /\ typed' = typed + 1
  /\ kbdbuf' = [kbdbuf EXCEPT ![kbwritep] = [n |-> typed + 1, ch |-> ch]]
  /\ kbwritep' = IF kbwritep + 1 >= KBD_BUFSIZ THEN 0 ELSE kbwritep + 1

(* It wraps one slot late. *)
BadPutLate(ch) ==
  /\ typed < MaxTyped
  /\ typed' = typed + 1
  /\ kbdbuf' = [kbdbuf EXCEPT ![kbwritep] = [n |-> typed + 1, ch |-> ch]]
  /\ kbwritep' = IF kbwritep > KBD_BUFSIZ THEN 0 ELSE kbwritep + 1

(* A key that finds no room is stored all the same. *)
Put(ch) ==
  /\ typed < MaxTyped
  /\ typed' = typed + 1
  /\ kbdbuf' = [kbdbuf EXCEPT ![kbwritep] = [n |-> typed + 1, ch |-> ch]]
  /\ kbwritep' = IF kbwritep + 1 > KBD_BUFSIZ THEN 0 ELSE kbwritep + 1

(* keyboard_intr, a make code (again and again while the key is down).     *)
(* With control down only a lower-case d counts; the signals of c and z    *)
(* are stubs.                                                              *)
Press(scan) ==
  LET k == Row(scan) IN
  /\ held' = held \cup ({scan} \cap Modifier)
  /\ \/ /\ k \in Bucky
        /\ kbd_state' = kbd_state \cup {k}
        /\ UNCHANGED <<kbdbuf, kbwritep, typed>>
     \/ /\ k \notin Bucky
        /\ "BUCKY_CTL" \in kbd_state
        /\ IF k = "d" THEN Put("eof") ELSE UNCHANGED <<kbdbuf, kbwritep, typed>>
        /\ UNCHANGED kbd_state
     \/ /\ k \notin Bucky
        /\ "BUCKY_CTL" \notin kbd_state
        /\ Put(k)
        /\ UNCHANGED kbd_state
  /\ UNCHANGED rdvars

(* keyboard_intr, a break code. *)
Release(scan) ==
  /\ scan \in held
  /\ held' = held \ {scan}
  /\ kbd_state' = IF Row(scan) \in Bucky THEN kbd_state \ {Row(scan)} ELSE kbd_state
  /\ UNCHANGED <<kbdbuf, kbwritep, typed, rdvars>>

-----------------------------------------------------------------------------
At(r, label) == pc[r] = label

Goto(r, label) == pc' = [pc EXCEPT ![r] = label]

ReadCall(r) ==
  /\ At(r, "idle")
  /\ i' = [i EXCEPT ![r] = 0]
  /\ Goto(r, "spin")
  /\ UNCHANGED <<kbdvars, kbreadp, last, s, c, idx>>

(* while(kbreadp == kbwritep) ; *)
Spin(r) ==
  /\ At(r, "spin")
  /\ kbreadp # kbwritep
  /\ Goto(r, "load")
  /\ UNCHANGED <<kbdvars, kbreadp, last, i, s, c, idx>>

(* c = kbdbuf[kbreadp++]: the index is loaded, *)
Load(r) ==
  /\ At(r, "load")
  /\ kbreadp <= MaxSlot
  /\ idx' = [idx EXCEPT ![r] = kbreadp]
  /\ Goto(r, "take")
  /\ UNCHANGED <<kbdvars, kbreadp, last, i, s, c>>

(* and stored incremented, and the byte is read. *)
Take(r) ==
  /\ At(r, "take")
  /\ kbreadp' = idx[r] + 1
  /\ c' = [c EXCEPT ![r] = kbdbuf[idx[r]].ch]
  /\ last' = kbdbuf[idx[r]].n
  /\ Goto(r, "check")
  /\ UNCHANGED <<kbdvars, i, s, idx>>

(* The read index wraps one slot early. *)
BadCheck(r) ==
  /\ At(r, "check")
  /\ Goto(r, IF kbreadp >= KBD_BUFSIZ THEN "wrap" ELSE "edit")
  /\ UNCHANGED <<kbdvars, kbreadp, last, i, s, c, idx>>

(* if(kbreadp > KBD_BUFSIZ) *)
Check(r) ==
  /\ At(r, "check")
  /\ Goto(r, IF kbreadp > KBD_BUFSIZ THEN "wrap" ELSE "edit")
  /\ UNCHANGED <<kbdvars, kbreadp, last, i, s, c, idx>>

(* kbreadp = 0 *)
Wrap(r) ==
  /\ At(r, "wrap")
  /\ kbreadp' = 0
  /\ Goto(r, "edit")
  /\ UNCHANGED <<kbdvars, last, i, s, c, idx>>

(* A backspace at the start of the line moves past it. *)
BadAfterKey(pos, ch) == IF ch = "bs" /\ pos > 0 THEN pos - 1 ELSE pos + 1

(* i after a key: i -= 2, or i = -1, and the i++ of the loop. *)
AfterKey(pos, ch) ==
  IF ch # "bs" THEN pos + 1 ELSE IF pos > 0 THEN pos - 1 ELSE 0

(* The rest of the loop body, the loop test, and the return, with the NUL  *)
(* (here junk) that ends the string stored behind the last character: for  *)
(* a full line, at s[len].                                                 *)
Edit(r) ==
  LET stored == [s[r] EXCEPT ![i[r]] = c[r]]
      n == AfterKey(i[r], c[r])
      erased == IF n < i[r] THEN [stored EXCEPT ![n] = "junk"] ELSE stored
      done == c[r] \in Terminator \/ n = BufLen
  IN  /\ At(r, "edit")
      /\ i' = [i EXCEPT ![r] = n]
      /\ s' = [s EXCEPT ![r] = IF done THEN [erased EXCEPT ![n] = "junk"] ELSE erased]
      /\ Goto(r, IF done THEN "idle" ELSE "spin")
      /\ UNCHANGED <<kbdvars, kbreadp, last, c, idx>>

Reader(r) ==
  Spin(r) \/ Load(r) \/ Take(r) \/ Check(r) \/ Wrap(r) \/ Edit(r)

Next ==
  \/ \E scan \in Scan : Press(scan)
  \/ \E scan \in Modifier : Release(scan)
  \/ \E r \in Readers : ReadCall(r) \/ Reader(r)

Spec == Init /\ [][Next]_vars

(* A reader in the loop runs with interrupts on and gets the CPU again     *)
(* and again (RunnableRuns of Mt).  Nobody has to type, or to read.        *)
FairSpec == Spec /\ \A r \in Readers : WF_vars(Reader(r))

-----------------------------------------------------------------------------
Key == [n : 0 .. MaxTyped, ch : Char]

TypeOK ==
  /\ held \subseteq Modifier
  /\ kbd_state \subseteq Bucky
  /\ kbdbuf \in [0 .. MaxSlot -> Key]
  /\ kbwritep \in 0 .. KBD_BUFSIZ
  /\ kbreadp \in 0 .. MaxSlot + 1
  /\ typed \in 0 .. MaxTyped
  /\ last \in 0 .. MaxTyped
  /\ pc \in [Readers -> {"idle", "spin", "load", "take", "check", "wrap", "edit"}]
  /\ i \in [Readers -> 0 .. BufLen]
  /\ s \in [Readers -> [0 .. BufLen -> Char]]
  /\ c \in [Readers -> Char]
  /\ idx \in [Readers -> 0 .. MaxSlot]

(* No modifier gets stuck: with every modifier key up the driver is back   *)
(* in its plain state, although a break code is looked up in the row of    *)
(* the shift state at that time, and two keys share one bit.               *)
NoStuckModifier == held = {} => kbd_state = {}

(* A single reader takes every key at most once and in the order typed,    *)
(* and when the ring overruns, it loses whole laps of KBD_BUFSIZ + 1 keys: *)
(* the two indices, wrapped in two files, never drift apart.  (Two readers *)
(* void this: each may store a kbreadp the other has already moved on.)    *)
OnlyWholeLapsLost ==
  [][last' # last =>
       /\ last' > last
       /\ (last' - last) % (KBD_BUFSIZ + 1) = 1 % (KBD_BUFSIZ + 1)]_vars

(* Each call of devfs_read returns the line its keys make, with backspaces *)
(* applied, as soon as a terminator or the buffer's end is reached,        *)
(* whatever is stored beyond i on the way: see LineEditor.                 *)
Editor == INSTANCE LineEditor WITH
  Room <- BufLen, Terminators <- Terminator,
  reading <- {r \in Readers : ~At(r, "idle")},
  line <- [r \in Readers |-> [j \in 1 .. i[r] |-> s[r][j - 1]]]

ReadsLines == Editor!Spec

(* Pending: the newest key that nobody has taken ends a line, and the ring *)
(* has not overrun.                                                        *)
TerminatorPending ==
  /\ kbwritep # kbreadp
  /\ \E slot \in 0 .. KBD_BUFSIZ : kbdbuf[slot].n = typed /\ kbdbuf[slot].ch \in Terminator

Overrun == typed - last > KBD_BUFSIZ

(* A reader comes back once a line has been typed, unless keys were lost.  *)
LineEndsRead ==
  \A r \in Readers :
     ~At(r, "idle") /\ TerminatorPending ~> At(r, "idle") \/ Overrun
=============================================================================
