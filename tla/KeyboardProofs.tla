--------------------------- MODULE KeyboardProofs ---------------------------
(***************************************************************************)
(* What Keyboard promises, for rings and buffers of any size, and, where a *)
(* second reader does no harm, for any number of readers.                  *)
(***************************************************************************)
EXTENDS Keyboard, Sequences, TLAPS

USE KbdBufsizAssumption, BufLenAssumption, MaxTypedAssumption, MaxSlotAssumption

-----------------------------------------------------------------------------
(* Types and modifiers                                                      *)

\* A reader inside a call has room for the next key.
RoomLeft == \A r \in Readers : pc[r] # "idle" => i[r] < BufLen

\* A modifier the driver believes in has a key that is down.
HeldBehindState ==
  /\ "BUCKY_SHIFT" \in kbd_state => held \cap {"lshift", "rshift"} # {}
  /\ "BUCKY_CTL" \in kbd_state => "lctl" \in held

KbdInv == TypeOK /\ RoomLeft /\ HeldBehindState

LEMMA LayoutTypes ==
  /\ \A shifted \in BOOLEAN : kbdus[shifted] \in [Scan -> Char \cup Bucky]
  /\ \A shifted \in BOOLEAN, scan \in Scan :
       /\ kbdus[shifted][scan] = "BUCKY_SHIFT" <=> scan \in {"lshift", "rshift"}
       /\ kbdus[shifted][scan] = "BUCKY_CTL" <=> scan = "lctl"
<1> DEFINE Of(shifted) ==
  [scan \in Scan |->
      CASE scan \in {"lshift", "rshift"} -> "BUCKY_SHIFT"
        [] scan = "lctl" -> "BUCKY_CTL"
        [] scan = "d" -> IF shifted THEN "D" ELSE "d"
        [] scan = "backspace" -> "bs"
        [] scan = "enter" -> "nl"]
<1>1. \A shifted \in BOOLEAN : kbdus[shifted] = Of(shifted)
  BY DEF kbdus
<1>2. ASSUME NEW shifted \in BOOLEAN, NEW scan \in Scan
      PROVE  /\ Of(shifted)[scan] \in Char \cup Bucky
             /\ Of(shifted)[scan] = "BUCKY_SHIFT" <=> scan \in {"lshift", "rshift"}
             /\ Of(shifted)[scan] = "BUCKY_CTL" <=> scan = "lctl"
  BY DEF Scan, Modifier, Char, Plain, Terminator, Bucky
<1>3. \A shifted \in BOOLEAN : Of(shifted) \in [Scan -> Char \cup Bucky]
  BY <1>2
<1> HIDE DEF Of
<1> QED BY <1>1, <1>2, <1>3

LEMMA PutTypes ==
  ASSUME TypeOK, NEW ch \in Char, Put(ch)
  PROVE  /\ kbdbuf' \in [0 .. MaxSlot -> Key]
         /\ kbwritep' \in 0 .. KBD_BUFSIZ
         /\ typed' \in 0 .. MaxTyped
<1>1. typed + 1 \in 0 .. MaxTyped
  BY DEF TypeOK, Put
<1>2. [n |-> typed + 1, ch |-> ch] \in Key
  BY <1>1 DEF Key
<1> QED BY <1>1, <1>2 DEF TypeOK, Put

LEMMA PressPreserves ==
  ASSUME KbdInv, NEW scan \in Scan, Press(scan)
  PROVE  KbdInv'
<1> DEFINE k == Row(scan)
<1> USE DEF KbdInv
<1>1. UNCHANGED rdvars
  BY DEF Press
<1>2. RoomLeft'
  BY <1>1 DEF RoomLeft, rdvars
<1>3. /\ k \in Char \cup Bucky
      /\ k = "BUCKY_SHIFT" <=> scan \in {"lshift", "rshift"}
      /\ k = "BUCKY_CTL" <=> scan = "lctl"
  <2>1. ("BUCKY_SHIFT" \in kbd_state) \in BOOLEAN
    OBVIOUS
  <2>2. kbdus["BUCKY_SHIFT" \in kbd_state] \in [Scan -> Char \cup Bucky]
    BY <2>1, LayoutTypes
  <2>3. k \in Char \cup Bucky
    BY <2>2 DEF Row
  <2> QED BY <2>1, <2>3, LayoutTypes DEF Row
<1>4. held' \subseteq Modifier /\ held' = held \cup ({scan} \cap Modifier)
  BY DEF TypeOK, Press
<1>5. /\ kbd_state' \subseteq Bucky
      /\ HeldBehindState'
      /\ kbdbuf' \in [0 .. MaxSlot -> Key] /\ kbwritep' \in 0 .. KBD_BUFSIZ
      /\ typed' \in 0 .. MaxTyped
  <2>1. CASE k \in Bucky /\ kbd_state' = kbd_state \cup {k}
                         /\ UNCHANGED <<kbdbuf, kbwritep, typed>>
    BY <1>3, <1>4, <2>1 DEF TypeOK, HeldBehindState, Bucky, Modifier
  <2>2. CASE UNCHANGED <<kbd_state, kbdbuf, kbwritep, typed>>
    BY <1>4, <2>2 DEF TypeOK, HeldBehindState
  <2>3. CASE UNCHANGED kbd_state /\ \E ch \in Char : Put(ch)
    BY <1>4, <2>3, PutTypes DEF TypeOK, HeldBehindState
  <2>4. "eof" \in Char /\ (k \notin Bucky => k \in Char)
    BY <1>3 DEF Char, Terminator
  <2> QED BY <2>1, <2>2, <2>3, <2>4 DEF Press
<1>6. TypeOK'
  BY <1>1, <1>4, <1>5 DEF TypeOK, rdvars
<1> QED BY <1>2, <1>5, <1>6

LEMMA ReleasePreserves ==
  ASSUME KbdInv, NEW scan \in Modifier, Release(scan)
  PROVE  KbdInv'
<1> USE DEF KbdInv
<1>1. /\ Row(scan) = "BUCKY_SHIFT" <=> scan \in {"lshift", "rshift"}
      /\ Row(scan) = "BUCKY_CTL" <=> scan = "lctl"
      /\ Row(scan) \in Bucky
  <2>1. ("BUCKY_SHIFT" \in kbd_state) \in BOOLEAN /\ scan \in Scan
    BY DEF Scan
  <2>2. /\ Row(scan) = "BUCKY_SHIFT" <=> scan \in {"lshift", "rshift"}
        /\ Row(scan) = "BUCKY_CTL" <=> scan = "lctl"
    BY <2>1, LayoutTypes DEF Row
  <2> QED BY <2>2 DEF Modifier, Bucky
<1>2. held' = held \ {scan} /\ kbd_state' = kbd_state \ {Row(scan)}
  BY <1>1 DEF Release
<1>3. HeldBehindState'
  BY <1>1, <1>2 DEF HeldBehindState, Modifier
<1>4. TypeOK'
  BY <1>2 DEF TypeOK, Release, rdvars
<1>5. RoomLeft'
  BY DEF Release, rdvars, RoomLeft
<1> QED BY <1>3, <1>4, <1>5

LEMMA AfterKeyBounds ==
  ASSUME NEW pos \in 0 .. BufLen, pos < BufLen, NEW ch \in Char
  PROVE  AfterKey(pos, ch) \in 0 .. BufLen
BY DEF AfterKey

\* What a reader's step leaves alone, and what it makes of its locals.
LEMMA EditPreserves ==
  ASSUME KbdInv, NEW r \in Readers, Edit(r)
  PROVE  KbdInv'
<1> USE DEF KbdInv
<1> DEFINE n == AfterKey(i[r], c[r])
           stored == [s[r] EXCEPT ![i[r]] = c[r]]
           erased == IF n < i[r] THEN [stored EXCEPT ![n] = "junk"] ELSE stored
           done == c[r] \in Terminator \/ n = BufLen
<1>1. i[r] \in 0 .. BufLen /\ c[r] \in Char /\ i[r] < BufLen
  BY DEF TypeOK, RoomLeft, Edit, At
<1>2. n \in 0 .. BufLen
  BY <1>1, AfterKeyBounds
<1>3. "junk" \in Char
  BY DEF Char, Plain
<1>4. s[r] \in [0 .. BufLen -> Char]
  BY DEF TypeOK
<1>5. stored \in [0 .. BufLen -> Char]
  BY <1>1, <1>4
<1>6. erased \in [0 .. BufLen -> Char] /\ [erased EXCEPT ![n] = "junk"] \in [0 .. BufLen -> Char]
  BY <1>3, <1>5
<1>7. s' = [s EXCEPT ![r] = IF done THEN [erased EXCEPT ![n] = "junk"] ELSE erased]
  BY DEF Edit
<1>8. s' \in [Readers -> [0 .. BufLen -> Char]]
  BY <1>6, <1>7 DEF TypeOK
<1>9. i' = [i EXCEPT ![r] = n] /\ pc' = [pc EXCEPT ![r] = IF done THEN "idle" ELSE "spin"]
  BY DEF Edit, Goto
<1>10. TypeOK'
  <2> HIDE DEF n, done
  <2>1. i' \in [Readers -> 0 .. BufLen]
    BY <1>2, <1>9 DEF TypeOK
  <2>2. pc' \in [Readers -> {"idle", "spin", "load", "take", "check", "wrap", "edit"}]
    BY <1>9 DEF TypeOK
  <2>3. UNCHANGED <<kbdvars, kbreadp, last, c, idx>>
    BY DEF Edit
  <2> QED BY <1>8, <2>1, <2>2, <2>3 DEF TypeOK, kbdvars
<1>11. RoomLeft'
  <2> HIDE DEF n
  <2> QED BY <1>2, <1>9 DEF TypeOK, RoomLeft
<1>12. HeldBehindState'
  BY DEF HeldBehindState, Edit, kbdvars
<1> QED BY <1>10, <1>11, <1>12

LEMMA ReaderPreserves ==
  ASSUME KbdInv, NEW r \in Readers, ReadCall(r) \/ Reader(r)
  PROVE  KbdInv'
<1> USE DEF KbdInv, At, Goto, kbdvars
<1>1. CASE ReadCall(r)
  BY <1>1 DEF ReadCall, TypeOK, RoomLeft, HeldBehindState
<1>2. CASE Spin(r)
  BY <1>2 DEF Spin, TypeOK, RoomLeft, HeldBehindState
<1>3. CASE Load(r)
  BY <1>3 DEF Load, TypeOK, RoomLeft, HeldBehindState
<1>4. CASE Take(r)
  <2>1. idx[r] \in 0 .. MaxSlot /\ kbdbuf[idx[r]] \in Key
    BY DEF TypeOK
  <2>2. kbdbuf[idx[r]].ch \in Char /\ kbdbuf[idx[r]].n \in 0 .. MaxTyped
    BY <2>1 DEF Key
  <2> QED BY <1>4, <2>1, <2>2 DEF Take, TypeOK, RoomLeft, HeldBehindState
<1>5. CASE Check(r)
  BY <1>5 DEF Check, TypeOK, RoomLeft, HeldBehindState
<1>6. CASE Wrap(r)
  BY <1>6 DEF Wrap, TypeOK, RoomLeft, HeldBehindState
<1>7. CASE Edit(r)
  BY <1>7, EditPreserves
<1> QED BY <1>1, <1>2, <1>3, <1>4, <1>5, <1>6, <1>7 DEF Reader

\* Types, the room in the buffers and the keys behind each modifier are inductive, for any
\* number of readers (keyboard_intr, devfs_read).
THEOREM KbdInvariance == Spec => []KbdInv
<1>1. Init => KbdInv
  BY DEF Init, KbdInv, TypeOK, RoomLeft, HeldBehindState, NoKey, Key, Char, Plain
<1>2. KbdInv /\ [Next]_vars => KbdInv'
  <2> SUFFICES ASSUME KbdInv, [Next]_vars PROVE KbdInv'
    OBVIOUS
  <2>1. CASE UNCHANGED vars
    BY <2>1 DEF KbdInv, TypeOK, RoomLeft, HeldBehindState, vars, kbdvars, rdvars
  <2> QED BY <2>1, PressPreserves, ReleasePreserves, ReaderPreserves DEF Next
<1> QED BY <1>1, <1>2, PTL DEF Spec

\* No index leaves its ring or buffer, except kbreadp by the slot that two readers can
\* carry it behind (devfs_read).
THEOREM KbdTypeCorrect == Spec => []TypeOK
BY KbdInvariance, PTL DEF KbdInv

\* With every modifier key up the driver is in its plain state (keyboard_intr).
THEOREM ModifiersNeverStick == Spec => []NoStuckModifier
<1>1. KbdInv => NoStuckModifier
  BY DEF KbdInv, TypeOK, HeldBehindState, NoStuckModifier, Bucky
<1> QED BY <1>1, KbdInvariance, PTL

-----------------------------------------------------------------------------
(* Remainders                                                               *)

LEMMA Division ==
  ASSUME NEW N \in Nat \ {0}, NEW x \in Nat
  PROVE  /\ x \div N \in Nat /\ x % N \in 0 .. N - 1
         /\ x = N * (x \div N) + (x % N)
OBVIOUS

LEMMA RemainderUnique ==
  ASSUME NEW N \in Nat \ {0}, NEW q \in Int, NEW p \in Int, NEW a \in 0 .. N - 1, NEW b \in 0 .. N - 1,
         N * q + a = N * p + b
  PROVE  a = b
<1>1. ASSUME NEW d \in Int, d >= 1 PROVE N * d >= N
  BY <1>1
<1>2. N * (q - p) = b - a /\ N * (p - q) = a - b
  OBVIOUS
<1>3. ~ (q - p >= 1)
  BY <1>1, <1>2
<1>4. ~ (p - q >= 1)
  BY <1>1, <1>2
<1>5. q = p
  BY <1>3, <1>4
<1> QED BY <1>5

LEMMA RemainderOf ==
  ASSUME NEW N \in Nat \ {0}, NEW x \in Nat, NEW q \in Int, NEW a \in 0 .. N - 1
  PROVE  x = N * q + a => x % N = a
<1> DEFINE p == x \div N
           b == x % N
<1>1. p \in Int /\ b \in 0 .. N - 1 /\ x = N * p + b
  BY Division
<1>2. HAVE x = N * q + a
<1>3. N * q + a = N * p + b
  BY <1>1, <1>2
<1> HIDE DEF p, b
<1>4. a = b
  BY <1>1, <1>3, RemainderUnique
<1> QED BY <1>4 DEF b

LEMMA RemainderStep ==
  ASSUME NEW N \in Nat \ {0}, NEW x \in Nat
  PROVE  (x + 1) % N = IF (x % N) + 1 = N THEN 0 ELSE (x % N) + 1
<1> DEFINE q == x \div N
           a == x % N
           p == q + 1
           b == a + 1
           y == x + 1
<1>1. q \in Nat /\ a \in 0 .. N - 1 /\ x = N * q + a
  BY Division
<1>2. y \in Nat
  OBVIOUS
<1>3. CASE b = N
  <2>1. y = N * p + 0 /\ p \in Int /\ 0 \in 0 .. N - 1
    BY <1>1, <1>3
  <2>2. y % N = 0
    <3> HIDE DEF y, p
    <3> QED BY <1>2, <2>1, RemainderOf
  <2> QED BY <1>3, <2>2
<1>4. CASE b # N
  <2>1. y = N * q + b /\ q \in Int /\ b \in 0 .. N - 1
    BY <1>1, <1>4
  <2>2. y % N = b
    <3> HIDE DEF y, q, b
    <3> QED BY <1>2, <2>1, RemainderOf
  <2> QED BY <1>4, <2>2
<1> QED BY <1>3, <1>4

LEMMA SameRemainder ==
  ASSUME NEW N \in Nat \ {0}, NEW x \in Nat, NEW y \in Nat, x <= y, x % N = y % N
  PROVE  (y - x) % N = 0
<1> DEFINE q == y \div N - x \div N
           d == y - x
<1>1. /\ x \div N \in Nat /\ x % N \in 0 .. N - 1 /\ x = N * (x \div N) + (x % N)
      /\ y \div N \in Nat /\ y % N \in 0 .. N - 1 /\ y = N * (y \div N) + (y % N)
  BY Division
<1>2. d = N * q + 0 /\ q \in Int /\ d \in Nat /\ 0 \in 0 .. N - 1
  BY <1>1
<1>3. d % N = 0
  <2> HIDE DEF d, q
  <2> QED BY <1>2, RemainderOf
<1> QED BY <1>3

-----------------------------------------------------------------------------
(* Keys in order                                                            *)

Ring == KBD_BUFSIZ + 1

\* Key n belongs in slot (n - 1) % Ring, and each slot has the newest key that does.
NewestKeys ==
  \A slot \in 0 .. KBD_BUFSIZ :
    /\ kbdbuf[slot].n # 0 => (kbdbuf[slot].n - 1) % Ring = slot
    /\ kbdbuf[slot].n <= typed
    /\ \A m \in 1 .. typed : (m - 1) % Ring = slot => m <= kbdbuf[slot].n

\* The reader's index stands behind the key taken last, once it has been wrapped; from the
\* end of the spinning to the taking a key is there for it.
ReaderPlace(r) ==
  /\ pc[r] \in {"idle", "spin", "load", "take", "edit"} => kbreadp = last % Ring
  /\ pc[r] = "check" => kbreadp \in 0 .. Ring /\ kbreadp % Ring = last % Ring
  /\ pc[r] = "wrap" => last % Ring = 0
  /\ pc[r] \in {"load", "take"} => last < typed
  /\ pc[r] = "take" => idx[r] = kbreadp

LapInv ==
  /\ kbwritep = typed % Ring
  /\ NewestKeys
  /\ last <= typed
  /\ \A r \in Readers : ReaderPlace(r)

LEMMA RingPositive == Ring \in Nat \ {0} /\ Ring - 1 = KBD_BUFSIZ
BY DEF Ring

LEMMA PutPreservesLaps ==
  ASSUME KbdInv, LapInv, NEW ch \in Char, Put(ch)
  PROVE  kbwritep' = typed' % Ring /\ NewestKeys' /\ typed' = typed + 1
<1> USE DEF KbdInv
<1>1. typed \in Nat /\ typed' = typed + 1
  BY DEF TypeOK, Put
<1>2. kbwritep = typed % Ring /\ kbwritep \in 0 .. KBD_BUFSIZ
  BY DEF LapInv, TypeOK
<1>3. kbwritep' = typed' % Ring
  <2>1. (typed + 1) % Ring = IF kbwritep + 1 = Ring THEN 0 ELSE kbwritep + 1
    BY <1>1, <1>2, RingPositive, RemainderStep
  <2>2. kbwritep' = IF kbwritep + 1 > KBD_BUFSIZ THEN 0 ELSE kbwritep + 1
    BY DEF Put
  <2>3. kbwritep + 1 > KBD_BUFSIZ <=> kbwritep + 1 = Ring
    BY <1>2 DEF Ring
  <2> QED BY <1>1, <2>1, <2>2, <2>3
<1>4. NewestKeys'
  <2> SUFFICES ASSUME NEW slot \in 0 .. KBD_BUFSIZ
               PROVE  /\ kbdbuf'[slot].n # 0 => (kbdbuf'[slot].n - 1) % Ring = slot
                      /\ kbdbuf'[slot].n <= typed'
                      /\ \A m \in 1 .. typed' : (m - 1) % Ring = slot => m <= kbdbuf'[slot].n
    BY DEF NewestKeys
  <2>1. /\ kbdbuf[slot].n # 0 => (kbdbuf[slot].n - 1) % Ring = slot
        /\ kbdbuf[slot].n <= typed /\ kbdbuf[slot].n \in Nat
        /\ \A m \in 1 .. typed : (m - 1) % Ring = slot => m <= kbdbuf[slot].n
    <3>1. kbdbuf[slot] \in Key
      BY DEF TypeOK
    <3> QED BY <3>1 DEF LapInv, NewestKeys, Key
  <2>2. slot \in 0 .. MaxSlot /\ kbdbuf' = [kbdbuf EXCEPT ![kbwritep] = [n |-> typed + 1, ch |-> ch]]
    BY DEF Put
  <2>3. CASE slot = kbwritep
    <3>1. kbdbuf'[slot].n = typed + 1
      BY <2>2, <2>3 DEF TypeOK
    <3>2. (typed + 1) - 1 = typed /\ \A m \in 1 .. typed' : m <= typed + 1
      BY <1>1
    <3> QED BY <1>1, <1>2, <2>3, <3>1, <3>2
  <2>4. CASE slot # kbwritep
    <3>1. kbdbuf'[slot] = kbdbuf[slot]
      BY <2>2, <2>4 DEF TypeOK
    <3>2. \A m \in 1 .. typed' : m \in 1 .. typed \/ m - 1 = typed
      BY <1>1
    <3> QED BY <1>1, <1>2, <2>1, <2>4, <3>1, <3>2
  <2> QED BY <2>3, <2>4
<1> QED BY <1>1, <1>3, <1>4

LEMMA KeysPreserveLaps ==
  ASSUME KbdInv, LapInv, UNCHANGED rdvars,
         \/ UNCHANGED <<kbdbuf, kbwritep, typed>>
         \/ \E ch \in Char : Put(ch)
  PROVE  LapInv'
<1>1. typed \in Nat /\ last \in Nat
  BY DEF KbdInv, TypeOK
<1>2. CASE UNCHANGED <<kbdbuf, kbwritep, typed>>
  BY <1>2 DEF LapInv, NewestKeys, ReaderPlace, rdvars
<1>3. CASE \E ch \in Char : Put(ch)
  <2>1. kbwritep' = typed' % Ring /\ NewestKeys' /\ typed' = typed + 1
    BY <1>3, PutPreservesLaps
  <2> QED BY <1>1, <2>1 DEF LapInv, ReaderPlace, rdvars
<1> QED BY <1>2, <1>3

\* The key a reader takes is a whole number of laps behind the one it should have taken.
LEMMA TakenInLap ==
  ASSUME KbdInv, LapInv, NEW r \in Readers, Take(r)
  PROVE  /\ last' \in Nat /\ last' > last /\ last' <= typed
         /\ (last' - 1) % Ring = last % Ring
         /\ kbreadp = last % Ring /\ idx[r] = kbreadp /\ kbreadp \in 0 .. KBD_BUFSIZ
<1> USE DEF KbdInv
<1>1. last \in Nat /\ typed \in Nat /\ last < typed /\ kbreadp = last % Ring /\ idx[r] = kbreadp
  BY DEF TypeOK, LapInv, ReaderPlace, Take, At
<1>2. kbreadp \in 0 .. KBD_BUFSIZ
  <2>1. last % Ring \in 0 .. Ring - 1
    BY <1>1, RingPositive, Division
  <2> QED BY <1>1, <2>1, RingPositive
<1>3. last' = kbdbuf[kbreadp].n /\ last' \in 0 .. MaxTyped
  <2>1. kbdbuf[kbreadp] \in Key
    BY <1>2 DEF TypeOK
  <2> QED BY <1>1, <2>1 DEF Take, Key
<1>4. last + 1 \in 1 .. typed /\ (last + 1) - 1 = last
  BY <1>1
<1>5. last + 1 <= last'
  BY <1>1, <1>2, <1>3, <1>4 DEF LapInv, NewestKeys
<1>6. (last' - 1) % Ring = last % Ring
  BY <1>1, <1>2, <1>3, <1>5 DEF LapInv, NewestKeys
<1>7. last' <= typed
  BY <1>2, <1>3 DEF LapInv, NewestKeys
<1> QED BY <1>1, <1>2, <1>3, <1>5, <1>6, <1>7

OneReader == \A q, r \in Readers : q = r

\* Numbers in which the key after a and key n belong in the same slot.
LEMMA SameSlot ==
  ASSUME NEW a \in Nat, NEW n \in Nat, n > a, (n - 1) % Ring = a % Ring
  PROVE  /\ n % Ring = (a + 1) % Ring
         /\ (n - a) % Ring = 1 % Ring
<1> DEFINE x == n - 1
           d == x - a
<1>1. x \in Nat /\ a <= x /\ x + 1 = n
  OBVIOUS
<1>2. x % Ring = a % Ring
  OBVIOUS
<1>3. d \in Nat /\ d + 1 = n - a
  BY <1>1
<1>4. d % Ring = 0
  <2> HIDE DEF x
  <2> QED BY <1>1, <1>2, RingPositive, SameRemainder
<1>5. 0 % Ring = 0
  <2>1. 0 = Ring * 0 + 0 /\ 0 \in 0 .. Ring - 1 /\ 0 \in Nat
    BY RingPositive
  <2> QED BY <2>1, RingPositive, RemainderOf
<1>6. /\ (a + 1) % Ring = IF (a % Ring) + 1 = Ring THEN 0 ELSE (a % Ring) + 1
      /\ (x + 1) % Ring = IF (x % Ring) + 1 = Ring THEN 0 ELSE (x % Ring) + 1
      /\ (d + 1) % Ring = IF (d % Ring) + 1 = Ring THEN 0 ELSE (d % Ring) + 1
      /\ (0 + 1) % Ring = IF (0 % Ring) + 1 = Ring THEN 0 ELSE (0 % Ring) + 1
  <2> HIDE DEF x, d
  <2>1. a \in Nat /\ x \in Nat /\ d \in Nat /\ 0 \in Nat
    BY <1>1, <1>3
  <2> QED BY <2>1, RingPositive, RemainderStep, Zenon
<1>7. n % Ring = (a + 1) % Ring
  <2> HIDE DEF x, d
  <2> QED BY <1>1, <1>2, <1>6
<1>8. (n - a) % Ring = 1 % Ring
  <2> HIDE DEF x, d
  <2> QED BY <1>3, <1>4, <1>5, <1>6
<1> QED BY <1>7, <1>8

LEMMA ReaderPreservesLaps ==
  ASSUME OneReader, KbdInv, LapInv, NEW r \in Readers, ReadCall(r) \/ Reader(r)
  PROVE  LapInv'
<1> USE DEF KbdInv, At, Goto
<1>1. UNCHANGED kbdvars
  BY DEF Reader, ReadCall, Spin, Load, Take, Check, Wrap, Edit
<1>2. kbwritep' = typed' % Ring /\ NewestKeys'
  BY <1>1 DEF kbdvars, LapInv, NewestKeys
<1>3. ASSUME ReaderPlace(r)', last' <= typed
      PROVE  LapInv'
  BY <1>1, <1>2, <1>3 DEF LapInv, OneReader, kbdvars
<1>4. /\ typed \in Nat /\ last \in Nat /\ kbreadp \in Nat /\ last <= typed /\ ReaderPlace(r)
      /\ pc \in [Readers -> {"idle", "spin", "load", "take", "check", "wrap", "edit"}]
      /\ idx \in [Readers -> 0 .. MaxSlot]
  BY DEF TypeOK, LapInv
<1>5. last % Ring \in 0 .. KBD_BUFSIZ
  BY <1>4, RingPositive, Division
<1>6. CASE ReadCall(r)
  BY <1>1, <1>3, <1>4, <1>6 DEF ReadCall, ReaderPlace, kbdvars
<1>7. CASE Spin(r)
  <2>1. last # typed
    BY <1>7 DEF Spin, LapInv, ReaderPlace
  <2> QED BY <1>1, <1>3, <1>4, <1>7, <2>1 DEF Spin, ReaderPlace, kbdvars
<1>8. CASE Load(r)
  BY <1>1, <1>3, <1>4, <1>8 DEF Load, ReaderPlace, kbdvars
<1>9. CASE Take(r)
  <2>1. /\ last' \in Nat /\ last' > last /\ last' <= typed
        /\ (last' - 1) % Ring = kbreadp /\ idx[r] = kbreadp /\ kbreadp \in 0 .. KBD_BUFSIZ
    BY <1>9, TakenInLap
  <2>2. kbreadp = last % Ring
    BY <1>9, TakenInLap
  <2>3. last' % Ring = (last + 1) % Ring
    BY <1>4, <2>1, <2>2, SameSlot, Zenon
  <2>4. kbreadp' = kbreadp + 1 /\ pc'[r] = "check"
    BY <1>4, <1>9, <2>1 DEF Take
  <2>5. kbreadp' \in 0 .. Ring
    BY <2>1, <2>4 DEF Ring
  <2>6. kbreadp' % Ring = last' % Ring
    <3>1. kbreadp % Ring = kbreadp
      <4>1. kbreadp \in 0 .. Ring - 1 /\ kbreadp = Ring * 0 + kbreadp
        BY <2>1, RingPositive
      <4> QED BY <1>4, <4>1, RingPositive, RemainderOf
    <3>2. /\ (kbreadp + 1) % Ring = IF (kbreadp % Ring) + 1 = Ring THEN 0 ELSE (kbreadp % Ring) + 1
          /\ (last + 1) % Ring = IF (last % Ring) + 1 = Ring THEN 0 ELSE (last % Ring) + 1
      BY <1>4, RingPositive, RemainderStep, Zenon
    <3> QED BY <2>2, <2>3, <2>4, <3>1, <3>2
  <2> QED BY <1>3, <2>1, <2>4, <2>5, <2>6 DEF ReaderPlace
<1>10. CASE Check(r)
  <2>1. kbreadp \in 0 .. Ring /\ kbreadp % Ring = last % Ring
    BY <1>10 DEF Check, LapInv, ReaderPlace
  <2>2. UNCHANGED <<kbreadp, last>> /\ pc'[r] = IF kbreadp > KBD_BUFSIZ THEN "wrap" ELSE "edit"
    BY <1>4, <1>10 DEF Check
  <2>3. CASE kbreadp > KBD_BUFSIZ
    <3>1. kbreadp = Ring /\ kbreadp = Ring * 1 + 0 /\ 0 \in 0 .. Ring - 1
      BY <2>1, <2>3, RingPositive DEF Ring
    <3>2. kbreadp % Ring = 0
      BY <1>4, <3>1, RingPositive, RemainderOf
    <3> QED BY <1>3, <1>4, <2>1, <2>2, <2>3, <3>2 DEF ReaderPlace
  <2>4. CASE ~ (kbreadp > KBD_BUFSIZ)
    <3>1. kbreadp \in 0 .. Ring - 1 /\ kbreadp = Ring * 0 + kbreadp
      BY <2>1, <2>4, RingPositive
    <3>2. kbreadp % Ring = kbreadp
      BY <1>4, <3>1, RingPositive, RemainderOf
    <3> QED BY <1>3, <1>4, <2>1, <2>2, <2>4, <3>2 DEF ReaderPlace
  <2> QED BY <2>3, <2>4
<1>11. CASE Wrap(r)
  <2>1. last % Ring = 0 /\ kbreadp' = 0 /\ last' = last /\ pc'[r] = "edit"
    BY <1>4, <1>11 DEF Wrap, LapInv, ReaderPlace
  <2> QED BY <1>3, <1>4, <2>1 DEF ReaderPlace
<1>12. CASE Edit(r)
  <2>1. pc'[r] \in {"idle", "spin"} /\ UNCHANGED <<kbreadp, last>> /\ kbreadp = last % Ring
    BY <1>4, <1>12 DEF Edit, ReaderPlace
  <2> QED BY <1>3, <1>4, <2>1 DEF ReaderPlace
<1> QED BY <1>6, <1>7, <1>8, <1>9, <1>10, <1>11, <1>12 DEF Reader

LEMMA LapInvariance ==
  ASSUME OneReader
  PROVE  Spec => [](KbdInv /\ LapInv)
<1>1. Init => LapInv
  <2> SUFFICES ASSUME Init PROVE LapInv
    OBVIOUS
  <2>1. 0 = Ring * 0 + 0 /\ 0 \in 0 .. Ring - 1 /\ 0 \in Nat
    BY RingPositive
  <2>2. 0 % Ring = 0
    BY <2>1, RingPositive, RemainderOf
  <2>3. \A slot \in 0 .. KBD_BUFSIZ : kbdbuf[slot].n = 0
    BY DEF Init, NoKey
  <2> QED BY <2>2, <2>3 DEF Init, LapInv, NewestKeys, ReaderPlace
<1>2. KbdInv /\ LapInv /\ [Next]_vars => LapInv'
  <2> SUFFICES ASSUME KbdInv, LapInv, [Next]_vars PROVE LapInv'
    OBVIOUS
  <2>1. CASE UNCHANGED vars
    BY <2>1 DEF LapInv, NewestKeys, ReaderPlace, vars, kbdvars, rdvars
  <2>2. CASE \E scan \in Scan : Press(scan)
    <3> SUFFICES ASSUME NEW scan \in Scan, Press(scan) PROVE LapInv'
      BY <2>2
    <3>1. \/ UNCHANGED <<kbdbuf, kbwritep, typed>>
          \/ Put("eof") \/ (Row(scan) \notin Bucky /\ Put(Row(scan)))
      BY DEF Press
    <3>2. "eof" \in Char /\ (Row(scan) \notin Bucky => Row(scan) \in Char)
      <4>1. ("BUCKY_SHIFT" \in kbd_state) \in BOOLEAN
        OBVIOUS
      <4>2. kbdus["BUCKY_SHIFT" \in kbd_state] \in [Scan -> Char \cup Bucky]
        BY <4>1, LayoutTypes
      <4>3. Row(scan) \in Char \cup Bucky
        BY <4>2 DEF Row
      <4> QED BY <4>3 DEF Char, Terminator
    <3> QED BY <3>1, <3>2, KeysPreserveLaps DEF Press
  <2>3. CASE \E scan \in Modifier : Release(scan)
    BY <2>3, KeysPreserveLaps DEF Release, rdvars
  <2> QED BY <2>1, <2>2, <2>3, ReaderPreservesLaps DEF Next
<1> QED BY <1>1, <1>2, KbdInvariance, PTL DEF Spec

\* A single reader takes every key at most once and in the order typed, and loses whole laps
\* of the ring only (keyboard_intr, devfs_read).
THEOREM WholeLapsLost ==
  ASSUME OneReader
  PROVE  Spec => OnlyWholeLapsLost
<1> DEFINE Step == last' # last => /\ last' > last
                                  /\ (last' - last) % (KBD_BUFSIZ + 1) = 1 % (KBD_BUFSIZ + 1)
<1>1. KbdInv /\ LapInv /\ [Next]_vars => [Step]_vars
  <2> SUFFICES ASSUME KbdInv, LapInv, Next, last' # last PROVE Step
    OBVIOUS
  <2>1. PICK r \in Readers : Take(r)
    BY DEF Next, Press, Release, ReadCall, Reader, Spin, Load, Check, Wrap, Edit, rdvars
  <2>2. last' \in Nat /\ last' > last /\ (last' - 1) % Ring = last % Ring /\ last \in Nat
    BY <2>1, TakenInLap DEF KbdInv, TypeOK
  <2>3. (last' - last) % Ring = 1 % Ring
    BY <2>2, SameSlot, Zenon
  <2> QED BY <2>2, <2>3 DEF Ring
<1> QED BY <1>1, LapInvariance, PTL DEF Spec, OnlyWholeLapsLost

-----------------------------------------------------------------------------
(* The line                                                                 *)

Reading == {r \in Readers : ~At(r, "idle")}
Line(r) == [j \in 1 .. i[r] |-> s[r][j - 1]]
Lines == [r \in Readers |-> Line(r)]

LEMMA LineTypes ==
  ASSUME TypeOK, NEW r \in Readers
  PROVE  Line(r) \in Seq(Char) /\ Len(Line(r)) = i[r]
<1>1. i[r] \in Nat /\ i[r] <= BufLen
  BY DEF TypeOK
<1>2. \A j \in 1 .. i[r] : s[r][j - 1] \in Char
  BY <1>1 DEF TypeOK
<1> QED BY <1>1, <1>2 DEF Line

\* Steps that leave the buffers alone and no reader begins or ends with.
LEMMA Unseen ==
  ASSUME UNCHANGED <<i, s>>, \A q \in Readers : pc[q] = "idle" <=> pc'[q] = "idle"
  PROVE  UNCHANGED <<Reading, Lines>>
BY DEF Reading, Lines, Line, At

\* One reader's line changes.
LEMMA OneLine ==
  ASSUME TypeOK, NEW r \in Readers, NEW n, NEW buf,
         i' = [i EXCEPT ![r] = n], s' = [s EXCEPT ![r] = buf]
  PROVE  Lines' = [Lines EXCEPT ![r] = [j \in 1 .. n |-> buf[j - 1]]]
BY DEF TypeOK, Lines, Line

LEMMA SameSequence ==
  ASSUME NEW S, NEW a \in Seq(S), NEW b \in Seq(S), Len(a) = Len(b),
         \A j \in 1 .. Len(a) : a[j] = b[j]
  PROVE  a = b
OBVIOUS

LEMMA EditIsKeyOrRub ==
  ASSUME KbdInv, NEW r \in Readers, Edit(r)
  PROVE  Editor!Rub(r) \/ \E k \in Plain \cup Terminator : Editor!Key(r, k)
<1> USE DEF KbdInv
<1> DEFINE p == i[r]
           k == c[r]
           n == AfterKey(p, k)
           stored == [s[r] EXCEPT ![p] = k]
           erased == IF n < p THEN [stored EXCEPT ![n] = "junk"] ELSE stored
           done == k \in Terminator \/ n = BufLen
           buf == IF done THEN [erased EXCEPT ![n] = "junk"] ELSE erased
           line == [j \in 1 .. n |-> buf[j - 1]]
<1>1. p \in 0 .. BufLen /\ p < BufLen /\ k \in Char /\ s[r] \in [0 .. BufLen -> Char] /\ pc[r] = "edit"
  BY DEF TypeOK, RoomLeft, Edit, At
<1>2. i' = [i EXCEPT ![r] = n] /\ s' = [s EXCEPT ![r] = buf]
  BY DEF Edit
<1>3. pc' = [pc EXCEPT ![r] = IF done THEN "idle" ELSE "spin"]
  BY DEF Edit, Goto
<1>4. n \in 0 .. BufLen
  BY <1>1, AfterKeyBounds
<1>5. Lines' = [Lines EXCEPT ![r] = line]
  <2> HIDE DEF n, buf
  <2> QED BY <1>2, OneLine
<1>6. r \in Reading /\ Reading' = IF done THEN Reading \ {r} ELSE Reading
  <2> HIDE DEF done
  <2> QED BY <1>1, <1>3 DEF TypeOK, Reading, At
<1>7. Line(r) \in Seq(Char) /\ Len(Line(r)) = p /\ Lines[r] = Line(r)
  BY LineTypes DEF Lines
<1>8. /\ stored \in [0 .. BufLen -> Char]
      /\ erased \in [0 .. BufLen -> Char]
      /\ buf \in [0 .. BufLen -> Char]
  <2>1. "junk" \in Char
    BY DEF Char, Plain
  <2>2. stored \in [0 .. BufLen -> Char]
    BY <1>1
  <2>3. erased \in [0 .. BufLen -> Char]
    BY <2>1, <2>2
  <2>4. buf \in [0 .. BufLen -> Char]
    <3> HIDE DEF erased, done, n
    <3> QED BY <2>1, <2>3
  <2> QED BY <2>2, <2>3, <2>4
<1>9. line \in Seq(Char) /\ Len(line) = n
  <2> HIDE DEF n, buf
  <2>1. n \in Nat /\ \A j \in 1 .. n : j - 1 \in 0 .. BufLen
    BY <1>4
  <2>2. \A j \in 1 .. n : buf[j - 1] \in Char
    BY <1>8, <2>1
  <2> QED BY <2>1, <2>2
<1>10. ASSUME NEW j \in 1 .. n
      PROVE  line[j] = IF j - 1 = p THEN k ELSE s[r][j - 1]
  <2>1. j - 1 \in 0 .. BufLen /\ j - 1 # n
    BY <1>4
  <2>2. stored[j - 1] = IF j - 1 = p THEN k ELSE s[r][j - 1]
    BY <1>1, <2>1
  <2>3. erased[j - 1] = stored[j - 1]
    <3> HIDE DEF stored, n
    <3> QED BY <1>8, <2>1
  <2>4. buf[j - 1] = erased[j - 1]
    <3> HIDE DEF erased, done, n
    <3> QED BY <1>8, <2>1
  <2>5. line[j] = buf[j - 1]
    <3> HIDE DEF buf, n
    <3> QED OBVIOUS
  <2> QED BY <2>2, <2>3, <2>4, <2>5
<1>11. \A j \in 1 .. p : Line(r)[j] = s[r][j - 1]
  BY DEF Line
<1> HIDE DEF line, buf, erased, stored
<1>12. CASE k = "bs"
  <2>1. /\ n = IF p > 0 THEN p - 1 ELSE 0
        /\ ~done
    BY <1>1, <1>12 DEF AfterKey, Terminator
  <2>2. line = IF Line(r) = <<>> THEN Line(r) ELSE SubSeq(Line(r), 1, Len(Line(r)) - 1)
    <3>1. CASE p = 0
      BY <1>7, <1>9, <2>1, <3>1
    <3>2. CASE p > 0
      <4> DEFINE front == SubSeq(Line(r), 1, p - 1)
      <4>1. Line(r) # <<>>
        BY <1>7, <3>2
      <4>2. /\ front \in Seq(Char) /\ Len(front) = n
            /\ \A j \in 1 .. n : front[j] = Line(r)[j]
        BY <1>1, <1>7, <2>1, <3>2
      <4>3. \A j \in 1 .. n : line[j] = Line(r)[j]
        BY <1>1, <1>10, <1>11, <2>1, <3>2
      <4>4. line = front
        <5> HIDE DEF front, n
        <5> QED BY <1>9, <4>2, <4>3, SameSequence
      <4> QED BY <1>7, <4>1, <4>4
    <3> QED BY <1>1, <3>1, <3>2
  <2>3. Editor!Rub(r)
    <3> HIDE DEF done
    <3> QED BY <1>5, <1>6, <1>7, <2>1, <2>2 DEF Editor!Rub, Editor!Front, Reading, Lines, Line
  <2> QED BY <2>3
<1>13. CASE k # "bs"
  <2>1. n = p + 1 /\ k \in Plain \cup Terminator
    BY <1>1, <1>13 DEF AfterKey, Char
  <2>2. line = Append(Line(r), k)
    <3> DEFINE longer == Append(Line(r), k)
    <3>1. /\ longer \in Seq(Char) /\ Len(longer) = n
          /\ \A j \in 1 .. n : longer[j] = IF j - 1 = p THEN k ELSE Line(r)[j]
      BY <1>1, <1>7, <2>1
    <3>2. \A j \in 1 .. n : line[j] = longer[j]
      BY <1>1, <1>10, <1>11, <2>1, <3>1
    <3> HIDE DEF longer, n
    <3>3. line = longer
      BY <1>9, <3>1, <3>2, SameSequence
    <3> QED BY <3>3 DEF longer
  <2>3. PICK ch \in Plain \cup Terminator : ch = k
    BY <2>1
  <2>4. Editor!Key(r, ch)
    <3>1. done <=> ch \in Terminator \/ Len(Line(r)) + 1 = BufLen
      BY <1>7, <2>1, <2>3
    <3>2. line = Append(Line(r), ch)
      BY <2>2, <2>3
    <3> HIDE DEF done
    <3> QED BY <1>5, <1>6, <1>7, <3>1, <3>2 DEF Editor!Key, Reading, Lines, Line
  <2> QED BY <2>4
<1> QED BY <1>12, <1>13

\* Each call of devfs_read returns the line its keys make: Keyboard implements LineEditor, for
\* any number of readers.
THEOREM KeyboardImplementsLineEditor == Spec => ReadsLines
<1>1. Init => Editor!Init
  <2> SUFFICES ASSUME Init PROVE Reading = {} /\ Lines = [r \in Readers |-> <<>>]
    BY DEF Editor!Init, Reading, Lines, Line
  <2>1. Reading = {}
    BY DEF Init, Reading, At
  <2>2. ASSUME NEW r \in Readers PROVE Line(r) = <<>>
    <3>1. i[r] = 0
      BY DEF Init
    <3>2. [j \in 1 .. 0 |-> s[r][j - 1]] = <<>>
      OBVIOUS
    <3> QED BY <3>1, <3>2 DEF Line
  <2> QED BY <2>1, <2>2 DEF Lines
<1>2. KbdInv /\ [Next]_vars => [Editor!Next]_<<Reading, Lines>>
  <2> SUFFICES ASSUME KbdInv, [Next]_vars, ~ UNCHANGED <<Reading, Lines>> PROVE Editor!Next
    OBVIOUS
  <2>1. ~ UNCHANGED rdvars
    BY Unseen DEF rdvars
  <2>2. PICK r \in Readers : ReadCall(r) \/ Reader(r)
    BY <2>1 DEF Next, Press, Release, vars, rdvars
  <2>3. pc \in [Readers -> {"idle", "spin", "load", "take", "check", "wrap", "edit"}]
    BY DEF KbdInv, TypeOK
  <2>4. CASE ReadCall(r)
    <3>1. s' = [s EXCEPT ![r] = s[r]] /\ i' = [i EXCEPT ![r] = 0]
      BY <2>4 DEF ReadCall, KbdInv, TypeOK
    <3>2. Lines' = [Lines EXCEPT ![r] = [j \in 1 .. 0 |-> s[r][j - 1]]]
      BY <3>1, OneLine DEF KbdInv
    <3>3. [j \in 1 .. 0 |-> s[r][j - 1]] = <<>>
      OBVIOUS
    <3>4. r \notin Reading /\ Reading' = Reading \cup {r}
      BY <2>3, <2>4 DEF ReadCall, Reading, At, Goto
    <3>5. Editor!Begin(r)
      BY <3>2, <3>3, <3>4 DEF Editor!Begin, Reading, Lines, Line
    <3> QED BY <3>5 DEF Editor!Next
  <2>5. CASE Spin(r) \/ Load(r) \/ Take(r) \/ Check(r) \/ Wrap(r)
    <3>1. UNCHANGED <<i, s>> /\ \A q \in Readers : pc[q] = "idle" <=> pc'[q] = "idle"
      BY <2>3, <2>5 DEF Spin, Load, Take, Check, Wrap, At, Goto
    <3> QED BY <3>1, Unseen
  <2>6. CASE Edit(r)
    BY <2>6, EditIsKeyOrRub DEF Editor!Next
  <2> QED BY <2>2, <2>4, <2>5, <2>6 DEF Reader
<1>3. Editor!Spec <=> Editor!Init /\ [][Editor!Next]_<<Reading, Lines>>
  BY DEF Editor!Spec, Reading, Lines, Line
<1> QED BY <1>1, <1>2, <1>3, KbdInvariance, PTL DEF Spec, ReadsLines
=============================================================================
