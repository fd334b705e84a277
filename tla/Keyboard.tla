------------------------------ MODULE Keyboard -------------------------------
(***************************************************************************)
(* The keyboard decoder of kern/console.c: the key tables, and             *)
(* kbd_proc_data as a function from the static shift state and one scan    *)
(* code to the next shift state and a character.  Characters are their     *)
(* codes; 0 is "no character".  The shift word is the set of its flags.    *)
(***************************************************************************)
EXTENDS Integers, Sequences

Flag == {"SHIFT", "CTL", "ALT", "CAPSLOCK", "NUMLOCK", "SCROLLLOCK", "E0ESC"}

Code == 0 .. 255

E0 == 224

KEY_DEL == 233

shiftcode == [d \in Code |->
    CASE d \in {29, 157} -> {"CTL"}
      [] d \in {42, 54}  -> {"SHIFT"}
      [] d \in {56, 184} -> {"ALT"}
      [] OTHER           -> {}]

togglecode == [d \in Code |->
    CASE d = 58 -> {"CAPSLOCK"}
      [] d = 69 -> {"NUMLOCK"}
      [] d = 70 -> {"SCROLLLOCK"}
      [] OTHER  -> {}]

\* What the keys behind an E0 escape give: home, the arrows, page up and so
\* on to del, keypad enter and keypad divide.
extended ==
    [d \in {199, 200, 201, 203, 205, 207, 208, 209, 210, 211, 156, 181} |->
        CASE d = 199 -> 224 [] d = 200 -> 226 [] d = 201 -> 230
          [] d = 203 -> 228 [] d = 205 -> 229 [] d = 207 -> 225
          [] d = 208 -> 227 [] d = 209 -> 231 [] d = 210 -> 232
          [] d = 211 -> KEY_DEL [] d = 156 -> 10 [] d = 181 -> 47]

\* A table whose first entries are a row of codes, with some more behind.
Table(row, more) ==
    [d \in Code |-> IF d < Len(row) THEN row[d + 1]
                    ELSE IF d \in DOMAIN more THEN more[d] ELSE 0]

\* Scan codes 0x47 to 0x53, the keypad, are the same in both tables.
keypad == <<55, 56, 57, 45, 52, 53, 54, 43, 49, 50, 51, 48, 46>>

Zeros(n) == [k \in 1 .. n |-> 0]

normalmap == Table(
    <<0, 27, 49, 50, 51, 52, 53, 54, 55, 56, 57, 48, 45, 61, 8, 9,
      113, 119, 101, 114, 116, 121, 117, 105, 111, 112, 91, 93, 10, 0, 97, 115,
      100, 102, 103, 104, 106, 107, 108, 59, 39, 96, 0, 92, 122, 120, 99, 118,
      98, 110, 109, 44, 46, 47, 0, 42, 0, 32>> \o Zeros(13) \o keypad,
    extended)

shiftmap == Table(
    <<0, 27, 33, 64, 35, 36, 37, 94, 38, 42, 40, 41, 95, 43, 8, 9,
      81, 87, 69, 82, 84, 89, 85, 73, 79, 80, 123, 125, 10, 0, 65, 83,
      68, 70, 71, 72, 74, 75, 76, 58, 34, 126, 0, 124, 90, 88, 67, 86,
      66, 78, 77, 60, 62, 63, 0, 42, 0, 32>> \o Zeros(13) \o keypad,
    extended)

\* C(x) of the source: the control character, as the uint8_t it is kept in.
Ctl(x) == (x - 64) % 256

\* Home is at 0x97 here, where no key of the keyboard leads, and keypad enter
\* has no entry.
ctlmap == Table(
    Zeros(16) \o
    [k \in 1 .. 40 |->
        LET c == <<81, 87, 69, 82, 84, 89, 85, 73, 79, 80, 0, 0, 13, 0, 65, 83,
                   68, 70, 71, 72, 74, 75, 76, 0, 0, 0, 0, 92, 90, 88, 67, 86,
                   66, 78, 77, 0, 0, 47, 0, 0>>[k]
        IN  IF c \in {0, 13} THEN c ELSE Ctl(c)],
    [d \in ({151} \cup DOMAIN extended) \ {156, 199} |->
        CASE d = 151 -> 224 [] d = 181 -> Ctl(47) [] OTHER -> extended[d]])

charcode(shift) ==
    IF "CTL" \in shift THEN ctlmap
    ELSE IF "SHIFT" \in shift THEN shiftmap ELSE normalmap

SwapCase(c) ==
    CASE c \in 97 .. 122 -> c - 32
      [] c \in 65 .. 90  -> c + 32
      [] OTHER           -> c

-----------------------------------------------------------------------------
(***************************************************************************)
(* kbd_proc_data, after the status port said that there is a byte.         *)
(***************************************************************************)
Xor(S, T) == (S \ T) \cup (T \ S)

Low7(data) == data % 128

\* Mutant: the escape bit is not cleared with the released key's flag.
MutKeepsEscape(shift, data) ==
    LET d == IF "E0ESC" \in shift THEN data ELSE Low7(data)
    IN  shift \ shiftcode[d]

KeyReleased(shift, data) ==
    LET d == IF "E0ESC" \in shift THEN data ELSE Low7(data)
    IN  shift \ (shiftcode[d] \cup {"E0ESC"})

KeyPressed(shift, data) ==
    LET d  == IF "E0ESC" \in shift THEN data + 128 ELSE data
        s  == Xor((shift \ {"E0ESC"}) \cup shiftcode[d], togglecode[d])
        c  == charcode(s)[d]
    IN  [shift |-> s, c |-> IF "CAPSLOCK" \in s THEN SwapCase(c) ELSE c]

kbd_proc_data(shift, data) ==
    IF data = E0 THEN [shift |-> shift \cup {"E0ESC"}, c |-> 0]
    ELSE IF data >= 128 THEN [shift |-> KeyReleased(shift, data), c |-> 0]
    ELSE KeyPressed(shift, data)

\* Ctrl-Alt-Del pulls the reset line.
Reboots(r) == {"CTL", "ALT"} \subseteq r.shift /\ r.c = KEY_DEL
=============================================================================
