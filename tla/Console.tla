------------------------------- MODULE Console -------------------------------
(***************************************************************************)
(* Console input and output: the two input devices, the ring buffer of     *)
(* kern/console.c that they feed, the text screen, and the monitor that    *)
(* reads lines from the one and echoes on the other (lib/readline.c,       *)
(* kern/monitor.c).  No interrupt handler calls kbd_intr or serial_intr:   *)
(* input waits in the devices until cons_getc polls them.  The devices do  *)
(* not wait for the kernel, so every turn of a polling loop, and every     *)
(* character that is printed, is a step of its own.                        *)
(***************************************************************************)
EXTENDS Keyboard, SequencesExt

CONSTANTS
    CONSBUFSIZE, CRT_COLS, CRT_ROWS, BUFLEN,
    Modifier,       \* keys that are held: <<make code, has an E0 prefix>>
    Tapped,         \* keys that are pressed and released at once
    SerialByte,     \* what may arrive on the serial port
    Prompt,         \* what readline prints first
    Reply,          \* what a command may print
    MaxWire,        \* bound: bytes the keyboard keeps
    MaxKeys,        \* bound: uses of the keyboard in a behaviour
    MaxBytes        \* bound: bytes on the serial line in a behaviour

CRT_SIZE == CRT_ROWS * CRT_COLS

Char == 1 .. 255

\* No key has a break code that reads as the escape.
Key == {k \in (1 .. 127) \X BOOLEAN : k[1] + 128 # E0}

ASSUME ConsoleAssumption ==
    /\ CONSBUFSIZE \in Nat /\ CONSBUFSIZE > 1
    /\ CRT_COLS \in Nat /\ CRT_COLS > 0
    /\ CRT_ROWS \in Nat /\ CRT_ROWS > 1
    /\ BUFLEN \in Nat /\ BUFLEN > 1
    /\ Modifier \subseteq Key /\ Tapped \subseteq Key
    /\ SerialByte \subseteq Char
    /\ Prompt \in Seq(Char) /\ Reply \subseteq Seq(Char)

VARIABLES
    pc,             \* off: before cons_init; init: in the loop of kbd_init;
                    \* prompt: the monitor is about to call readline;
                    \* serial, kbd: in the loops of the two devices that
                    \* cons_getc calls for readline; run: in runcmd;
                    \* reset: the reset line was pulled
    kbd, serial,    \* bytes in the devices
    held,           \* the modifier keys that are down
    events,         \* how often the keyboard and the serial line were used
    serial_exists,
    shift,          \* the static variable of kbd_proc_data
    buf, rpos, wpos,    \* cons
    unread,         \* history: the characters put in the ring, less one for
                    \* each that cons_getc has returned, oldest first
    out,            \* what cprintf has yet to print
    screen,         \* crt_buf and crt_pos
    line            \* the first i characters of readline's buffer

ringVars == <<buf, rpos, wpos, unread>>
deviceVars == <<kbd, serial, held, events>>
vars == <<pc, deviceVars, serial_exists, shift, ringVars, out, screen, line>>

Blank == 32

Init ==
    /\ pc = "off"
    /\ kbd = <<>> /\ serial = <<>> /\ held = {}
    /\ events = [kbd |-> 0, serial |-> 0]
    /\ serial_exists = FALSE
    /\ shift = {}
    /\ buf = [k \in 0 .. CONSBUFSIZE - 1 |-> 0] /\ rpos = 0 /\ wpos = 0
    /\ unread = <<>>
    /\ out = <<>>
    /\ screen = [crt_buf |-> [k \in 0 .. CRT_SIZE - 1 |-> Blank], crt_pos |-> 0]
    /\ line = <<>>

-----------------------------------------------------------------------------
(***************************************************************************)
(* The devices                                                             *)
(***************************************************************************)
Count(d, max) ==
    /\ events[d] < max
    /\ events' = [events EXCEPT ![d] = @ + 1]

\* The bytes of a key going down or up: the break code has bit 7 set.
Bytes(key, up) ==
    (IF key[2] THEN <<E0>> ELSE <<>>) \o <<key[1] + (IF up THEN 128 ELSE 0)>>

Keystroke(bytes) ==
    /\ Count("kbd", MaxKeys)
    /\ Len(kbd) + Len(bytes) <= MaxWire
    /\ kbd' = kbd \o bytes
    /\ UNCHANGED <<pc, serial, serial_exists, shift, ringVars, out, screen, line>>

Hold(k)   == k \notin held /\ Keystroke(Bytes(k, FALSE)) /\ held' = held \cup {k}
LetGo(k)  == k \in held /\ Keystroke(Bytes(k, TRUE)) /\ held' = held \ {k}
Tap(k)    == Keystroke(Bytes(k, FALSE) \o Bytes(k, TRUE)) /\ UNCHANGED held

Receive(b) ==
    /\ Count("serial", MaxBytes)
    /\ pc \in {"off", "init"} \/ serial_exists
    /\ serial' = Append(serial, b)
    /\ UNCHANGED <<pc, kbd, held, serial_exists, shift, ringVars, out, screen, line>>

-----------------------------------------------------------------------------
(***************************************************************************)
(* The ring                                                                *)
(***************************************************************************)

\* Mutant: the last cell of the ring is never used.
MutWrapsEarly(c) ==
    IF c = 0 THEN UNCHANGED <<buf, wpos, unread>>
    ELSE /\ buf' = [buf EXCEPT ![wpos] = c]
         /\ wpos' = IF wpos + 1 = CONSBUFSIZE - 1 THEN 0 ELSE wpos + 1
         /\ unread' = Append(unread, c)

\* One turn of the loop of cons_intr.  Nothing looks at rpos: a full ring
\* goes on as an empty one.
cons_intr(c) ==
    IF c = 0 THEN UNCHANGED <<buf, wpos, unread>>
    ELSE /\ buf' = [buf EXCEPT ![wpos] = c]
         /\ wpos' = IF wpos + 1 = CONSBUFSIZE THEN 0 ELSE wpos + 1
         /\ unread' = Append(unread, c)

serial_intr ==
    /\ pc = "serial" /\ out = <<>>
    /\ serial_exists /\ serial # <<>>
    /\ serial' = Tail(serial)
    /\ cons_intr(Head(serial))
    /\ UNCHANGED <<pc, kbd, held, events, serial_exists, shift, rpos, out, screen, line>>

\* The serial port has nothing more.
SerialDone ==
    /\ pc = "serial" /\ out = <<>>
    /\ ~serial_exists \/ serial = <<>>
    /\ pc' = "kbd"
    /\ UNCHANGED <<deviceVars, serial_exists, shift, ringVars, out, screen, line>>

\* The loop may end before the last byte of a keystroke has come.
kbd_intr ==
    /\ pc \in {"init", "kbd"}
    /\ kbd # <<>>
    /\ kbd' = Tail(kbd)
    /\ LET r == kbd_proc_data(shift, Head(kbd))
       IN  /\ shift' = r.shift
           /\ cons_intr(r.c)
           /\ pc' = IF Reboots(r) THEN "reset" ELSE pc
    /\ UNCHANGED <<serial, held, events, serial_exists, rpos, out, screen, line>>

-----------------------------------------------------------------------------
(***************************************************************************)
(* The screen                                                              *)
(***************************************************************************)
Scroll(s) ==
    IF s.crt_pos < CRT_SIZE THEN s
    ELSE [crt_buf |-> [k \in 0 .. CRT_SIZE - 1 |->
                         IF k < CRT_SIZE - CRT_COLS
                         THEN s.crt_buf[k + CRT_COLS] ELSE Blank],
          crt_pos |-> s.crt_pos - CRT_COLS]

\* Mutant: a backspace does not go back to the line above.
MutStopsAtMargin(s, c) ==
    CASE c = 8 ->
           IF s.crt_pos % CRT_COLS = 0 THEN s
           ELSE [crt_buf |-> [s.crt_buf EXCEPT ![s.crt_pos - 1] = Blank],
                 crt_pos |-> s.crt_pos - 1]
      [] c = 10 -> [s EXCEPT !.crt_pos = (@ + CRT_COLS) - (@ % CRT_COLS)]
      [] OTHER  -> [crt_buf |-> [s.crt_buf EXCEPT ![s.crt_pos] = c],
                    crt_pos |-> s.crt_pos + 1]

\* A character other than a tab, before the screen scrolls.
Place(s, c) ==
    CASE c = 8 ->
           IF s.crt_pos = 0 THEN s
           ELSE [crt_buf |-> [s.crt_buf EXCEPT ![s.crt_pos - 1] = Blank],
                 crt_pos |-> s.crt_pos - 1]
      [] c = 10 -> [s EXCEPT !.crt_pos = (@ + CRT_COLS) - (@ % CRT_COLS)]
      [] c = 13 -> [s EXCEPT !.crt_pos = @ - (@ % CRT_COLS)]
      [] OTHER  -> [crt_buf |-> [s.crt_buf EXCEPT ![s.crt_pos] = c],
                    crt_pos |-> s.crt_pos + 1]

Put(s, c) == Scroll(Place(s, c))

\* A tab is five spaces through cons_putc, which comes back here.
cga_putc(s, c) ==
    IF c = 9 THEN Put(Put(Put(Put(Put(s, Blank), Blank), Blank), Blank), Blank)
    ELSE Put(s, c)

\* cprintf prints the next character of its text.
putch ==
    /\ out # <<>>
    /\ screen' = cga_putc(screen, Head(out))
    /\ out' = Tail(out)
    /\ UNCHANGED <<pc, deviceVars, serial_exists, shift, ringVars, line>>

-----------------------------------------------------------------------------
(***************************************************************************)
(* cons_init, in three steps: cga_init finds the cursor where the BIOS     *)
(* left it; kbd_init drains the keyboard into the ring (kbd_intr above);   *)
(* serial_init throws away the byte that waits in the port, and a message  *)
(* says so if there is none, here cut to its last character and its line   *)
(* end.                                                                    *)
(***************************************************************************)
cga_init ==
    /\ pc = "off"
    /\ \E pos \in 0 .. CRT_SIZE - 1 : screen' = [screen EXCEPT !.crt_pos = pos]
    /\ pc' = "init"
    /\ UNCHANGED <<deviceVars, serial_exists, shift, ringVars, out, line>>

NoSerialPort == <<33, 10>>

serial_init ==
    /\ pc = "init"
    /\ serial_exists' \in BOOLEAN
    /\ serial' = IF serial = <<>> THEN <<>> ELSE Tail(serial)
    /\ out' = IF serial_exists' THEN <<>> ELSE NoSerialPort
    /\ pc' = "prompt"
    /\ UNCHANGED <<kbd, held, events, shift, ringVars, screen, line>>

-----------------------------------------------------------------------------
(***************************************************************************)
(* The monitor                                                             *)
(***************************************************************************)
readline ==
    /\ pc = "prompt" /\ out = <<>>
    /\ pc' = "serial"
    /\ out' = Prompt
    /\ line' = <<>>
    /\ UNCHANGED <<deviceVars, serial_exists, shift, ringVars, screen>>

\* What readline makes of one character.
Erases(c)   == c \in {8, 127} /\ line # <<>>
Stores(c)   == ~Erases(c) /\ c >= 32 /\ Len(line) < BUFLEN - 1
EndsLine(c) == c \in {10, 13}

Edit(c) ==
    \/ /\ Erases(c)
       /\ line' = Front(line)
       /\ screen' = cga_putc(screen, 8)
       /\ pc' = "serial"
    \/ /\ Stores(c)
       /\ line' = Append(line, c)
       /\ screen' = cga_putc(screen, c)
       /\ pc' = "serial"
    \/ /\ EndsLine(c)
       /\ screen' = cga_putc(screen, 10)
       /\ pc' = "run"
       /\ UNCHANGED line
    \/ /\ ~(Erases(c) \/ Stores(c) \/ EndsLine(c))
       /\ pc' = "serial"
       /\ UNCHANGED <<line, screen>>

\* cons_getc has polled both devices and takes a character, which getchar
\* gives to readline.
getchar ==
    /\ pc = "kbd"
    /\ rpos # wpos
    /\ rpos' = IF rpos + 1 = CONSBUFSIZE THEN 0 ELSE rpos + 1
    /\ unread' = Tail(unread)
    /\ Edit(buf[rpos])
    /\ UNCHANGED <<deviceVars, serial_exists, shift, buf, wpos, out>>

\* It finds nothing: the devices had nothing, or only codes that make no
\* character, or a whole lap of characters.  getchar calls it again.
GetsNothing ==
    /\ pc = "kbd"
    /\ rpos = wpos
    /\ pc' = "serial"
    /\ UNCHANGED <<deviceVars, serial_exists, shift, ringVars, out, screen, line>>

\* The command prints what it likes and returns 0: the monitor never ends.
runcmd ==
    /\ pc = "run"
    /\ out' \in Reply
    /\ pc' = "prompt"
    /\ UNCHANGED <<deviceVars, serial_exists, shift, ringVars, screen, line>>

Next ==
    \/ \E k \in Modifier : Hold(k) \/ LetGo(k)
    \/ \E k \in Tapped : Tap(k)
    \/ \E b \in SerialByte : Receive(b)
    \/ cga_init \/ serial_init \/ putch
    \/ serial_intr \/ SerialDone \/ kbd_intr
    \/ readline \/ getchar \/ GetsNothing \/ runcmd

Spec == Init /\ [][Next]_vars

-----------------------------------------------------------------------------
\* The ring between the two positions, oldest first.
Waiting == [k \in 1 .. (wpos - rpos) % CONSBUFSIZE |->
               buf[(rpos + k - 1) % CONSBUFSIZE]]

(***************************************************************************)
(* What waits in the ring of cons_intr and cons_getc is the latest part of *)
(* what came in and was not read, in the order it came, across every wrap  *)
(* of either position; it is all of it, unless a full lap of CONSBUFSIZE   *)
(* characters or more is lost.                                             *)
(***************************************************************************)
InputIsFifo ==
    LET lost == Len(unread) - Len(Waiting)
    IN  /\ lost = 0 \/ lost >= CONSBUFSIZE
        /\ \A k \in DOMAIN Waiting : Waiting[k] = unread[lost + k]

(***************************************************************************)
(* cons_getc returns the next character, or 0 if none waits: what it is    *)
(* about to take is the oldest one, and it finds the ring empty only when  *)
(* there is none (the comment of cons_getc).                               *)
(***************************************************************************)
ReturnsNextChar ==
    pc = "kbd" /\ unread # <<>> => rpos # wpos /\ buf[rpos] = Head(unread)

(***************************************************************************)
(* When every key is up and every code is decoded, kbd_proc_data remembers *)
(* no modifier and no escape, however the codes were split over polls.     *)
(***************************************************************************)
NoStuckModifier ==
    kbd = <<>> /\ held = {} /\ pc # "reset"
        => shift \cap {"SHIFT", "CTL", "ALT", "E0ESC"} = {}

(***************************************************************************)
(* readline echoes what it keeps: the cells before the cursor show the end *)
(* of the line in its buffer, through erasing, wrapping and scrolling, and *)
(* the cursor never leaves the screen.                                     *)
(***************************************************************************)
EchoShowsLine ==
    /\ screen.crt_pos \in 0 .. CRT_SIZE - 1
    /\ pc \in {"serial", "kbd"} =>
         \A k \in 0 .. Len(line) - 1 :
            screen.crt_pos - 1 - k >= 0 =>
                screen.crt_buf[screen.crt_pos - 1 - k] = line[Len(line) - k]
=============================================================================
