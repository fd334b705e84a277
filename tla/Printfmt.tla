------------------------------ MODULE Printfmt -------------------------------
(***************************************************************************)
(* Formatted output, lib/printfmt.c and lib/printf.c, and strtol of        *)
(* lib/string.c, which reads numbers back.  A character is a string of     *)
(* length one, and what is printed is a sequence of characters; an error   *)
(* message counts as one character.                                        *)
(***************************************************************************)
EXTENDS Integers, Sequences, SequencesExt, FiniteSetsExt

CONSTANTS
    UINT,       \* the number of values of an unsigned int
    ULLONG,     \* and of an unsigned long long
    NULL

Digit == <<"0", "1", "2", "3", "4", "5", "6", "7", "8", "9",
           "a", "b", "c", "d", "e", "f">>

DigitOf(c) == IF c \in {Digit[k] : k \in 1 .. 16}
              THEN (CHOOSE k \in 1 .. 16 : Digit[k] = c) - 1
              ELSE 99

\* Error 7, E_NO_SYS, has no text.
error_string ==
    <<"unspecified error", "bad environment", "invalid parameter",
      "out of memory", "out of environments", "segmentation fault", NULL,
      "env is not recving", "unexpected end of file">>

RECURSIVE printnum(_, _, _, _), Flags(_, _), vprintfmt(_, _, _), Digits(_, _, _, _)

Pad(c, n) == [k \in 1 .. Max({n, 0}) |-> c]

printnum(num, base, width, padc) ==
    (IF num >= base THEN printnum(num \div base, base, width - 1, padc)
     ELSE Pad(padc, width - 1))
    \o <<Digit[(num % base) + 1]>>

-----------------------------------------------------------------------------
(***************************************************************************)
(* The flags of an escape.  st is the record of the local variables of     *)
(* vprintfmt; fmt points at the next character, numbered from 1.           *)
(***************************************************************************)
At(s, k) == IF k \in DOMAIN s THEN s[k] ELSE ""

\* Mutant: the precision is always the width.
MutAllWidth(st, p) == [st EXCEPT !.width = p]

process_precision(st, p) ==
    IF st.width < 0 THEN [st EXCEPT !.width = p] ELSE [st EXCEPT !.precision = p]

\* The decimal number at position k, and the position behind it.
Number(fmt, k) ==
    LET last == Max({j \in k .. Len(fmt) :
                        \A i \in k .. j : DigitOf(fmt[i]) \in 0 .. 9})
    IN  [val |-> FoldLeft(LAMBDA v, c : v * 10 + DigitOf(c), 0,
                          SubSeq(fmt, k, last)),
         end |-> last + 1]

Flags(fmt, st) ==
    LET ch == At(fmt, st.fmt)
        nx == [st EXCEPT !.fmt = @ + 1]
    IN  CASE ch \in {"-", "0"} -> Flags(fmt, [nx EXCEPT !.padc = ch])
          [] DigitOf(ch) \in 1 .. 9 ->
               LET n == Number(fmt, st.fmt)
               IN  Flags(fmt, process_precision([st EXCEPT !.fmt = n.end], n.val))
          [] ch = "*" ->
               Flags(fmt, process_precision([nx EXCEPT !.ap = Tail(@)], Head(st.ap)))
          [] ch = "." -> Flags(fmt, [nx EXCEPT !.width = Max({@, 0})])
          [] ch = "#" -> Flags(fmt, [nx EXCEPT !.altflag = TRUE])
          [] ch = "l" -> Flags(fmt, [nx EXCEPT !.lflag = @ + 1])
          [] OTHER -> [nx EXCEPT !.ch = ch]

-----------------------------------------------------------------------------
(***************************************************************************)
(* The conversions                                                         *)
(***************************************************************************)
\* A long is as wide as an int.
Modulus(lflag) == IF lflag >= 2 THEN ULLONG ELSE UINT

getuint(v, lflag) == v % Modulus(lflag)

getint(v, lflag) ==
    LET u == v % Modulus(lflag)
    IN  IF u < Modulus(lflag) \div 2 THEN u ELSE u - Modulus(lflag)

PrintString(st, arg) ==
    LET p     == IF arg = NULL THEN <<"(", "n", "u", "l", "l", ")">> ELSE arg
        shown == IF st.precision < 0 THEN p
                 ELSE SubSeq(p, 1, Min({st.precision, Len(p)}))
        pad   == st.width - Len(shown)
        text  == [k \in DOMAIN shown |->
                    IF st.altflag /\ shown[k] = "\n" THEN "?" ELSE shown[k]]
    IN  IF st.padc # "-" THEN Pad(st.padc, pad) \o text
        ELSE text \o Pad(" ", pad)

PrintError(err) ==
    LET e == IF err < 0 THEN -err ELSE err
    IN  IF e \in DOMAIN error_string /\ error_string[e] # NULL
        THEN <<error_string[e]>>
        ELSE <<"error ">> \o printnum(e, 10, -1, " ")

\* num is unsigned: the smallest number has its negative, too.
PrintNumber(st, v) ==
    LET num(n, base) == printnum(n, base, st.width, st.padc)
        i            == getint(v, st.lflag)
    IN  CASE st.ch = "d" ->
               IF i < 0 THEN <<"-">> \o num((-i) % ULLONG, 10) ELSE num(i, 10)
          [] st.ch = "u" -> num(getuint(v, st.lflag), 10)
          [] st.ch = "o" -> num(getuint(v, st.lflag), 8)
          [] st.ch = "x" -> num(getuint(v, st.lflag), 16)
          [] st.ch = "p" -> <<"0", "x">> \o num(v % UINT, 16)

Convert(st) ==
    CASE st.ch = "c" -> <<Head(st.ap)>>
      [] st.ch = "e" -> PrintError(Head(st.ap))
      [] st.ch = "s" -> PrintString(st, Head(st.ap))
      [] OTHER       -> PrintNumber(st, Head(st.ap))

\* An escape that nobody knows is printed as it stands: back to the last "%".
Back(fmt, k) == Max({j \in 1 .. k - 1 : At(fmt, j) = "%"}) + 1

vprintfmt(fmt, k, ap) ==
    IF k > Len(fmt) THEN <<>>
    ELSE IF fmt[k] # "%" THEN <<fmt[k]>> \o vprintfmt(fmt, k + 1, ap)
    ELSE LET st == Flags(fmt, [fmt |-> k + 1, padc |-> " ", width |-> -1,
                               precision |-> -1, lflag |-> 0,
                               altflag |-> FALSE, ap |-> ap, ch |-> ""])
         IN  CASE st.ch \in {"c", "e", "s", "d", "u", "o", "x", "p"} ->
                    Convert(st) \o vprintfmt(fmt, st.fmt, Tail(st.ap))
               [] st.ch = "%" -> <<"%">> \o vprintfmt(fmt, st.fmt, st.ap)
               [] OTHER ->
                    <<"%">> \o vprintfmt(fmt, Back(fmt, st.fmt - 1), st.ap)

(***************************************************************************)
(* The two places where the characters go: vsnprintf's buffer of n         *)
(* characters, and the user's cprintf, which sends a buffer to the kernel  *)
(* when it is full.                                                        *)
(***************************************************************************)
sprintputch(b, c, n) ==
    [buf |-> IF Len(b.buf) < n - 1 THEN Append(b.buf, c) ELSE b.buf,
     cnt |-> b.cnt + 1]

\* The 0 behind the text is the empty character; -3 is -E_INVAL.
vsnprintf(n, text) ==
    LET b == FoldLeft(LAMBDA s, c : sprintputch(s, c, n),
                      [buf |-> <<>>, cnt |-> 0], text)
    IN  IF n < 1 THEN [buf |-> <<>>, cnt |-> -3]
        ELSE [b EXCEPT !.buf = Append(@, "")]

putch(b, c, size) ==
    LET buf == Append(b.buf, c)
    IN  IF Len(buf) = size - 1
        THEN [buf |-> <<>>, sent |-> b.sent \o buf, cnt |-> b.cnt + 1]
        ELSE [buf |-> buf, sent |-> b.sent, cnt |-> b.cnt + 1]

vcprintf(size, text) ==
    LET b == FoldLeft(LAMBDA s, c : putch(s, c, size),
                      [buf |-> <<>>, sent |-> <<>>, cnt |-> 0], text)
    IN  [sent |-> b.sent \o b.buf, cnt |-> b.cnt]

-----------------------------------------------------------------------------
(***************************************************************************)
(* strtol; positions count from 1.                                         *)
(***************************************************************************)
\* The digits of the base from position k on.
Digits(s, k, base, val) ==
    IF DigitOf(At(s, k)) < base THEN Digits(s, k + 1, base, val * base + DigitOf(s[k]))
    ELSE [val |-> val, end |-> k]

strtol(s, base) ==
    LET k0  == Min({k \in 1 .. Len(s) + 1 : At(s, k) \notin {" ", "\t"}})
        neg == At(s, k0) = "-"
        k1  == IF At(s, k0) \in {"+", "-"} THEN k0 + 1 ELSE k0
        hex == base \in {0, 16} /\ At(s, k1) = "0" /\ At(s, k1 + 1) = "x"
        oct == base = 0 /\ ~hex /\ At(s, k1) = "0"
        k2  == IF hex THEN k1 + 2 ELSE IF oct THEN k1 + 1 ELSE k1
        b   == IF hex THEN 16 ELSE IF oct THEN 8 ELSE IF base = 0 THEN 10 ELSE base
        d   == Digits(s, k2, b, 0)
    IN  [val |-> IF neg THEN -d.val ELSE d.val, end |-> d.end]
=============================================================================
