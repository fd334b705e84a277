------------------------------- MODULE Strings -------------------------------
(***************************************************************************)
(* lib/string.c on a memory: a function from addresses to bytes.  A string *)
(* is an address; it ends at the first 0.  Functions that write return the *)
(* new memory.                                                             *)
(***************************************************************************)
EXTENDS Integers, FiniteSets, SequencesExt, FiniteSetsExt

RECURSIVE strnlen(_, _, _), strcpy(_, _, _), strncpy(_, _, _, _),
          strncmp(_, _, _, _), strfind(_, _, _)

strnlen(m, s, size) ==
    IF size = 0 \/ m[s] = 0 THEN 0 ELSE 1 + strnlen(m, s + 1, size - 1)

\* A memory has no string longer than itself.
strlen(m, s) == strnlen(m, s, Cardinality(DOMAIN m))

strcpy(m, dst, src) ==
    LET w == [m EXCEPT ![dst] = m[src]]
    IN  IF m[src] = 0 THEN w ELSE strcpy(w, dst + 1, src + 1)

strcat(m, dst, src) == strcpy(m, dst + strlen(m, dst), src)

\* The source pointer stays on the 0 that ends the string.
strncpy(m, dst, src, size) ==
    IF size = 0 THEN m
    ELSE strncpy([m EXCEPT ![dst] = m[src]], dst + 1,
                 IF m[src] = 0 THEN src ELSE src + 1, size - 1)

\* Mutant: the room for the terminating 0 is forgotten.
MutNoRoom(m, dst, src, size) ==
    LET n == strnlen(m, src, size)
    IN  [mem |-> [strncpy(m, dst, src, n) EXCEPT ![dst + n] = 0], ret |-> n]

\* Copies while there is room for one more character and the 0 behind it, and
\* returns how many characters it copied.
strlcpy(m, dst, src, size) ==
    IF size = 0 THEN [mem |-> m, ret |-> 0]
    ELSE LET n == strnlen(m, src, size - 1)
         IN  [mem |-> [strncpy(m, dst, src, n) EXCEPT ![dst + n] = 0], ret |-> n]

strncmp(m, p, q, n) ==
    IF n > 0 /\ m[p] # 0 /\ m[p] = m[q] THEN strncmp(m, p + 1, q + 1, n - 1)
    ELSE IF n = 0 THEN 0 ELSE m[p] - m[q]

strcmp(m, p, q) == strncmp(m, p, q, Cardinality(DOMAIN m))

strfind(m, s, c) ==
    IF m[s] = 0 \/ m[s] = c THEN s ELSE strfind(m, s + 1, c)

\* 0 is the null pointer; no string of the model starts there.
strchr(m, s, c) ==
    LET a == strfind(m, s, c) IN IF m[a] = 0 THEN 0 ELSE a

-----------------------------------------------------------------------------
(***************************************************************************)
(* memmove copies in units of a word when everything is aligned, and from  *)
(* the end when the destination overlaps the source from behind.           *)
(***************************************************************************)
CopyUnit(m, dst, src, off, u) ==
    [a \in DOMAIN m |->
        IF a \in dst + off .. dst + off + u - 1 THEN m[a - dst + src] ELSE m[a]]

\* Mutant: always from the front.
MutForward(dst, src, n) == FALSE

Backward(dst, src, n) == src < dst /\ src + n > dst

memmove(m, dst, src, n) ==
    LET u == IF dst % 4 = 0 /\ src % 4 = 0 /\ n % 4 = 0 THEN 4 ELSE 1
        off(k) == IF Backward(dst, src, n) THEN n - k * u ELSE (k - 1) * u
    IN  FoldLeft(LAMBDA w, k : CopyUnit(w, dst, src, off(k), u),
                 m, [k \in 1 .. n \div u |-> k])

Differ(m, p, q, n) == {k \in 0 .. n - 1 : m[p + k] # m[q + k]}

memcmp(m, p, q, n) ==
    IF Differ(m, p, q, n) = {} THEN 0
    ELSE LET k == Min(Differ(m, p, q, n)) IN m[p + k] - m[q + k]

memfind(m, s, c, n) ==
    Min({a \in s .. s + n - 1 : m[a] = c % 256} \cup {s + n})

-----------------------------------------------------------------------------
(***************************************************************************)
(* What these functions are for, without loops.                            *)
(***************************************************************************)
Text(m, s) ==
    LET n == CHOOSE n \in 0 .. Cardinality(DOMAIN m) :
                 m[s + n] = 0 /\ \A k \in 0 .. n - 1 : m[s + k] # 0
    IN  [k \in 1 .. n |-> m[s + k - 1]]

Outside(w, m, from, n) ==
    \A a \in DOMAIN m : a \notin from .. from + n - 1 => w[a] = m[a]

Cut(t, n) == SubSeq(t, 1, Min({n, Len(t)}))

\* The sign of the first difference of two texts, the shorter one ending in 0.
Order(t, u) ==
    LET at(x, k) == IF k \in DOMAIN x THEN x[k] ELSE 0
        D == {k \in 1 .. Len(t) + Len(u) : at(t, k) # at(u, k)}
    IN  IF D = {} THEN 0 ELSE at(t, Min(D)) - at(u, Min(D))
=============================================================================
