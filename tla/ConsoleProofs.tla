---------------------------- MODULE ConsoleProofs ----------------------------
(***************************************************************************)
(* Proofs about module Console, for a ring, a screen and a line buffer of  *)
(* any size, any keys and any input.                                       *)
(***************************************************************************)
EXTENDS Console, SequenceTheorems, TLAPS

-----------------------------------------------------------------------------
(***************************************************************************)
(* The keyboard decoder                                                    *)
(***************************************************************************)

\* An array indexed from 1 is a sequence.
LEMMA ArrayIsSeq == ASSUME NEW n \in Nat, NEW f \in [1 .. n -> Int] PROVE f \in Seq(Int)
  BY SeqDef

\* A table of characters has a character for every code.
LEMMA TableInt ==
  ASSUME NEW row \in Seq(Int), NEW more, \A d \in DOMAIN more : more[d] \in Int,
         NEW d \in Code
  PROVE  Table(row, more)[d] \in Int
  <1>1. Len(row) \in Nat /\ d \in Int /\ d >= 0 BY DEF Code
  <1>2. d < Len(row) => row[d + 1] \in Int BY <1>1
  <1> QED BY <1>2 DEF Table

LEMMA TablesInt ==
  ASSUME NEW d \in Code
  PROVE  normalmap[d] \in Int /\ shiftmap[d] \in Int /\ ctlmap[d] \in Int
  <1>1. \A x \in DOMAIN extended : extended[x] \in Int
    BY DEF extended, KEY_DEL
  <1>2. Zeros(13) \in Seq(Int) /\ Zeros(16) \in Seq(Int)
    <2>1. Zeros(13) \in [1 .. 13 -> Int] /\ Zeros(16) \in [1 .. 16 -> Int] BY DEF Zeros
    <2>2. 13 \in Nat /\ 16 \in Nat OBVIOUS
    <2> QED BY <2>1, <2>2, ArrayIsSeq
  <1>3. keypad \in Seq(Int) BY DEF keypad
  <1>4. normalmap[d] \in Int
    <2> DEFINE row ==
      <<0, 27, 49, 50, 51, 52, 53, 54, 55, 56, 57, 48, 45, 61, 8, 9,
      113, 119, 101, 114, 116, 121, 117, 105, 111, 112, 91, 93, 10, 0, 97, 115,
      100, 102, 103, 104, 106, 107, 108, 59, 39, 96, 0, 92, 122, 120, 99, 118,
      98, 110, 109, 44, 46, 47, 0, 42, 0, 32>>
    <2>1. row \in Seq(Int) OBVIOUS
    <2>2. normalmap = Table(row \o Zeros(13) \o keypad, extended) BY DEF normalmap
    <2> HIDE DEF row
    <2>3. row \o Zeros(13) \o keypad \in Seq(Int) BY <1>2, <1>3, <2>1
    <2> QED BY <1>1, <2>2, <2>3, TableInt
  <1>5. shiftmap[d] \in Int
    <2> DEFINE row ==
      <<0, 27, 33, 64, 35, 36, 37, 94, 38, 42, 40, 41, 95, 43, 8, 9,
      81, 87, 69, 82, 84, 89, 85, 73, 79, 80, 123, 125, 10, 0, 65, 83,
      68, 70, 71, 72, 74, 75, 76, 58, 34, 126, 0, 124, 90, 88, 67, 86,
      66, 78, 77, 60, 62, 63, 0, 42, 0, 32>>
    <2>1. row \in Seq(Int) OBVIOUS
    <2>2. shiftmap = Table(row \o Zeros(13) \o keypad, extended) BY DEF shiftmap
    <2> HIDE DEF row
    <2>3. row \o Zeros(13) \o keypad \in Seq(Int) BY <1>2, <1>3, <2>1
    <2> QED BY <1>1, <2>2, <2>3, TableInt
  <1>6. ctlmap[d] \in Int
    <2> DEFINE codes ==
                 <<81, 87, 69, 82, 84, 89, 85, 73, 79, 80, 0, 0, 13, 0, 65, 83,
                   68, 70, 71, 72, 74, 75, 76, 0, 0, 0, 0, 92, 90, 88, 67, 86,
                   66, 78, 77, 0, 0, 47, 0, 0>>
               row == [k \in 1 .. 40 |-> LET c == codes[k]
                                         IN  IF c \in {0, 13} THEN c ELSE Ctl(c)]
               more == [x \in ({151} \cup DOMAIN extended) \ {156, 199} |->
                          CASE x = 151 -> 224 [] x = 181 -> Ctl(47)
                            [] OTHER -> extended[x]]
    <2>1. codes \in Seq(Int) /\ Len(codes) = 40 OBVIOUS
    <2>2. \A c \in Int : Ctl(c) \in Int BY DEF Ctl
    <2>3. ctlmap = Table(Zeros(16) \o row, more) BY DEF ctlmap
    <2>4. row \in Seq(Int)
      <3> HIDE DEF codes
      <3>1. \A k \in 1 .. 40 : codes[k] \in Int BY <2>1, ElementOfSeq
      <3>2. row \in [1 .. 40 -> Int] BY <2>2, <3>1
      <3> HIDE DEF row
      <3>3. 40 \in Nat OBVIOUS
      <3> QED BY <3>2, <3>3, ArrayIsSeq
    <2>5. \A x \in DOMAIN more : more[x] \in Int BY <1>1, <2>2
    <2> HIDE DEF row, more
    <2>6. Zeros(16) \o row \in Seq(Int) BY <1>2, <2>4
    <2> QED BY <2>3, <2>5, <2>6, TableInt
  <1> QED BY <1>4, <1>5, <1>6

\* The decoder's state after one more code.
After(s, b) == kbd_proc_data(s, b).shift

LEMMA DecoderTypes ==
  ASSUME NEW s \in SUBSET Flag, NEW b \in Code
  PROVE  After(s, b) \in SUBSET Flag /\ kbd_proc_data(s, b).c \in Int
  <1>1. \A d \in Code : shiftcode[d] \in SUBSET Flag /\ togglecode[d] \in SUBSET Flag
    BY DEF shiftcode, togglecode, Flag
  <1>2. "E0ESC" \in Flag BY DEF Flag
  <1>3. CASE b = E0
    BY <1>2, <1>3 DEF After, kbd_proc_data
  <1>4. CASE b # E0 /\ b >= 128
    BY <1>4 DEF After, kbd_proc_data, KeyReleased
  <1>5. CASE b # E0 /\ ~(b >= 128)
    <2>1. PICK d : d = IF "E0ESC" \in s THEN b + 128 ELSE b OBVIOUS
    <2>2. d \in Code BY <1>5, <2>1 DEF Code
    <2>3. PICK t : t = Xor((s \ {"E0ESC"}) \cup shiftcode[d], togglecode[d]) OBVIOUS
    <2>4. t \in SUBSET Flag BY <1>1, <2>2, <2>3 DEF Xor
    <2>5. charcode(t)[d] \in Int BY <2>2, TablesInt DEF charcode
    <2>6. \A c \in Int : SwapCase(c) \in Int BY DEF SwapCase
    <2>7. kbd_proc_data(s, b)
            = [shift |-> t, c |-> IF "CAPSLOCK" \in t THEN SwapCase(charcode(t)[d])
                                  ELSE charcode(t)[d]]
      BY <1>5, <2>1, <2>3 DEF kbd_proc_data, KeyPressed
    <2> QED BY <2>4, <2>5, <2>6, <2>7 DEF After
  <1> QED BY <1>3, <1>4, <1>5 DEF Code

Mods == {"SHIFT", "CTL", "ALT"}

\* A key's place in the tables.
KeyCode(k) == k[1] + (IF k[2] THEN 128 ELSE 0)

\* The decoder's state after the codes of a key going down or up.
AfterKey(s, k, up) ==
    After(IF k[2] THEN After(s, E0) ELSE s, k[1] + (IF up THEN 128 ELSE 0))

\* A key going down sets its flag and a key going up clears it, whether it has
\* a prefix or not, and no escape is left pending.
LEMMA KeyDecodes ==
  ASSUME NEW k \in Key, NEW s \in SUBSET Flag, "E0ESC" \notin s, NEW up \in BOOLEAN
  PROVE  /\ AfterKey(s, k, up) \in SUBSET Flag
         /\ "E0ESC" \notin AfterKey(s, k, up)
         /\ AfterKey(s, k, up) \cap Mods
              = IF up THEN (s \cap Mods) \ shiftcode[KeyCode(k)]
                ELSE (s \cap Mods) \cup shiftcode[KeyCode(k)]
  <1>0. PICK m, ext : m = k[1] /\ ext = k[2] OBVIOUS
  <1>1. m \in 1 .. 127 /\ ext \in BOOLEAN /\ m + 128 # E0 BY <1>0 DEF Key
  <1>2. PICK p : p = IF ext THEN After(s, E0) ELSE s OBVIOUS
  <1>3. p \in SUBSET Flag /\ p \ {"E0ESC"} = s /\ ("E0ESC" \in p <=> ext)
    BY <1>1, <1>2 DEF After, kbd_proc_data, Flag
  <1>4. PICK d : d = KeyCode(k) OBVIOUS
  <1>5. d \in Code /\ d = m + (IF ext THEN 128 ELSE 0)
    BY <1>0, <1>1, <1>4 DEF KeyCode, Code
  <1>6. shiftcode[d] \subseteq Mods
    BY <1>5 DEF shiftcode, Mods
  <1>7. togglecode[d] \cap Mods = {} /\ "E0ESC" \notin togglecode[d]
    BY <1>5 DEF togglecode, Mods
  <1>8. CASE up = TRUE
    <2>1. PICK b : b = m + 128 OBVIOUS
    <2>2. b \in Code /\ b # E0 /\ b >= 128 /\ b % 128 = m BY <1>1, <2>1 DEF Code
    <2>3. AfterKey(s, k, up) = After(p, b) BY <1>0, <1>2, <1>8, <2>1 DEF AfterKey
    <2>4. After(p, b) = KeyReleased(p, b) BY <2>2 DEF After, kbd_proc_data
    <2>5. (IF "E0ESC" \in p THEN b ELSE Low7(b)) = d
      BY <1>1, <1>3, <1>5, <2>1, <2>2 DEF Low7
    <2>6. After(p, b) = p \ (shiftcode[d] \cup {"E0ESC"}) BY <2>4, <2>5 DEF KeyReleased
    <2>7. After(p, b) \in SUBSET Flag /\ "E0ESC" \notin After(p, b)
          /\ After(p, b) = s \ shiftcode[d]
      BY <1>3, <2>6
    <2>8. After(p, b) \cap Mods = (s \cap Mods) \ shiftcode[d] BY <2>7
    <2> QED BY <1>4, <1>8, <2>3, <2>7, <2>8
  <1>9. CASE up = FALSE
    <2>1. m \in Code /\ m # E0 /\ ~(m >= 128) /\ m + 0 = m BY <1>1 DEF Code, E0
    <2>2. AfterKey(s, k, up) = After(p, m) BY <1>0, <1>2, <1>9, <2>1 DEF AfterKey
    <2>3. (IF "E0ESC" \in p THEN m + 128 ELSE m) = d BY <1>1, <1>3, <1>5
    <2>4. After(p, m) = Xor((p \ {"E0ESC"}) \cup shiftcode[d], togglecode[d])
      BY <2>1, <2>3 DEF After, kbd_proc_data, KeyPressed
    <2>5. After(p, m) \in SUBSET Flag BY <1>3, <2>1, DecoderTypes
    <2>6. "E0ESC" \notin shiftcode[d] BY <1>6 DEF Mods
    <2>7. After(p, m) = Xor(s \cup shiftcode[d], togglecode[d]) BY <1>3, <2>4
    <2>8. "E0ESC" \notin After(p, m) BY <1>7, <2>6, <2>7 DEF Xor
    <2>9. After(p, m) \cap Mods = (s \cap Mods) \cup shiftcode[d]
      BY <1>6, <1>7, <2>7 DEF Xor
    <2> QED BY <1>4, <1>9, <2>2, <2>5, <2>8, <2>9
  <1> QED BY <1>8, <1>9

\* The codes take the decoder from s to t.
Decodes(s, bytes, t) ==
    \E w \in [1 .. Len(bytes) + 1 -> SUBSET Flag] :
        /\ w[1] = s
        /\ \A i \in 1 .. Len(bytes) : w[i + 1] = After(w[i], bytes[i])
        /\ w[Len(bytes) + 1] = t

LEMMA DecodeMore ==
  ASSUME NEW bytes \in Seq(Code), NEW b \in Code, NEW s, NEW t, Decodes(s, bytes, t)
  PROVE  Decodes(s, Append(bytes, b), After(t, b))
  <1>0. PICK n \in Nat : n = Len(bytes) OBVIOUS
  <1>1. PICK w \in [1 .. n + 1 -> SUBSET Flag] :
          /\ w[1] = s
          /\ \A i \in 1 .. n : w[i + 1] = After(w[i], bytes[i])
          /\ w[n + 1] = t
    BY <1>0 DEF Decodes
  <1>2. PICK more : more = Append(bytes, b) OBVIOUS
  <1>3. Len(more) = n + 1 /\ more[n + 1] = b /\ \A i \in 1 .. n : more[i] = bytes[i]
    BY <1>0, <1>2
  <1>4. PICK v : v = [i \in 1 .. n + 2 |-> IF i = n + 2 THEN After(t, b) ELSE w[i]]
    OBVIOUS
  <1>5. After(t, b) \in SUBSET Flag
    <2>1. t \in SUBSET Flag BY <1>1
    <2> QED BY <2>1, DecoderTypes
  <1>6. v \in [1 .. n + 2 -> SUBSET Flag] BY <1>1, <1>4, <1>5
  <1>7. v[1] = s /\ v[n + 2] = After(t, b) BY <1>1, <1>4
  <1>8. ASSUME NEW i \in 1 .. n + 1 PROVE v[i + 1] = After(v[i], more[i])
    <2>1. CASE i = n + 1
      <3>1. v[i] = t /\ v[i + 1] = After(t, b) BY <1>1, <1>4, <2>1
      <3> QED BY <1>3, <2>1, <3>1
    <2>2. CASE i # n + 1
      <3>1. i \in 1 .. n /\ i + 1 \in 1 .. n + 2 /\ i + 1 # n + 2 /\ i # n + 2 BY <2>2
      <3>2. v[i] = w[i] /\ v[i + 1] = w[i + 1] BY <1>4, <3>1
      <3> QED BY <1>1, <1>3, <3>1, <3>2
    <2> QED BY <2>1, <2>2
  <1>9. Len(more) + 1 = n + 2 BY <1>3
  <1> QED BY <1>2, <1>3, <1>6, <1>7, <1>8, <1>9 DEF Decodes

LEMMA DecodeFirst ==
  ASSUME NEW bytes \in Seq(Code), bytes # << >>, NEW s, NEW t, Decodes(s, bytes, t)
  PROVE  Decodes(After(s, Head(bytes)), Tail(bytes), t)
  <1>0. PICK n \in Nat : n = Len(bytes) /\ n > 0 OBVIOUS
  <1>1. PICK w \in [1 .. n + 1 -> SUBSET Flag] :
          /\ w[1] = s
          /\ \A i \in 1 .. n : w[i + 1] = After(w[i], bytes[i])
          /\ w[n + 1] = t
    BY <1>0 DEF Decodes
  <1>2. PICK rest : rest = Tail(bytes) OBVIOUS
  <1>3. /\ Len(rest) = n - 1 /\ Head(bytes) = bytes[1]
        /\ \A i \in 1 .. n - 1 : rest[i] = bytes[i + 1]
    BY <1>0, <1>2
  <1>4. PICK v : v = [i \in 1 .. n |-> w[i + 1]] OBVIOUS
  <1>5. v \in [1 .. n -> SUBSET Flag] BY <1>0, <1>1, <1>4
  <1>6. v[1] = After(s, Head(bytes)) /\ v[n] = t BY <1>0, <1>1, <1>3, <1>4
  <1>7. ASSUME NEW i \in 1 .. n - 1 PROVE v[i + 1] = After(v[i], rest[i])
    <2>1. i \in 1 .. n /\ i + 1 \in 1 .. n BY <1>0
    <2> QED BY <1>1, <1>3, <1>4, <2>1
  <1>8. Len(rest) + 1 = n BY <1>0, <1>3
  <1> QED BY <1>2, <1>3, <1>5, <1>6, <1>7, <1>8 DEF Decodes

LEMMA ScanCodes == E0 \in Code /\ \A m \in 1 .. 127 : m \in Code /\ m + 128 \in Code
  BY DEF E0, Code

LEMMA BytesCodes ==
  ASSUME NEW k \in Key, NEW up \in BOOLEAN
  PROVE  Bytes(k, up) \in Seq(Code)
  <1>1. PICK c : c = k[1] + (IF up THEN 128 ELSE 0) OBVIOUS
  <1>2. c \in Code /\ E0 \in Code
    <2>1. PICK m \in 1 .. 127 : m = k[1] BY DEF Key
    <2>2. c = m \/ c = m + 128
      <3>1. CASE up = TRUE BY <1>1, <2>1, <3>1
      <3>2. CASE up = FALSE BY <1>1, <2>1, <3>2
      <3> QED BY <3>1, <3>2
    <2> QED BY <2>1, <2>2, ScanCodes
  <1>3. Bytes(k, up) = (IF k[2] THEN <<E0>> ELSE << >>) \o <<c>> BY <1>1 DEF Bytes
  <1>4. <<c>> \in Seq(Code) /\ <<E0>> \in Seq(Code) /\ << >> \in Seq(Code) BY <1>2
  <1>5. (IF k[2] THEN <<E0>> ELSE << >>) \in Seq(Code) BY <1>4
  <1> QED BY <1>3, <1>4, <1>5, ConcatProperties

\* The codes of one more key.
LEMMA DecodeKey ==
  ASSUME NEW bytes \in Seq(Code), NEW k \in Key, NEW up \in BOOLEAN, NEW s, NEW t,
         Decodes(s, bytes, t)
  PROVE  /\ bytes \o Bytes(k, up) \in Seq(Code)
         /\ Decodes(s, bytes \o Bytes(k, up), AfterKey(t, k, up))
  <1>1. PICK c : c = k[1] + (IF up THEN 128 ELSE 0) OBVIOUS
  <1>2. c \in Code /\ E0 \in Code
    <2>1. PICK m \in 1 .. 127 : m = k[1] BY DEF Key
    <2>2. c = m \/ c = m + 128
      <3>1. CASE up = TRUE BY <1>1, <2>1, <3>1
      <3>2. CASE up = FALSE BY <1>1, <2>1, <3>2
      <3> QED BY <3>1, <3>2
    <2> QED BY <2>1, <2>2, ScanCodes
  <1>3. CASE k[2] = TRUE
    <2>1. Bytes(k, up) = <<E0>> \o <<c>> BY <1>1, <1>3 DEF Bytes
    <2>2. <<E0>> \in Seq(Code) /\ <<c>> \in Seq(Code) BY <1>2
    <2>3. bytes \o (<<E0>> \o <<c>>) = Append(Append(bytes, E0), c)
      <3>1. bytes \o <<E0>> = Append(bytes, E0) /\ Append(bytes, E0) \in Seq(Code)
        BY <1>2
      <3>2. Append(bytes, E0) \o <<c>> = Append(Append(bytes, E0), c) BY <1>2, <3>1
      <3>3. bytes \o (<<E0>> \o <<c>>) = (bytes \o <<E0>>) \o <<c>>
        BY <2>2, ConcatAssociative
      <3> QED BY <3>1, <3>2, <3>3
    <2>4. Append(bytes, E0) \in Seq(Code) /\ Append(Append(bytes, E0), c) \in Seq(Code)
      BY <1>2
    <2>5. Decodes(s, Append(bytes, E0), After(t, E0)) BY <1>2, DecodeMore
    <2>6. Decodes(s, Append(Append(bytes, E0), c), After(After(t, E0), c))
      BY <1>2, <2>4, <2>5, DecodeMore
    <2>7. AfterKey(t, k, up) = After(After(t, E0), c) BY <1>1, <1>3 DEF AfterKey
    <2> QED BY <2>1, <2>3, <2>4, <2>6, <2>7
  <1>4. CASE k[2] = FALSE
    <2>0. <<c>> \in Seq(Code) BY <1>2
    <2>1. Bytes(k, up) = <<c>>
      <3>1. Bytes(k, up) = << >> \o <<c>> BY <1>1, <1>4 DEF Bytes
      <3> QED BY <2>0, <3>1, ConcatEmptySeq
    <2>2. bytes \o <<c>> = Append(bytes, c) /\ Append(bytes, c) \in Seq(Code) BY <1>2
    <2>3. Decodes(s, Append(bytes, c), After(t, c)) BY <1>2, DecodeMore
    <2>4. AfterKey(t, k, up) = After(t, c) BY <1>1, <1>4 DEF AfterKey
    <2> QED BY <2>1, <2>2, <2>3, <2>4
  <1> QED BY <1>3, <1>4 DEF Key

-----------------------------------------------------------------------------
(***************************************************************************)
(* The ring                                                                *)
(***************************************************************************)
Wrap(a) == IF a < CONSBUFSIZE THEN a ELSE a - CONSBUFSIZE

\* How far the writer is ahead of the reader.
Ahead == IF wpos >= rpos THEN wpos - rpos ELSE wpos - rpos + CONSBUFSIZE

\* The ring holds the end of unread from rpos on: all of it, or a lap less.
RingOK ==
    /\ buf \in [0 .. CONSBUFSIZE - 1 -> Int]
    /\ rpos \in 0 .. CONSBUFSIZE - 1 /\ wpos \in 0 .. CONSBUFSIZE - 1
    /\ unread \in Seq(Int)
    /\ Len(unread) = Ahead \/ Len(unread) >= CONSBUFSIZE + Ahead
    /\ \A k \in 1 .. Ahead : buf[Wrap(rpos + k - 1)] = unread[Len(unread) - Ahead + k]

\* Where a position reaches is found by one subtraction or none.
LEMMA ModLaps ==
  ASSUME NEW N \in Nat, N > 0, NEW a \in Int
  PROVE  /\ 0 <= a /\ a < N => a % N = a
         /\ N <= a /\ a < 2 * N => a % N = a - N
         /\ 0 - N <= a /\ a < 0 => a % N = a + N
         /\ a % N \in 0 .. N - 1
  <1>1. 0 <= a /\ a < N => a % N = a OBVIOUS
  <1>2. N <= a /\ a < 2 * N => a % N = a - N OBVIOUS
  <1>3. 0 - N <= a /\ a < 0 => a % N = a + N OBVIOUS
  <1>4. a % N \in 0 .. N - 1 OBVIOUS
  <1> QED BY <1>1, <1>2, <1>3, <1>4

LEMMA RingTypes ==
  ASSUME RingOK
  PROVE  Len(unread) \in Nat /\ Ahead \in Int
  <1>1. Len(unread) \in Nat BY DEF RingOK
  <1>2. wpos \in Int /\ rpos \in Int /\ CONSBUFSIZE \in Nat
    BY ConsoleAssumption DEF RingOK
  <1> QED BY <1>1, <1>2 DEF Ahead

\* cons_intr adds a character behind the others, or laps the ring.
LEMMA RingPut ==
  ASSUME RingOK, NEW c \in Int, cons_intr(c), UNCHANGED rpos
  PROVE  RingOK'
  <1>0. PICK N \in Nat : N = CONSBUFSIZE /\ N > 1 BY ConsoleAssumption
  <1>1. PICK n \in Nat, d \in Int : n = Len(unread) /\ d = Ahead BY RingTypes
  <1>2. /\ rpos \in 0 .. N - 1 /\ wpos \in 0 .. N - 1 /\ rpos' = rpos
        /\ d \in 0 .. N - 1 /\ wpos = Wrap(rpos + d)
        /\ n = d \/ n >= N + d
    BY <1>0, <1>1 DEF RingOK, Ahead, Wrap
  <1>3. CASE c = 0
    BY <1>3 DEF cons_intr, RingOK, Wrap, Ahead
  <1>4. CASE c # 0
    <2>1. /\ unread' = Append(unread, c)
          /\ buf' = [buf EXCEPT ![wpos] = c]
          /\ wpos' = IF wpos + 1 = N THEN 0 ELSE wpos + 1
      BY <1>0, <1>4 DEF cons_intr
    <2>2. /\ unread' \in Seq(Int) /\ Len(unread') = n + 1 /\ unread'[n + 1] = c
          /\ \A k \in 1 .. n : unread'[k] = unread[k]
      BY <1>1, <2>1 DEF RingOK
    <2>3. buf' \in [0 .. N - 1 -> Int] /\ wpos' \in 0 .. N - 1
      BY <1>0, <1>2, <2>1 DEF RingOK
    <2>4. CASE d + 1 = N
      <3>1. Ahead' = 0
        <4>1. wpos' = rpos' BY <1>0, <1>2, <2>1, <2>4 DEF Wrap
        <4> QED BY <1>2, <4>1 DEF Ahead
      <3>2. \A k \in 1 .. Ahead' : FALSE BY <3>1
      <3> QED BY <1>0, <1>2, <2>2, <2>3, <2>4, <3>1, <3>2 DEF RingOK
    <2>5. CASE d + 1 # N
      <3>1. Ahead' = d + 1
        BY <1>0, <1>1, <1>2, <2>1, <2>5 DEF Ahead, Wrap
      <3>2. ASSUME NEW k \in 1 .. d + 1
            PROVE  buf'[Wrap(rpos + k - 1)] = unread'[(n + 1) - (d + 1) + k]
        <4>0. PICK a : a = Wrap(rpos + k - 1) OBVIOUS
        <4>1. CASE k = d + 1
          <5>1. a = wpos /\ (n + 1) - (d + 1) + k = n + 1 BY <1>2, <4>0, <4>1
          <5>2. buf'[wpos] = c BY <1>0, <1>2, <2>1 DEF RingOK
          <5> QED BY <2>2, <4>0, <5>1, <5>2
        <4>2. CASE k # d + 1
          <5>1. k \in 1 .. d /\ (n + 1) - (d + 1) + k = n - d + k /\ n - d + k \in 1 .. n
            BY <1>2, <4>2
          <5>2. a # wpos /\ a \in 0 .. N - 1
            BY <1>0, <1>2, <4>0, <5>1 DEF Wrap
          <5>3. buf[a] = unread[n - d + k] BY <1>1, <4>0, <5>1 DEF RingOK
          <5>4. buf'[a] = buf[a] BY <1>0, <2>1, <5>2 DEF RingOK
          <5> QED BY <2>2, <4>0, <5>1, <5>3, <5>4
        <4> QED BY <4>1, <4>2
      <3>3. PICK m \in Int, e \in Int : m = n + 1 /\ e = d + 1 BY <1>2
      <3>4. Len(unread') = m /\ Ahead' = e /\ (m = e \/ m >= N + e)
        BY <1>2, <2>2, <3>1, <3>3
      <3>5. \A k \in 1 .. e : buf'[Wrap(rpos' + k - 1)] = unread'[m - e + k]
        BY <1>2, <3>2, <3>3
      <3> QED BY <1>0, <1>2, <2>2, <2>3, <3>4, <3>5 DEF RingOK, Wrap
    <2> QED BY <2>4, <2>5
  <1> QED BY <1>3, <1>4

\* cons_getc takes the oldest character of those that the ring holds.
LEMMA RingTake ==
  ASSUME RingOK, rpos # wpos,
         rpos' = IF rpos + 1 = CONSBUFSIZE THEN 0 ELSE rpos + 1,
         unread' = Tail(unread), UNCHANGED <<buf, wpos>>
  PROVE  RingOK' /\ buf[rpos] \in Int
  <1>0. PICK N \in Nat : N = CONSBUFSIZE /\ N > 1 BY ConsoleAssumption
  <1>1. PICK n \in Nat, d \in Int : n = Len(unread) /\ d = Ahead BY RingTypes
  <1>2. /\ rpos \in 0 .. N - 1 /\ wpos \in 0 .. N - 1
        /\ d \in 1 .. N - 1 /\ wpos = Wrap(rpos + d)
        /\ n = d \/ n >= N + d
    BY <1>0, <1>1 DEF RingOK, Ahead, Wrap
  <1>3. unread \in Seq(Int) /\ unread # << >> BY <1>1, <1>2 DEF RingOK
  <1>4. /\ unread' \in Seq(Int) /\ Len(unread') = n - 1
        /\ \A k \in 1 .. n - 1 : unread'[k] = unread[k + 1]
    BY <1>1, <1>3
  <1>5. rpos' \in 0 .. N - 1 /\ rpos' = Wrap(rpos + 1) BY <1>0, <1>2 DEF Wrap
  <1>6. Ahead' = d - 1 BY <1>0, <1>1, <1>2, <1>5 DEF Ahead, Wrap
  <1>7. PICK m \in Int, e \in Int : m = n - 1 /\ e = d - 1 BY <1>2
  <1>8. ASSUME NEW k \in 1 .. e PROVE buf'[Wrap(rpos' + k - 1)] = unread'[m - e + k]
    <2>1. PICK j \in 1 .. d : j = k + 1 BY <1>2, <1>7
    <2>2. Wrap(rpos' + k - 1) = Wrap(rpos + j - 1)
      BY <1>0, <1>2, <1>5, <1>7, <2>1 DEF Wrap
    <2>3. buf[Wrap(rpos + j - 1)] = unread[n - d + j] BY <1>1 DEF RingOK
    <2>4. PICK i \in 1 .. n - 1 : i = m - e + k /\ i + 1 = n - d + j
      BY <1>2, <1>7, <2>1
    <2>5. unread'[i] = unread[i + 1] BY <1>4
    <2> QED BY <2>2, <2>3, <2>4, <2>5
  <1>9. buf[rpos] \in Int BY <1>0, <1>2 DEF RingOK
  <1>10. Len(unread') = m /\ Ahead' = e /\ (m = e \/ m >= N + e)
    BY <1>2, <1>4, <1>6, <1>7
  <1>11. buf' \in [0 .. N - 1 -> Int] /\ wpos' \in 0 .. N - 1 BY <1>0, <1>2 DEF RingOK
  <1> QED BY <1>0, <1>4, <1>5, <1>8, <1>9, <1>10, <1>11 DEF RingOK, Wrap

\* The ring is the end of the queue.
LEMMA RingFifo ==
  ASSUME RingOK
  PROVE  InputIsFifo
  <1>0. PICK N \in Nat : N = CONSBUFSIZE /\ N > 1 BY ConsoleAssumption
  <1>1. PICK n \in Nat, d \in Int : n = Len(unread) /\ d = Ahead BY RingTypes
  <1>2. /\ rpos \in 0 .. N - 1 /\ wpos \in 0 .. N - 1
        /\ d \in 0 .. N - 1 /\ wpos = Wrap(rpos + d)
        /\ n = d \/ n >= N + d
    BY <1>0, <1>1 DEF RingOK, Ahead, Wrap
  <1>3. (wpos - rpos) % N = d
    <2>1. PICK a \in Int : a = wpos - rpos BY <1>2
    <2>2. (a = d \/ a = d - N) /\ N > 0 BY <1>0, <1>2, <2>1 DEF Wrap
    <2>3. a = d => a % N = d BY <1>2, <2>2, ModLaps
    <2>4. a = d - N => a % N = d
      <3>1. a = d - N => 0 - N <= a /\ a < 0 /\ a + N = d BY <1>2
      <3> QED BY <2>2, <3>1, ModLaps
    <2> QED BY <2>1, <2>2, <2>3, <2>4
  <1>4. ASSUME NEW k \in 1 .. d PROVE buf[(rpos + k - 1) % N] = unread[n - d + k]
    <2>1. PICK a \in Int : a = rpos + k - 1 BY <1>2
    <2>2. 0 <= a /\ a < 2 * N /\ N > 0 BY <1>0, <1>2, <2>1
    <2>3. a % N = Wrap(a) BY <1>0, <2>2, ModLaps DEF Wrap
    <2>4. buf[Wrap(rpos + k - 1)] = unread[n - d + k] BY <1>1 DEF RingOK
    <2> QED BY <2>1, <2>3, <2>4
  <1>5. PICK w : w = [k \in 1 .. d |-> buf[(rpos + k - 1) % N]] OBVIOUS
  <1>6. Waiting = w BY <1>0, <1>3, <1>5 DEF Waiting
  <1>7. DOMAIN w = 1 .. d /\ \A k \in 1 .. d : w[k] = unread[n - d + k]
    BY <1>4, <1>5
  <1>8. d \in Nat /\ Len(w) = d
    <2>1. d \in Nat BY <1>2
    <2> QED BY <1>7, <2>1
  <1>9. PICK lost \in Int : lost = n - d BY <1>2
  <1>10. lost = 0 \/ lost >= N BY <1>2, <1>9
  <1>11. Len(unread) - Len(Waiting) = lost BY <1>1, <1>6, <1>8, <1>9
  <1>12. \A k \in DOMAIN w : w[k] = unread[lost + k] BY <1>7, <1>9
  <1> QED BY <1>0, <1>6, <1>10, <1>11, <1>12 DEF InputIsFifo

-----------------------------------------------------------------------------
(***************************************************************************)
(* The screen                                                              *)
(***************************************************************************)
Screen == [crt_buf : [0 .. CRT_SIZE - 1 -> Int], crt_pos : 0 .. CRT_SIZE - 1]

\* The cells before the cursor show the end of the line.
Shown(s, l) ==
    \A k \in 0 .. Len(l) - 1 :
        s.crt_pos - 1 - k >= 0 => s.crt_buf[s.crt_pos - 1 - k] = l[Len(l) - k]

LEMMA ScreenSize ==
  CRT_COLS \in Nat /\ CRT_SIZE \in Nat /\ CRT_COLS > 0 /\ CRT_SIZE >= 2 * CRT_COLS
  <1>1. PICK r \in Nat, n \in Nat : r = CRT_ROWS /\ n = CRT_COLS /\ r > 1 /\ n > 0
    BY ConsoleAssumption
  <1>2. r * n \in Nat /\ r * n >= 2 * n BY <1>1
  <1> QED BY <1>1, <1>2 DEF CRT_SIZE

\* Scrolling brings the cursor back and keeps what is in front of it.
LEMMA ScrollScreen ==
  ASSUME NEW b \in [0 .. CRT_SIZE - 1 -> Int], NEW p \in Nat, p < CRT_SIZE + CRT_COLS
  PROVE  /\ Scroll([crt_buf |-> b, crt_pos |-> p]) \in Screen
         /\ \A l \in Seq(Int) :
              Shown([crt_buf |-> b, crt_pos |-> p], l) /\ p <= CRT_SIZE
                => Shown(Scroll([crt_buf |-> b, crt_pos |-> p]), l)
  <1>0. PICK W \in Nat, Z \in Nat : W = CRT_COLS /\ Z = CRT_SIZE /\ W > 0 /\ Z >= 2 * W
    BY ScreenSize
  <1>1. CASE p < Z
    <2>1. Scroll([crt_buf |-> b, crt_pos |-> p]) = [crt_buf |-> b, crt_pos |-> p]
      BY <1>0, <1>1 DEF Scroll
    <2>2. p \in 0 .. CRT_SIZE - 1 BY <1>0, <1>1
    <2>3. [crt_buf |-> b, crt_pos |-> p] \in Screen BY <2>2 DEF Screen
    <2> QED BY <2>1, <2>3
  <1>2. CASE ~(p < Z)
    <2>1. PICK d : d = [k \in 0 .. Z - 1 |-> IF k < Z - W THEN b[k + W] ELSE Blank]
      OBVIOUS
    <2>2. PICK q \in Nat : q = p - W /\ q < Z BY <1>0, <1>2
    <2>3. Scroll([crt_buf |-> b, crt_pos |-> p]) = [crt_buf |-> d, crt_pos |-> q]
      BY <1>0, <1>2, <2>1, <2>2 DEF Scroll
    <2>4. d \in [0 .. Z - 1 -> Int]
      <3>1. \A k \in 0 .. Z - 1 : k < Z - W => k + W \in 0 .. Z - 1 BY <1>0
      <3>2. Blank \in Int BY DEF Blank
      <3> QED BY <1>0, <2>1, <3>1, <3>2
    <2>5. q \in 0 .. Z - 1 BY <2>2
    <2>6. [crt_buf |-> d, crt_pos |-> q] \in Screen BY <1>0, <2>4, <2>5 DEF Screen
    <2>7. ASSUME NEW l \in Seq(Int), Shown([crt_buf |-> b, crt_pos |-> p], l), p <= Z
          PROVE  Shown([crt_buf |-> d, crt_pos |-> q], l)
      <3> SUFFICES ASSUME NEW k \in 0 .. Len(l) - 1, q - 1 - k >= 0
                   PROVE  d[q - 1 - k] = l[Len(l) - k]
        BY DEF Shown
      <3>1. Len(l) \in Nat OBVIOUS
      <3>2. PICK i \in Int : i = q - 1 - k BY <2>2, <3>1
      <3>3. i \in 0 .. Z - 1 /\ i < Z - W /\ i + W = p - 1 - k /\ p - 1 - k >= 0
        BY <1>0, <2>2, <2>7, <3>1, <3>2
      <3>4. d[i] = b[p - 1 - k] BY <2>1, <3>3
      <3>5. b[p - 1 - k] = l[Len(l) - k] BY <2>7, <3>3 DEF Shown
      <3> QED BY <3>2, <3>4, <3>5
    <2> QED BY <1>0, <2>3, <2>6, <2>7
  <1> QED BY <1>1, <1>2

\* No character takes the cursor off the screen.
LEMMA PutScreen ==
  ASSUME NEW s \in Screen, NEW c \in Int
  PROVE  Put(s, c) \in Screen
  <1>0. PICK W \in Nat, Z \in Nat : W = CRT_COLS /\ Z = CRT_SIZE /\ W > 0 /\ Z >= 2 * W
    BY ScreenSize
  <1>1. PICK b, p : b = s.crt_buf /\ p = s.crt_pos OBVIOUS
  <1>2. /\ b \in [0 .. CRT_SIZE - 1 -> Int] /\ p \in 0 .. Z - 1
        /\ s = [crt_buf |-> b, crt_pos |-> p]
    BY <1>0, <1>1 DEF Screen
  <1>3. SUFFICES ASSUME TRUE
                 PROVE \E d \in [0 .. CRT_SIZE - 1 -> Int], q \in Nat :
                          /\ q < CRT_SIZE + CRT_COLS
                          /\ Place(s, c) = [crt_buf |-> d, crt_pos |-> q]
    BY ScrollScreen DEF Put
  <1>4. PICK m \in 0 .. W - 1 : m = p % W BY <1>0, <1>2, ModLaps
  <1>5. m <= p
    <2>1. p < W => m = p BY <1>0, <1>2, <1>4, ModLaps
    <2> QED BY <1>2, <1>4, <2>1
  <1>6. CASE c = 8 /\ p = 0
    <2>1. Place(s, c) = [crt_buf |-> b, crt_pos |-> p] BY <1>1, <1>2, <1>6 DEF Place
    <2>2. p \in Nat /\ p < CRT_SIZE + CRT_COLS BY <1>0, <1>2
    <2> QED BY <1>2, <2>1, <2>2
  <1>7. CASE c = 8 /\ p # 0
    <2>1. PICK q \in Nat : q = p - 1 /\ q < CRT_SIZE + CRT_COLS BY <1>0, <1>2, <1>7
    <2>2. PICK d : d = [b EXCEPT ![q] = Blank] OBVIOUS
    <2>3. d \in [0 .. CRT_SIZE - 1 -> Int]
      <3>1. Blank \in Int BY DEF Blank
      <3> QED BY <1>2, <2>2, <3>1
    <2>4. Place(s, c) = [crt_buf |-> d, crt_pos |-> q]
      BY <1>1, <1>2, <1>7, <2>1, <2>2 DEF Place
    <2> QED BY <2>1, <2>3, <2>4
  <1>8. CASE c = 10
    <2>1. PICK q \in Nat : q = (p + W) - m /\ q < CRT_SIZE + CRT_COLS
      BY <1>0, <1>2, <1>4, <1>5
    <2>2. Place(s, c) = [s EXCEPT !.crt_pos = q]
      BY <1>0, <1>1, <1>4, <1>8, <2>1 DEF Place
    <2>3. Place(s, c) = [crt_buf |-> b, crt_pos |-> q] BY <1>2, <2>2
    <2> QED BY <1>2, <2>1, <2>3
  <1>9. CASE c = 13
    <2>1. PICK q \in Nat : q = p - m /\ q < CRT_SIZE + CRT_COLS
      BY <1>0, <1>2, <1>4, <1>5
    <2>2. Place(s, c) = [s EXCEPT !.crt_pos = q]
      BY <1>0, <1>1, <1>4, <1>9, <2>1 DEF Place
    <2>3. Place(s, c) = [crt_buf |-> b, crt_pos |-> q] BY <1>2, <2>2
    <2> QED BY <1>2, <2>1, <2>3
  <1>10. CASE c \notin {8, 10, 13}
    <2>1. PICK q \in Nat : q = p + 1 /\ q < CRT_SIZE + CRT_COLS BY <1>0, <1>2
    <2>2. PICK d : d = [b EXCEPT ![p] = c] OBVIOUS
    <2>3. d \in [0 .. CRT_SIZE - 1 -> Int] BY <1>2, <2>2
    <2>4. Place(s, c) = [crt_buf |-> d, crt_pos |-> q]
      BY <1>1, <1>10, <2>1, <2>2 DEF Place
    <2> QED BY <2>1, <2>3, <2>4
  <1> QED BY <1>6, <1>7, <1>8, <1>9, <1>10

LEMMA CgaScreen ==
  ASSUME NEW s \in Screen, NEW c \in Int
  PROVE  cga_putc(s, c) \in Screen
  <1>1. Blank \in Int BY DEF Blank
  <1>2. \A t \in Screen : Put(t, Blank) \in Screen BY <1>1, PutScreen
  <1>3. CASE c = 9
    <2>1. PICK t1 \in Screen : t1 = Put(s, Blank) BY <1>2
    <2>2. PICK t2 \in Screen : t2 = Put(t1, Blank) BY <1>2
    <2>3. PICK t3 \in Screen : t3 = Put(t2, Blank) BY <1>2
    <2>4. PICK t4 \in Screen : t4 = Put(t3, Blank) BY <1>2
    <2>5. PICK t5 \in Screen : t5 = Put(t4, Blank) BY <1>2
    <2> QED BY <1>3, <2>1, <2>2, <2>3, <2>4, <2>5 DEF cga_putc
  <1>4. CASE c # 9 BY <1>4, PutScreen DEF cga_putc
  <1> QED BY <1>3, <1>4

\* What is stored in the line shows before the cursor.
LEMMA StoreShown ==
  ASSUME NEW s \in Screen, NEW l \in Seq(Int), Shown(s, l), NEW c \in Int, c >= 32
  PROVE  Shown(cga_putc(s, c), Append(l, c))
  <1>1. PICK b, p : b = s.crt_buf /\ p = s.crt_pos OBVIOUS
  <1>2. b \in [0 .. CRT_SIZE - 1 -> Int] /\ p \in 0 .. CRT_SIZE - 1
    BY <1>1 DEF Screen
  <1>3. PICK d : d = [b EXCEPT ![p] = c] OBVIOUS
  <1>4. PICK q \in Nat : q = p + 1 /\ q <= CRT_SIZE /\ q < CRT_SIZE + CRT_COLS
    BY <1>2, ScreenSize
  <1>5. d \in [0 .. CRT_SIZE - 1 -> Int] BY <1>2, <1>3
  <1>6. cga_putc(s, c) = Scroll([crt_buf |-> d, crt_pos |-> q])
    <2>1. cga_putc(s, c) = Scroll(Place(s, c)) BY DEF cga_putc, Put
    <2>2. c # 8 /\ c # 10 /\ c # 13 OBVIOUS
    <2>3. Place(s, c) = [crt_buf |-> d, crt_pos |-> q]
      BY <1>1, <1>3, <1>4, <2>2 DEF Place
    <2> QED BY <2>1, <2>3
  <1>7. PICK m \in Seq(Int) : m = Append(l, c)
    <2>1. Append(l, c) \in Seq(Int) OBVIOUS
    <2> QED BY <2>1
  <1>8. PICK n \in Nat : n = Len(l) OBVIOUS
  <1>9. Len(m) = n + 1 /\ m[n + 1] = c /\ \A i \in 1 .. n : m[i] = l[i] BY <1>7, <1>8
  <1>10. ASSUME NEW k \in 0 .. n, q - 1 - k >= 0
         PROVE  d[q - 1 - k] = m[n + 1 - k]
    <2>1. CASE k = 0
      <3>1. q - 1 - k = p /\ n + 1 - k = n + 1 BY <1>2, <1>4, <2>1
      <3>2. d[p] = c BY <1>2, <1>3
      <3> QED BY <1>9, <3>1, <3>2
    <2>2. CASE k # 0
      <3>1. PICK j \in 0 .. n - 1 : j = k - 1 BY <2>2
      <3>2. PICK i \in Int : i = p - 1 - j BY <1>2
      <3>3. i = q - 1 - k /\ i >= 0 /\ i # p /\ i \in 0 .. CRT_SIZE - 1
        BY <1>2, <1>4, <1>10, <3>1, <3>2, ScreenSize
      <3>4. d[i] = b[i] BY <1>2, <1>3, <3>3
      <3>5. b[i] = l[n - j] BY <1>1, <1>8, <3>1, <3>2, <3>3 DEF Shown
      <3>6. n - j = n + 1 - k /\ n - j \in 1 .. n BY <3>1
      <3> QED BY <1>9, <3>3, <3>4, <3>5, <3>6
    <2> QED BY <2>1, <2>2
  <1>11. Shown([crt_buf |-> d, crt_pos |-> q], m)
    BY <1>9, <1>10 DEF Shown
  <1> QED BY <1>4, <1>5, <1>6, <1>7, <1>11, ScrollScreen

\* What is erased from the line goes from the screen.
LEMMA EraseShown ==
  ASSUME NEW s \in Screen, NEW l \in Seq(Int), l # << >>, Shown(s, l)
  PROVE  Front(l) \in Seq(Int) /\ Shown(cga_putc(s, 8), Front(l))
  <1>1. PICK b, p : b = s.crt_buf /\ p = s.crt_pos OBVIOUS
  <1>2. /\ b \in [0 .. CRT_SIZE - 1 -> Int] /\ p \in 0 .. CRT_SIZE - 1
        /\ s = [crt_buf |-> b, crt_pos |-> p]
    BY <1>1 DEF Screen
  <1>3. PICK n \in Nat : n = Len(l) /\ n > 0 OBVIOUS
  <1>4. PICK f : f = Front(l) OBVIOUS
  <1>5. f \in Seq(Int) /\ Len(f) = n - 1 /\ \A i \in 1 .. n - 1 : f[i] = l[i]
    BY <1>3, <1>4 DEF Front
  <1>6. CASE p = 0
    <2>1. cga_putc(s, 8) = Scroll([crt_buf |-> b, crt_pos |-> p])
      <3>1. cga_putc(s, 8) = Scroll(Place(s, 8)) BY DEF cga_putc, Put
      <3>2. Place(s, 8) = s BY <1>1, <1>6 DEF Place
      <3> QED BY <1>2, <3>1, <3>2
    <2>2. Shown([crt_buf |-> b, crt_pos |-> p], f) BY <1>3, <1>5, <1>6 DEF Shown
    <2>3. p \in Nat /\ p <= CRT_SIZE /\ p < CRT_SIZE + CRT_COLS BY <1>6, ScreenSize
    <2> QED BY <1>2, <1>4, <1>5, <2>1, <2>2, <2>3, ScrollScreen
  <1>7. CASE p # 0
    <2>1. PICK q \in Nat : q = p - 1 /\ q <= CRT_SIZE /\ q < CRT_SIZE + CRT_COLS
      BY <1>2, <1>7, ScreenSize
    <2>2. PICK d : d = [b EXCEPT ![q] = Blank] OBVIOUS
    <2>3. d \in [0 .. CRT_SIZE - 1 -> Int]
      <3>1. Blank \in Int BY DEF Blank
      <3> QED BY <1>2, <2>2, <3>1
    <2>4. cga_putc(s, 8) = Scroll([crt_buf |-> d, crt_pos |-> q])
      <3>1. cga_putc(s, 8) = Scroll(Place(s, 8)) BY DEF cga_putc, Put
      <3>2. Place(s, 8) = [crt_buf |-> d, crt_pos |-> q]
        BY <1>1, <1>7, <2>1, <2>2 DEF Place
      <3> QED BY <3>1, <3>2
    <2>5. ASSUME NEW k \in 0 .. (n - 1) - 1, q - 1 - k >= 0
          PROVE  d[q - 1 - k] = f[(n - 1) - k]
      <3>1. PICK j \in 0 .. n - 1 : j = k + 1 BY <1>3
      <3>2. PICK i \in Int : i = q - 1 - k BY <2>1
      <3>3. i = p - 1 - j /\ i >= 0 /\ i # q /\ i \in 0 .. CRT_SIZE - 1
        BY <1>2, <2>1, <2>5, <3>1, <3>2, ScreenSize
      <3>4. d[i] = b[i] BY <1>2, <2>2, <3>3
      <3>5. b[i] = l[n - j] BY <1>1, <1>3, <3>1, <3>3 DEF Shown
      <3>6. (n - 1) - k = n - j /\ n - j \in 1 .. n - 1 BY <1>3, <3>1
      <3> QED BY <1>5, <3>2, <3>4, <3>5, <3>6
    <2>6. Shown([crt_buf |-> d, crt_pos |-> q], f) BY <1>5, <2>5 DEF Shown
    <2> QED BY <1>4, <1>5, <2>1, <2>3, <2>4, <2>6, ScrollScreen
  <1> QED BY <1>6, <1>7

-----------------------------------------------------------------------------
(***************************************************************************)
(* The invariant                                                           *)
(***************************************************************************)
ConsoleTypeOK ==
    /\ pc \in {"off", "init", "prompt", "serial", "kbd", "run", "reset"}
    /\ kbd \in Seq(Code) /\ serial \in Seq(Char)
    /\ held \subseteq Key
    /\ shift \in SUBSET Flag
    /\ out \in Seq(Char) /\ line \in Seq(Int)

\* The flags of the keys that are down.
HeldFlags(h) == UNION {shiftcode[KeyCode(k)] : k \in h}

\* The codes that wait take the decoder to a state with the flags of held
\* keys only, and with no escape.
Settles(s, bytes, h) ==
    \E t \in SUBSET Flag :
        /\ Decodes(s, bytes, t)
        /\ "E0ESC" \notin t
        /\ t \cap Mods \subseteq HeldFlags(h)

KeysOK == pc # "reset" => Settles(shift, kbd, held)

\* readline prints its prompt before the line has a character, and reads
\* nothing before the prompt is printed.
ScreenOK ==
    /\ screen \in Screen
    /\ pc = "kbd" => out = << >>
    /\ pc = "serial" /\ out # << >> => line = << >>
    /\ pc \in {"serial", "kbd"} => Shown(screen, line)

ConsoleInv == ConsoleTypeOK /\ RingOK /\ KeysOK /\ ScreenOK

\* With no codes the decoder stays as it is.
LEMMA DecodeNone ==
  ASSUME NEW s \in SUBSET Flag
  PROVE  /\ Decodes(s, << >>, s)
         /\ \A t : Decodes(s, << >>, t) => t = s
  <1>1. Len(<< >>) = 0 /\ Len(<< >>) + 1 = 1 OBVIOUS
  <1>2. PICK w : w = [i \in 1 .. 1 |-> s] OBVIOUS
  <1>3. w \in [1 .. 1 -> SUBSET Flag] /\ w[1] = s BY <1>2
  <1>4. Decodes(s, << >>, s) BY <1>1, <1>3 DEF Decodes
  <1> QED BY <1>1, <1>4 DEF Decodes

LEMMA HoldSettles ==
  ASSUME NEW s, NEW bytes \in Seq(Code), NEW h \in SUBSET Key, Settles(s, bytes, h),
         NEW k \in Key
  PROVE  /\ bytes \o Bytes(k, FALSE) \in Seq(Code)
         /\ Settles(s, bytes \o Bytes(k, FALSE), h \cup {k})
  <1>1. PICK t \in SUBSET Flag : /\ Decodes(s, bytes, t) /\ "E0ESC" \notin t
                                 /\ t \cap Mods \subseteq HeldFlags(h)
    BY DEF Settles
  <1>2. PICK u : u = AfterKey(t, k, FALSE) OBVIOUS
  <1>3. FALSE \in BOOLEAN OBVIOUS
  <1>4. /\ u \in SUBSET Flag /\ "E0ESC" \notin u
        /\ u \cap Mods = (t \cap Mods) \cup shiftcode[KeyCode(k)]
    BY <1>1, <1>2, <1>3, KeyDecodes
  <1>5. /\ bytes \o Bytes(k, FALSE) \in Seq(Code)
        /\ Decodes(s, bytes \o Bytes(k, FALSE), u)
    BY <1>1, <1>2, <1>3, DecodeKey
  <1>6. u \cap Mods \subseteq HeldFlags(h \cup {k}) BY <1>1, <1>4 DEF HeldFlags
  <1> QED BY <1>4, <1>5, <1>6 DEF Settles

\* Two keys may share a flag: the release of one clears it for both.
LEMMA LetGoSettles ==
  ASSUME NEW s, NEW bytes \in Seq(Code), NEW h \in SUBSET Key, Settles(s, bytes, h),
         NEW k \in Key
  PROVE  /\ bytes \o Bytes(k, TRUE) \in Seq(Code)
         /\ Settles(s, bytes \o Bytes(k, TRUE), h \ {k})
  <1>1. PICK t \in SUBSET Flag : /\ Decodes(s, bytes, t) /\ "E0ESC" \notin t
                                 /\ t \cap Mods \subseteq HeldFlags(h)
    BY DEF Settles
  <1>2. PICK u : u = AfterKey(t, k, TRUE) OBVIOUS
  <1>3. TRUE \in BOOLEAN OBVIOUS
  <1>4. /\ u \in SUBSET Flag /\ "E0ESC" \notin u
        /\ u \cap Mods = (t \cap Mods) \ shiftcode[KeyCode(k)]
    BY <1>1, <1>2, <1>3, KeyDecodes
  <1>5. /\ bytes \o Bytes(k, TRUE) \in Seq(Code)
        /\ Decodes(s, bytes \o Bytes(k, TRUE), u)
    BY <1>1, <1>2, <1>3, DecodeKey
  <1>6. u \cap Mods \subseteq HeldFlags(h \ {k}) BY <1>1, <1>4 DEF HeldFlags
  <1> QED BY <1>4, <1>5, <1>6 DEF Settles

LEMMA TapSettles ==
  ASSUME NEW s, NEW bytes \in Seq(Code), NEW h \in SUBSET Key, Settles(s, bytes, h),
         NEW k \in Key
  PROVE  /\ bytes \o (Bytes(k, FALSE) \o Bytes(k, TRUE)) \in Seq(Code)
         /\ Settles(s, bytes \o (Bytes(k, FALSE) \o Bytes(k, TRUE)), h)
  <1>0. PICK down, up : down = Bytes(k, FALSE) /\ up = Bytes(k, TRUE) OBVIOUS
  <1>1. PICK t \in SUBSET Flag : /\ Decodes(s, bytes, t) /\ "E0ESC" \notin t
                                 /\ t \cap Mods \subseteq HeldFlags(h)
    BY DEF Settles
  <1>2. PICK u : u = AfterKey(t, k, FALSE) OBVIOUS
  <1>3. TRUE \in BOOLEAN /\ FALSE \in BOOLEAN OBVIOUS
  <1>4. /\ u \in SUBSET Flag /\ "E0ESC" \notin u
        /\ u \cap Mods = (t \cap Mods) \cup shiftcode[KeyCode(k)]
    BY <1>1, <1>2, <1>3, KeyDecodes
  <1>5. bytes \o down \in Seq(Code) /\ Decodes(s, bytes \o down, u)
    BY <1>0, <1>1, <1>2, <1>3, DecodeKey
  <1>6. PICK v : v = AfterKey(u, k, TRUE) OBVIOUS
  <1>7. /\ v \in SUBSET Flag /\ "E0ESC" \notin v
        /\ v \cap Mods = (u \cap Mods) \ shiftcode[KeyCode(k)]
    BY <1>3, <1>4, <1>6, KeyDecodes
  <1>8. (bytes \o down) \o up \in Seq(Code) /\ Decodes(s, (bytes \o down) \o up, v)
    BY <1>0, <1>3, <1>5, <1>6, DecodeKey
  <1>9. (bytes \o down) \o up = bytes \o (down \o up)
    <2>1. down \in Seq(Code) /\ up \in Seq(Code) BY <1>0, <1>3, BytesCodes
    <2> QED BY <2>1, ConcatAssociative
  <1>10. v \cap Mods \subseteq HeldFlags(h) BY <1>1, <1>4, <1>7
  <1> QED BY <1>0, <1>7, <1>8, <1>9, <1>10 DEF Settles

\* The decoder takes the next code.
LEMMA CodeSettles ==
  ASSUME NEW s, NEW bytes \in Seq(Code), bytes # << >>, NEW h, Settles(s, bytes, h)
  PROVE  Settles(After(s, Head(bytes)), Tail(bytes), h)
  BY DecodeFirst DEF Settles

-----------------------------------------------------------------------------
(***************************************************************************)
(* Every action keeps the invariant                                        *)
(***************************************************************************)
LEMMA InitConsoleInv ==
  ASSUME Init
  PROVE  ConsoleInv
  <1>1. ConsoleTypeOK BY DEF Init, ConsoleTypeOK
  <1>2. RingOK
    <2>1. CONSBUFSIZE \in Nat /\ CONSBUFSIZE > 1 BY ConsoleAssumption
    <2>2. Len(unread) = 0 /\ unread \in Seq(Int) BY DEF Init
    <2>3. Ahead = 0 BY <2>1 DEF Init, Ahead
    <2>4. \A k \in 1 .. Ahead : FALSE BY <2>3
    <2> QED BY <2>1, <2>2, <2>3, <2>4 DEF Init, RingOK, Wrap
  <1>3. KeysOK
    <2>1. {} \in SUBSET Flag /\ "E0ESC" \notin {} /\ {} \cap Mods \subseteq HeldFlags({})
      OBVIOUS
    <2>2. Settles({}, << >>, {}) BY <2>1, DecodeNone DEF Settles
    <2> QED BY <2>2 DEF Init, KeysOK
  <1>4. ScreenOK
    <2>1. Blank \in Int /\ 0 \in 0 .. CRT_SIZE - 1 BY ScreenSize DEF Blank
    <2>2. screen \in Screen BY <2>1 DEF Init, Screen
    <2> QED BY <2>2 DEF Init, ScreenOK
  <1> QED BY <1>1, <1>2, <1>3, <1>4 DEF ConsoleInv

LEMMA CharInt == \A c \in Char : c \in Int
  BY DEF Char

\* Steps that leave the ring and the screen alone.
LEMMA RingSame ==
  ASSUME RingOK, UNCHANGED ringVars
  PROVE  RingOK'
  BY DEF ringVars, RingOK, Wrap, Ahead

LEMMA ScreenSame ==
  ASSUME ScreenOK, UNCHANGED <<pc, out, screen, line>>
  PROVE  ScreenOK'
  BY DEF ScreenOK

LEMMA KeysSame ==
  ASSUME KeysOK, UNCHANGED <<shift, kbd, held>>, pc' # "reset" => pc # "reset"
  PROVE  KeysOK'
  BY DEF KeysOK

LEMMA HoldConsoleInv ==
  ASSUME ConsoleInv, NEW k \in Modifier, Hold(k) \/ LetGo(k)
  PROVE  ConsoleInv'
  <1>0. k \in Key BY ConsoleAssumption
  <1>1. kbd \in Seq(Code) /\ held \in SUBSET Key BY DEF ConsoleInv, ConsoleTypeOK
  <1>2. UNCHANGED <<pc, serial, serial_exists, shift, ringVars, out, screen, line>>
    BY DEF Hold, LetGo, Keystroke
  <1>3. RingOK' /\ ScreenOK' BY <1>2, RingSame, ScreenSame DEF ConsoleInv
  <1>4. CASE Hold(k)
    <2>1. kbd' = kbd \o Bytes(k, FALSE) /\ held' = held \cup {k}
      BY <1>4 DEF Hold, Keystroke
    <2>2. kbd' \in Seq(Code)
      <3>1. FALSE \in BOOLEAN OBVIOUS
      <3>2. Bytes(k, FALSE) \in Seq(Code) BY <1>0, <3>1, BytesCodes
      <3> QED BY <1>1, <2>1, <3>2, ConcatProperties
    <2>3. ConsoleTypeOK' BY <1>0, <1>2, <2>1, <2>2 DEF ConsoleInv, ConsoleTypeOK
    <2>4. KeysOK'
      BY <1>0, <1>1, <1>2, <2>1, HoldSettles DEF ConsoleInv, KeysOK
    <2> QED BY <1>3, <2>3, <2>4 DEF ConsoleInv
  <1>5. CASE LetGo(k)
    <2>1. kbd' = kbd \o Bytes(k, TRUE) /\ held' = held \ {k}
      BY <1>5 DEF LetGo, Keystroke
    <2>2. kbd' \in Seq(Code)
      <3>1. TRUE \in BOOLEAN OBVIOUS
      <3>2. Bytes(k, TRUE) \in Seq(Code) BY <1>0, <3>1, BytesCodes
      <3> QED BY <1>1, <2>1, <3>2, ConcatProperties
    <2>3. ConsoleTypeOK' BY <1>0, <1>2, <2>1, <2>2 DEF ConsoleInv, ConsoleTypeOK
    <2>4. KeysOK'
      BY <1>0, <1>1, <1>2, <2>1, LetGoSettles DEF ConsoleInv, KeysOK
    <2> QED BY <1>3, <2>3, <2>4 DEF ConsoleInv
  <1> QED BY <1>4, <1>5

LEMMA TapConsoleInv ==
  ASSUME ConsoleInv, NEW k \in Tapped, Tap(k)
  PROVE  ConsoleInv'
  <1>0. k \in Key BY ConsoleAssumption
  <1>1. kbd \in Seq(Code) /\ held \in SUBSET Key BY DEF ConsoleInv, ConsoleTypeOK
  <1>2. UNCHANGED <<pc, serial, serial_exists, shift, ringVars, out, screen, line, held>>
    BY DEF Tap, Keystroke
  <1>3. RingOK' /\ ScreenOK' BY <1>2, RingSame, ScreenSame DEF ConsoleInv
  <1>4. kbd' = kbd \o (Bytes(k, FALSE) \o Bytes(k, TRUE)) BY DEF Tap, Keystroke
  <1>5. kbd' \in Seq(Code)
    <2>1. TRUE \in BOOLEAN /\ FALSE \in BOOLEAN OBVIOUS
    <2>2. PICK down \in Seq(Code), up \in Seq(Code) :
            down = Bytes(k, FALSE) /\ up = Bytes(k, TRUE)
      BY <1>0, <2>1, BytesCodes
    <2>3. down \o up \in Seq(Code) BY ConcatProperties
    <2> QED BY <1>1, <1>4, <2>2, <2>3, ConcatProperties
  <1>6. ConsoleTypeOK' BY <1>2, <1>5 DEF ConsoleInv, ConsoleTypeOK
  <1>7. KeysOK' BY <1>0, <1>1, <1>2, <1>4, TapSettles DEF ConsoleInv, KeysOK
  <1> QED BY <1>3, <1>6, <1>7 DEF ConsoleInv

LEMMA ReceiveConsoleInv ==
  ASSUME ConsoleInv, NEW b \in SerialByte, Receive(b)
  PROVE  ConsoleInv'
  <1>1. UNCHANGED <<pc, kbd, held, serial_exists, shift, ringVars, out, screen, line>>
    BY DEF Receive
  <1>2. serial' \in Seq(Char)
    <2>1. b \in Char /\ serial \in Seq(Char)
      BY ConsoleAssumption DEF ConsoleInv, ConsoleTypeOK
    <2>2. serial' = Append(serial, b) BY DEF Receive
    <2> QED BY <2>1, <2>2
  <1>3. ConsoleTypeOK' BY <1>1, <1>2 DEF ConsoleInv, ConsoleTypeOK
  <1>4. RingOK' /\ ScreenOK' /\ KeysOK'
    BY <1>1, RingSame, ScreenSame, KeysSame DEF ConsoleInv
  <1> QED BY <1>3, <1>4 DEF ConsoleInv

LEMMA StartConsoleInv ==
  ASSUME ConsoleInv, cga_init \/ serial_init
  PROVE  ConsoleInv'
  <1>1. UNCHANGED <<kbd, held, shift, ringVars, line>>
    BY DEF cga_init, serial_init, deviceVars
  <1>2. pc \in {"off", "init"} /\ pc' \in {"init", "prompt"} BY DEF cga_init, serial_init
  <1>3. RingOK' /\ KeysOK' BY <1>1, <1>2, RingSame, KeysSame DEF ConsoleInv
  <1>4. CASE cga_init
    <2>1. UNCHANGED <<serial, out>> BY <1>4 DEF cga_init, deviceVars
    <2>2. ConsoleTypeOK' BY <1>1, <1>2, <2>1 DEF ConsoleInv, ConsoleTypeOK
    <2>3. screen' \in Screen BY <1>4 DEF cga_init, ConsoleInv, ScreenOK, Screen
    <2> QED BY <1>2, <1>3, <2>2, <2>3 DEF ConsoleInv, ScreenOK
  <1>5. CASE serial_init
    <2>1. screen' = screen BY <1>5 DEF serial_init
    <2>2. serial' \in Seq(Char)
      <3>1. serial \in Seq(Char) BY DEF ConsoleInv, ConsoleTypeOK
      <3>2. serial' = IF serial = << >> THEN << >> ELSE Tail(serial)
        BY <1>5 DEF serial_init
      <3> QED BY <3>1, <3>2
    <2>3. out' \in Seq(Char)
      <3>1. 33 \in Char /\ 10 \in Char BY DEF Char
      <3>2. NoSerialPort \in Seq(Char) /\ << >> \in Seq(Char) BY <3>1 DEF NoSerialPort
      <3> QED BY <1>5, <3>2 DEF serial_init
    <2>4. ConsoleTypeOK' BY <1>1, <1>2, <2>2, <2>3 DEF ConsoleInv, ConsoleTypeOK
    <2>5. ScreenOK' BY <1>2, <2>1 DEF ConsoleInv, ScreenOK
    <2> QED BY <1>3, <2>4, <2>5 DEF ConsoleInv
  <1> QED BY <1>4, <1>5

LEMMA putchConsoleInv ==
  ASSUME ConsoleInv, putch
  PROVE  ConsoleInv'
  <1>1. UNCHANGED <<pc, kbd, serial, held, shift, ringVars, line>>
    BY DEF putch, deviceVars
  <1>2. out \in Seq(Char) /\ out # << >> /\ out' = Tail(out)
    BY DEF putch, ConsoleInv, ConsoleTypeOK
  <1>3. out' \in Seq(Char) /\ Head(out) \in Char BY <1>2, HeadTailProperties
  <1>4. ConsoleTypeOK' BY <1>1, <1>3 DEF ConsoleInv, ConsoleTypeOK
  <1>5. RingOK' /\ KeysOK' BY <1>1, RingSame, KeysSame DEF ConsoleInv
  <1>6. screen' \in Screen
    <2>1. Head(out) \in Int BY <1>3, CharInt
    <2>2. screen' = cga_putc(screen, Head(out)) BY DEF putch
    <2> QED BY <2>1, <2>2, CgaScreen DEF ConsoleInv, ScreenOK
  <1>7. pc # "kbd" /\ (pc = "serial" => line = << >>) BY <1>2 DEF ConsoleInv, ScreenOK
  <1>8. ASSUME pc' \in {"serial", "kbd"} PROVE Shown(screen', line')
    <2>1. line' = << >> BY <1>1, <1>7, <1>8
    <2>2. \A k \in 0 .. Len(line') - 1 : FALSE BY <2>1
    <2> QED BY <2>2 DEF Shown
  <1>9. ScreenOK' BY <1>1, <1>6, <1>7, <1>8 DEF ScreenOK
  <1> QED BY <1>4, <1>5, <1>9 DEF ConsoleInv

LEMMA PollConsoleInv ==
  ASSUME ConsoleInv, serial_intr \/ SerialDone
  PROVE  ConsoleInv'
  <1>1. UNCHANGED <<kbd, held, shift, out, screen, line>>
    BY DEF serial_intr, SerialDone, deviceVars
  <1>2. pc = "serial" /\ out = << >> /\ pc' \in {"serial", "kbd"}
    BY DEF serial_intr, SerialDone
  <1>3. KeysOK' BY <1>1, <1>2, KeysSame DEF ConsoleInv
  <1>4. ScreenOK' BY <1>1, <1>2 DEF ConsoleInv, ScreenOK
  <1>5. RingOK' /\ serial' \in Seq(Char)
    <2>1. serial \in Seq(Char) BY DEF ConsoleInv, ConsoleTypeOK
    <2>2. CASE serial_intr
      <3>1. serial # << >> /\ serial' = Tail(serial) /\ cons_intr(Head(serial))
            /\ rpos' = rpos
        BY <2>2 DEF serial_intr
      <3>2. Head(serial) \in Char /\ serial' \in Seq(Char)
        BY <2>1, <3>1, HeadTailProperties
      <3>3. Head(serial) \in Int BY <3>2, CharInt
      <3> QED BY <3>1, <3>2, <3>3, RingPut DEF ConsoleInv
    <2>3. CASE SerialDone
      BY <2>1, <2>3, RingSame DEF SerialDone, ConsoleInv, deviceVars
    <2> QED BY <2>2, <2>3
  <1>6. ConsoleTypeOK' BY <1>1, <1>2, <1>5 DEF ConsoleInv, ConsoleTypeOK
  <1> QED BY <1>3, <1>4, <1>5, <1>6 DEF ConsoleInv

LEMMA kbd_intrConsoleInv ==
  ASSUME ConsoleInv, kbd_intr
  PROVE  ConsoleInv'
  <1>1. /\ pc \in {"init", "kbd"} /\ kbd # << >> /\ kbd' = Tail(kbd)
        /\ pc' = pc \/ pc' = "reset"
        /\ shift' = After(shift, Head(kbd))
        /\ cons_intr(kbd_proc_data(shift, Head(kbd)).c)
        /\ UNCHANGED <<serial, held, events, serial_exists, rpos, out, screen, line>>
    BY DEF kbd_intr, After
  <1>2. kbd \in Seq(Code) /\ shift \in SUBSET Flag BY DEF ConsoleInv, ConsoleTypeOK
  <1>3. Head(kbd) \in Code /\ kbd' \in Seq(Code) BY <1>1, <1>2, HeadTailProperties
  <1>4. shift' \in SUBSET Flag /\ kbd_proc_data(shift, Head(kbd)).c \in Int
    BY <1>1, <1>2, <1>3, DecoderTypes
  <1>5. ConsoleTypeOK' BY <1>1, <1>3, <1>4 DEF ConsoleInv, ConsoleTypeOK
  <1>6. RingOK' BY <1>1, <1>4, RingPut DEF ConsoleInv
  <1>7. KeysOK'
    <2>1. pc # "reset" BY <1>1
    <2>2. Settles(shift, kbd, held) BY <2>1 DEF ConsoleInv, KeysOK
    <2> QED BY <1>1, <1>2, <2>2, CodeSettles DEF KeysOK
  <1>8. ScreenOK' BY <1>1 DEF ConsoleInv, ScreenOK
  <1> QED BY <1>5, <1>6, <1>7, <1>8 DEF ConsoleInv

LEMMA getcharConsoleInv ==
  ASSUME ConsoleInv, getchar
  PROVE  ConsoleInv'
  <1>1. PICK c : c = buf[rpos] OBVIOUS
  <1>2. /\ pc = "kbd" /\ Edit(c)
        /\ UNCHANGED <<kbd, serial, held, shift, out>>
    BY <1>1 DEF getchar, deviceVars
  <1>3. RingOK' /\ c \in Int BY <1>1, RingTake DEF ConsoleInv, getchar
  <1>4. /\ screen \in Screen /\ line \in Seq(Int) /\ Shown(screen, line) /\ out = << >>
    BY <1>2 DEF ConsoleInv, ConsoleTypeOK, ScreenOK
  <1>5. /\ pc' \in {"serial", "run"} /\ line' \in Seq(Int) /\ screen' \in Screen
        /\ pc' = "serial" => Shown(screen', line')
    <2>1. CASE Erases(c) /\ line' = Front(line) /\ screen' = cga_putc(screen, 8)
               /\ pc' = "serial"
      <3>1. line # << >> /\ 8 \in Int BY <2>1 DEF Erases
      <3>2. line' \in Seq(Int) /\ Shown(screen', line') BY <1>4, <2>1, <3>1, EraseShown
      <3>3. screen' \in Screen BY <1>4, <2>1, <3>1, CgaScreen
      <3> QED BY <2>1, <3>2, <3>3
    <2>2. CASE Stores(c) /\ line' = Append(line, c) /\ screen' = cga_putc(screen, c)
               /\ pc' = "serial"
      <3>1. c >= 32 BY <2>2 DEF Stores
      <3>2. Shown(screen', line') BY <1>3, <1>4, <2>2, <3>1, StoreShown
      <3>3. screen' \in Screen BY <1>3, <1>4, <2>2, CgaScreen
      <3>4. line' \in Seq(Int) BY <1>3, <1>4, <2>2
      <3> QED BY <2>2, <3>2, <3>3, <3>4
    <2>3. CASE screen' = cga_putc(screen, 10) /\ pc' = "run" /\ line' = line
      <3>1. 10 \in Int OBVIOUS
      <3>2. screen' \in Screen BY <1>4, <2>3, <3>1, CgaScreen
      <3> QED BY <1>4, <2>3, <3>2
    <2>4. CASE pc' = "serial" /\ line' = line /\ screen' = screen
      BY <1>4, <2>4
    <2> QED BY <1>2, <2>1, <2>2, <2>3, <2>4 DEF Edit
  <1>6. ConsoleTypeOK' BY <1>2, <1>5 DEF ConsoleInv, ConsoleTypeOK
  <1>7. KeysOK' BY <1>2, KeysSame DEF ConsoleInv
  <1>8. ScreenOK' BY <1>2, <1>4, <1>5 DEF ScreenOK
  <1> QED BY <1>3, <1>6, <1>7, <1>8 DEF ConsoleInv

LEMMA MonitorConsoleInv ==
  ASSUME ConsoleInv, readline \/ GetsNothing \/ runcmd
  PROVE  ConsoleInv'
  <1>1. UNCHANGED <<kbd, serial, held, shift, ringVars, screen>>
    BY DEF readline, GetsNothing, runcmd, deviceVars
  <1>2. pc \in {"prompt", "kbd", "run"} /\ pc' \in {"serial", "prompt"}
    BY DEF readline, GetsNothing, runcmd
  <1>3. RingOK' /\ KeysOK' BY <1>1, <1>2, RingSame, KeysSame DEF ConsoleInv
  <1>4. out' \in Seq(Char) /\ line' \in Seq(Int)
    <2>1. out \in Seq(Char) /\ line \in Seq(Int) BY DEF ConsoleInv, ConsoleTypeOK
    <2>2. CASE readline BY <2>1, <2>2, ConsoleAssumption DEF readline
    <2>3. CASE GetsNothing BY <2>1, <2>3 DEF GetsNothing
    <2>4. CASE runcmd BY <2>1, <2>4, ConsoleAssumption DEF runcmd
    <2> QED BY <2>2, <2>3, <2>4
  <1>5. ConsoleTypeOK' BY <1>1, <1>2, <1>4 DEF ConsoleInv, ConsoleTypeOK
  <1>6. ScreenOK'
    <2>1. CASE readline
      <3>1. line' = << >> /\ pc' = "serial" BY <2>1 DEF readline
      <3>2. \A k \in 0 .. Len(line') - 1 : FALSE BY <3>1
      <3>3. Shown(screen', line') BY <3>2 DEF Shown
      <3> QED BY <1>1, <3>1, <3>3 DEF ConsoleInv, ScreenOK
    <2>2. CASE GetsNothing
      BY <1>1, <2>2 DEF GetsNothing, ConsoleInv, ScreenOK
    <2>3. CASE runcmd
      BY <1>1, <2>3 DEF runcmd, ConsoleInv, ScreenOK
    <2> QED BY <2>1, <2>2, <2>3
  <1> QED BY <1>3, <1>5, <1>6 DEF ConsoleInv

LEMMA NextConsoleInv ==
  ASSUME ConsoleInv, [Next]_vars
  PROVE  ConsoleInv'
  <1>1. CASE UNCHANGED vars
    <2>1. UNCHANGED <<pc, kbd, serial, held, shift, ringVars, out, screen, line>>
      BY <1>1 DEF vars, deviceVars
    <2>2. RingOK' /\ ScreenOK' /\ KeysOK'
      BY <2>1, RingSame, ScreenSame, KeysSame DEF ConsoleInv
    <2>3. ConsoleTypeOK' BY <2>1 DEF ConsoleInv, ConsoleTypeOK
    <2> QED BY <2>2, <2>3 DEF ConsoleInv
  <1>2. CASE Next
    BY <1>2, HoldConsoleInv, TapConsoleInv, ReceiveConsoleInv, StartConsoleInv,
       putchConsoleInv, PollConsoleInv, kbd_intrConsoleInv, getcharConsoleInv,
       MonitorConsoleInv DEF Next
  <1> QED BY <1>1, <1>2

-----------------------------------------------------------------------------
(***************************************************************************)
(* The inductive invariant of the console: the types, the shape of the     *)
(* ring, what the codes still in the keyboard will leave in the decoder,   *)
(* and the line on the screen.                                             *)
(***************************************************************************)
THEOREM ConsoleInvariant == Spec => []ConsoleInv
  <1>1. Init => ConsoleInv BY InitConsoleInv
  <1>2. ConsoleInv /\ [Next]_vars => ConsoleInv' BY NextConsoleInv
  <1> QED BY <1>1, <1>2, PTL DEF Spec

(***************************************************************************)
(* cons_intr and cons_getc keep the end of the queue, and all of it unless *)
(* a lap is lost, for every CONSBUFSIZE and order of polls and reads.      *)
(* That a lap can be lost is what ConsoleLap.cfg shows.                    *)
(***************************************************************************)
THEOREM ConsoleInputIsFifo == Spec => []InputIsFifo
  <1>1. ConsoleInv => InputIsFifo BY RingFifo DEF ConsoleInv
  <1> QED BY <1>1, ConsoleInvariant, PTL

(***************************************************************************)
(* kbd_proc_data is left with no modifier when every key is up, for every  *)
(* set of keys, with and without a prefix, and every split of their codes  *)
(* over the polls.                                                         *)
(***************************************************************************)
THEOREM ConsoleNoStuckModifier == Spec => []NoStuckModifier
  <1>1. ConsoleInv => NoStuckModifier
    <2> SUFFICES ASSUME ConsoleInv, kbd = << >>, held = {}, pc # "reset"
                 PROVE  shift \cap {"SHIFT", "CTL", "ALT", "E0ESC"} = {}
      BY DEF NoStuckModifier
    <2>1. shift \in SUBSET Flag BY DEF ConsoleInv, ConsoleTypeOK
    <2>2. Settles(shift, << >>, {}) BY DEF ConsoleInv, KeysOK
    <2>3. "E0ESC" \notin shift /\ shift \cap Mods \subseteq HeldFlags({})
      BY <2>1, <2>2, DecodeNone DEF Settles
    <2>4. HeldFlags({}) = {} BY DEF HeldFlags
    <2> QED BY <2>3, <2>4 DEF Mods
  <1> QED BY <1>1, ConsoleInvariant, PTL

(***************************************************************************)
(* What readline keeps shows before the cursor, and cga_putc keeps the     *)
(* cursor on the screen, for a screen of any width and two rows or more.   *)
(***************************************************************************)
THEOREM ConsoleEchoShowsLine == Spec => []EchoShowsLine
  <1>1. ConsoleInv => EchoShowsLine
    <2> SUFFICES ASSUME ConsoleInv PROVE EchoShowsLine OBVIOUS
    <2>1. screen.crt_pos \in 0 .. CRT_SIZE - 1 BY DEF ConsoleInv, ScreenOK, Screen
    <2> QED BY <2>1 DEF ConsoleInv, ScreenOK, Shown, EchoShowsLine
  <1> QED BY <1>1, ConsoleInvariant, PTL
=============================================================================
