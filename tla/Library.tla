------------------------------- MODULE Library -------------------------------
(***************************************************************************)
(* The sequential algorithms of the system, called one at a time: the      *)
(* string library, formatted printing, the stab search, the layout of      *)
(* memory and the boot loader.  A call is one step, which records the      *)
(* arguments and what the algorithm made of them; the invariants compare   *)
(* that with what the algorithm is for.                                    *)
(***************************************************************************)
EXTENDS Strings, Printfmt, Kdebug, MemInit

CONSTANTS
    MemTop,     \* memmove works on the bytes 0 .. MemTop
    MaxString,  \* the longest string
    Bytes,      \* what strings are made of
    Values,     \* the numbers that are printed
    Widths,     \* field widths; 0 is "none"
    MaxFormat,  \* the longest format of unknown escapes
    MaxStabs,   \* the longest table of stabs
    MaxTypes,   \* the number of stabs in a table behind its first file
    Machines    \* memory sizes and kernel images

ASSUME LibraryAssumption ==
    /\ {MemTop, MaxString, MaxFormat, MaxStabs, MaxTypes} \subseteq Nat
    /\ Widths \subseteq 0 .. 9
    /\ \A mc \in Machines : mc.base \in 4 .. 640 /\ mc.ext \in 0 .. 65535

VARIABLE call

Idle == [op |-> "none"]

Init == call = Idle

Calling == call = Idle

\* All sequences over S of at most n elements.
Upto(S, n) == UNION {[1 .. k -> S] : k \in 0 .. n}

-----------------------------------------------------------------------------
(***************************************************************************)
(* Strings and memory                                                      *)
(***************************************************************************)
Identity == [a \in 0 .. MemTop |-> a]

Move ==
    /\ Calling
    /\ \E dst, src, n \in 0 .. MemTop + 1 :
        /\ dst + n <= MemTop + 1 /\ src + n <= MemTop + 1
        /\ call' = [op |-> "memmove", dst |-> dst, src |-> src, n |-> n,
                    mem |-> memmove(Identity, dst, src, n)]

\* Two strings in a memory of sevens, the first with room for both.
First  == 1
Second == 2 * MaxString + 4

Memory(t, u) ==
    [a \in 1 .. Second + 2 * MaxString + 2 |->
        CASE a \in First .. First + Len(t) - 1 -> t[a - First + 1]
          [] a = First + Len(t) -> 0
          [] a \in Second .. Second + Len(u) - 1 -> u[a - Second + 1]
          [] a = Second + Len(u) -> 0
          [] OTHER -> 7]

CallStrings ==
    /\ Calling
    /\ \E t, u \in Upto(Bytes, MaxString), n \in 0 .. MaxString + 1 :
        LET m == Memory(t, u)
        IN  call' = [op |-> "strings", t |-> t, u |-> u, n |-> n, mem |-> m,
                     cpy |-> strcpy(m, First, Second),
                     cat |-> strcat(m, First, Second),
                     ncpy |-> strncpy(m, First, Second, n),
                     lcpy |-> strlcpy(m, First, Second, n),
                     cmp |-> strcmp(m, First, Second),
                     ncmp |-> strncmp(m, First, Second, n)]

CallFind ==
    /\ Calling
    /\ \E t, u \in Upto(Bytes, MaxString), c \in Bytes, n \in 0 .. MaxString + 1 :
        LET m == Memory(t, u)
        IN  call' = [op |-> "find", t |-> t, c |-> c, n |-> n, mem |-> m,
                     len |-> strlen(m, First), nlen |-> strnlen(m, First, n),
                     find |-> strfind(m, First, c), chr |-> strchr(m, First, c),
                     mfind |-> memfind(m, First, c, n),
                     mcmp |-> memcmp(m, First, Second, n)]

Sign(x) == IF x > 0 THEN 1 ELSE IF x < 0 THEN -1 ELSE 0

MovesAll ==
    call.op = "memmove" =>
        \A a \in 0 .. MemTop :
            call.mem[a] = IF a \in call.dst .. call.dst + call.n - 1
                          THEN call.src + a - call.dst ELSE a

CopiesFit ==
    call.op = "strings" =>
        LET k == Min({Len(call.u), call.n})
        IN  /\ Text(call.cpy, First) = call.u
            /\ Outside(call.cpy, call.mem, First, Len(call.u) + 1)
            /\ Text(call.cat, First) = call.t \o call.u
            /\ Outside(call.cat, call.mem, First + Len(call.t), Len(call.u) + 1)
            /\ \A i \in 1 .. call.n :
                  call.ncpy[First + i - 1] = IF i <= k THEN call.u[i] ELSE 0
            /\ Outside(call.ncpy, call.mem, First, call.n)
            /\ Outside(call.lcpy.mem, call.mem, First, call.n)
            /\ call.n > 0 =>
                  /\ Text(call.lcpy.mem, First) = Cut(call.u, call.n - 1)
                  /\ call.lcpy.ret = Min({Len(call.u), call.n - 1})

Compares ==
    call.op = "strings" =>
        /\ Sign(call.cmp) = Sign(Order(call.t, call.u))
        /\ Sign(call.ncmp) = Sign(Order(Cut(call.t, call.n), Cut(call.u, call.n)))

Finds ==
    call.op = "find" =>
        LET P == {k \in DOMAIN call.t : call.t[k] = call.c}
        IN  /\ call.len = Len(call.t)
            /\ call.nlen = Min({Len(call.t), call.n})
            /\ call.find = First + (IF P = {} THEN Len(call.t) ELSE Min(P) - 1)
            /\ call.chr = IF P = {} THEN 0 ELSE call.find
            /\ \A a \in First .. call.mfind - 1 : call.mem[a] # call.c
            /\ call.mfind = First + call.n \/ call.mem[call.mfind] = call.c
            /\ (call.mcmp = 0) <=> \A k \in 0 .. call.n - 1 :
                                      call.mem[First + k] = call.mem[Second + k]

\* lib/string.c: memmove moves overlapping regions, in words or in bytes, as
\* if through a copy; no copy writes outside the bytes it was given, and
\* strlcpy always leaves room for its 0; the comparisons order by unsigned
\* characters; the searches stop at the end of the string or region.
StringsExact == MovesAll /\ CopiesFit /\ Compares /\ Finds

-----------------------------------------------------------------------------
(***************************************************************************)
(* Printing                                                                *)
(***************************************************************************)
Written(n) == IF n = 0 THEN <<>> ELSE <<Digit[n + 1]>>

\* A number in some base, in a field, and a character behind it.
PrintNumbers ==
    /\ Calling
    /\ \E v \in Values, c \in {"d", "u", "o", "x", "p"}, w \in Widths,
         flag \in {<<>>, <<"0">>, <<"-">>}, star \in BOOLEAN,
         long \in Upto({"l"}, 2) :
        LET fmt == <<"%">> \o flag \o (IF star THEN <<"*">> ELSE Written(w))
                     \o long \o <<c, "%", "c">>
            ap  == IF star THEN <<w, v, ";">> ELSE <<v, ";">>
        IN  call' = [op |-> "number", v |-> v, c |-> c, w |-> w, flag |-> flag,
                     long |-> Len(long), text |-> vprintfmt(fmt, 1, ap)]

Strs == {NULL, <<>>, <<"a">>, <<"a", "\n", "b">>}

PrintStrings ==
    /\ Calling
    /\ \E s \in Strs, w, p \in Widths, left, alt \in BOOLEAN, n \in 0 .. 4 :
        LET fmt  == <<"%">> \o (IF left THEN <<"-">> ELSE <<>>)
                      \o (IF alt THEN <<"#">> ELSE <<>>) \o Written(w)
                      \o (IF p = 0 THEN <<>> ELSE <<".">> \o Written(p))
                      \o <<"s", "%", "e">>
            text == vprintfmt(fmt, 1, <<s, -4>>)
        IN  call' = [op |-> "string", s |-> s, w |-> w, p |-> p, left |-> left,
                     alt |-> alt, n |-> n, text |-> text,
                     kept |-> vsnprintf(n, text), out |-> vcprintf(4, text)]

\* Formats of escapes that nobody knows.
PrintUnknown ==
    /\ Calling
    /\ \E fmt \in Upto({"%", "2", "-", "q"}, MaxFormat) :
        call' = [op |-> "unknown", fmt |-> fmt, text |-> vprintfmt(fmt, 1, <<>>)]

PrintErrors ==
    /\ Calling
    /\ \E e \in -12 .. 12 :
        call' = [op |-> "error", e |-> e, text |-> vprintfmt(<<"%", "e">>, 1, <<e>>)]

Base(c) == CASE c \in {"d", "u"} -> 10 [] c = "o" -> 8 [] c \in {"x", "p"} -> 16

\* The number that the conversion is to show: the argument as an int, a long
\* long, a pointer, with or without a sign.
Shown(c, v, long) ==
    LET m == IF long = 2 /\ c # "p" THEN ULLONG ELSE UINT
    IN  IF c = "d" THEN ((v + m \div 2) % m) - m \div 2 ELSE v % m

Abs(n) == IF n < 0 THEN -n ELSE n

\* The number of digits of n.
Size(n, base) == CHOOSE k \in 1 .. 9 : n < base ^ k /\ (k = 1 \/ n >= base ^ (k - 1))

\* What stands before the digits and their padding.
Prefix(c, num) ==
    IF c = "p" THEN <<"0", "x">> ELSE IF num < 0 THEN <<"-">> ELSE <<>>

Fill(c, n) == [k \in 1 .. Max({n, 0}) |-> c]

\* The sign or 0x, the padding, the digits: the width is that of the padded
\* digits.  With the flag "-", what fills the field is left open.
NumbersReadBack ==
    call.op = "number" =>
        LET body == Front(call.text)
            num  == Shown(call.c, call.v, call.long)
            base == Base(call.c)
            size == Size(Abs(num), base)
            pre  == Prefix(call.c, num)
            fill == SubSeq(body, Len(pre) + 1, Len(body) - size)
            tail == SubSeq(body, Len(body) - size + 1, Len(body))
        IN  /\ Last(call.text) = ";"
            /\ IsPrefix(pre, body)
            /\ Len(fill) = Max({call.w - size, 0})
            /\ call.flag # <<"-">> =>
                  fill = Fill(IF call.flag = <<"0">> THEN "0" ELSE " ", Len(fill))
            /\ strtol(tail, base) = [val |-> Abs(num), end |-> size + 1]

\* lib/printfmt.c, line 109: with the flag "-", the padding is on the right, so
\* that the digits follow the sign or 0x at once.  This does not hold for
\* numbers: printnum pads on the left only, with the flag's own character.
PadsOnRight ==
    call.op = "number" /\ call.flag = <<"-">> =>
        LET num  == Shown(call.c, call.v, call.long)
            rest == SubSeq(call.text, Len(Prefix(call.c, num)) + 1, Len(call.text) - 1)
        IN  strtol(rest, Base(call.c)) =
                [val |-> Abs(num), end |-> Size(Abs(num), Base(call.c)) + 1]

StringsInField ==
    call.op = "string" =>
        LET full == IF call.s = NULL THEN <<"(", "n", "u", "l", "l", ")">> ELSE call.s
            cut  == IF call.p = 0 THEN full ELSE Cut(full, call.p)
            show == [k \in DOMAIN cut |->
                       IF call.alt /\ cut[k] = "\n" THEN "?" ELSE cut[k]]
            fill == Fill(" ", call.w - Len(show))
        IN  /\ call.text = (IF call.left THEN show \o fill ELSE fill \o show)
                              \o <<"out of memory">>
            /\ call.out = [sent |-> call.text, cnt |-> Len(call.text)]
            /\ call.n > 0 =>
                  call.kept = [buf |-> Append(Cut(call.text, call.n - 1), ""),
                               cnt |-> Len(call.text)]

\* No escape of the format ends in a second "%".
Plain(fmt) ==
    \A j, k \in DOMAIN fmt :
        j < k /\ fmt[j] = "%" /\ fmt[k] = "%"
            => \E i \in j + 1 .. k - 1 : fmt[i] = "q"

UnknownAsIs == call.op = "unknown" /\ Plain(call.fmt) => call.text = call.fmt

ErrorsNamed ==
    call.op = "error" =>
        (Len(call.text) = 1) <=> Abs(call.e) \in (1 .. 9) \ {7}

\* lib/printfmt.c: the digits that vprintfmt prints for a number read back as
\* its magnitude after the conversion to the type that the l flags name, the
\* smallest number included; before them stand the sign or 0x and the padding
\* of the digits to the width, the sign and 0x not counted (what the flag "-"
\* is meant to do to numbers is PadsOnRight).  A string, for which the head comment promises no field, is cut to
\* its precision and padded on the side that the flag names; escapes that
\* nobody knows come out as they stand; errors have a text whatever their
\* sign; vsnprintf keeps what fits and counts the rest, and the user's
\* cprintf sends everything in order.
FormatExact ==
    NumbersReadBack /\ StringsInField /\ UnknownAsIs /\ ErrorsNamed

-----------------------------------------------------------------------------
(***************************************************************************)
(* Stabs                                                                   *)
(***************************************************************************)
\* Tables with the wanted type at the positions of w that are not 0.
Binsearch ==
    /\ Calling
    /\ \E n \in 1 .. MaxStabs, left \in 0 .. 1, addr \in 1 .. 7 :
       \E w \in [0 .. n - 1 -> {0, 2, 3, 4, 6}] :
        /\ \A j, k \in 0 .. n - 1 : j < k /\ 0 \notin {w[j], w[k]} => w[j] <= w[k]
        /\ LET stabs == [k \in 0 .. n - 1 |->
                           [type |-> IF w[k] = 0 THEN "PSYM" ELSE "FUN", value |-> w[k]]]
           IN  call' = [op |-> "binsearch", stabs |-> stabs, left |-> left,
                        right |-> n - 1, addr |-> addr,
                        ret |-> stab_binsearch(stabs, left, n - 1, "FUN", addr)]

\* A table as the compiler writes it, from the types of its stabs: some bytes
\* of code for each line, functions and files where the code is, lines of a
\* function relative to its start.  The code of a line is four bytes long, or
\* one when its stab is in short; the name of stab lost is outside of the
\* string table.
Where(tb, k) ==
    100 + MapThenSumSet(LAMBDA j : IF j \in tb.short THEN 1 ELSE 4,
                        {j \in 0 .. k - 1 : tb.ty[j] = "SLINE"})

\* The function or file that stab k belongs to.
Owner(ty, k) == Max({j \in 0 .. k : ty[j] \in {"FUN", "SO"}})

Stabs(tb) ==
    [k \in DOMAIN tb.ty |->
        [type  |-> tb.ty[k],
         named |-> k # tb.lost,
         value |-> CASE tb.ty[k] \in {"SO", "FUN"} -> Where(tb, k)
                     [] tb.ty[k] = "SLINE" ->
                          LET own == Owner(tb.ty, k)
                          IN  Where(tb, k)
                                - (IF tb.ty[own] = "FUN" THEN Where(tb, own) ELSE 0)
                     [] OTHER -> 0]]

FileOf(ty, k) == Max({j \in 0 .. k : ty[j] = "SO"})

\* A function starts with its arguments and its first line; a file has its
\* lines in functions, or has no function.
Wellformed(ty) ==
    /\ \A k \in DOMAIN ty : ty[k] = "FUN" =>
          \E j \in DOMAIN ty : /\ j > k /\ ty[j] = "SLINE"
                               /\ \A i \in k + 1 .. j - 1 : ty[i] = "PSYM"
    /\ \A j, k \in DOMAIN ty : ty[j] = "SLINE" /\ ty[k] = "FUN" /\ j < k
          => FileOf(ty, j) # FileOf(ty, k) \/ ty[Owner(ty, j)] = "FUN"

\* A user's table can be in pages that the user cannot read, or have no proper
\* string table.
UserTables ==
    {[KernelTable EXCEPT !.user = TRUE, !.header = h, !.stabs = s, !.strings = t,
                         !.terminated = z] : h, s, t, z \in BOOLEAN}

\* Look up an address of the code of a table: any table of the kernel with at
\* most one line of one byte, or a short one of a user.
Debuginfo ==
    /\ Calling
    /\ \E more \in Upto({"SO", "FUN", "PSYM", "SLINE", "SOL"}, MaxTypes) :
        LET n  == Len(more) + 2
            ty == [k \in 0 .. n - 1 |->
                     CASE k = 0 -> "UNDF" [] k = 1 -> "SO" [] OTHER -> more[k - 1]]
            lines == {k \in DOMAIN ty : ty[k] = "SLINE"}
        IN  /\ Wellformed(ty)
            /\ \E short \in {{}} \cup {{k} : k \in lines}, lost \in {0, n - 1},
                 from \in {KernelTable} \cup (IF Len(more) <= 3 THEN UserTables ELSE {}) :
                LET tb == [ty |-> ty, short |-> short, lost |-> lost]
                IN  \E addr \in 100 .. Where(tb, n) - 1 :
                      call' = [op |-> "debuginfo", tb |-> tb, addr |-> addr,
                               from |-> from,
                               info |-> debuginfo_eip(from, Stabs(tb), addr)]

\* The region of addr; or, when stabs of the type start at addr and at the
\* bytes behind it, the region from one of those on.  An address before all
\* stabs of the type gets what stands before the first of them.
BinsearchFinds ==
    call.op = "binsearch" =>
        LET S == {k \in call.left .. call.right : call.stabs[k].type = "FUN"}
            V == {call.stabs[k].value : k \in S}
        IN  CASE S = {} -> call.ret.left > call.ret.right
              [] S # {} /\ \A v \in V : v > call.addr ->
                   /\ call.ret.right = Min(S) - 1
                   /\ call.ret.left = Min({call.left, call.ret.right})
              [] {call.addr, call.addr + 1} \subseteq V ->
                   \E k \in S : /\ call.addr .. call.stabs[k].value \subseteq V
                                /\ call.addr <= call.stabs[k].value
                                /\ call.ret = RegionFrom(call.stabs, k, call.right, "FUN")
              [] OTHER ->
                   call.ret = Region(call.stabs, call.left, call.right, "FUN", call.addr)

\* kern/kdebug.c, lines 39-41: *region_left points to the stab of the type
\* that contains the address and *region_right before the next one.  This does
\* not hold: after an exact match the search goes on for addr + 1, and takes a
\* stab that starts there for the match.
RegionContainsAddress ==
    call.op = "binsearch"
    /\ Starts(call.stabs, call.left, call.right, "FUN", call.addr) # {} =>
        call.ret = Region(call.stabs, call.left, call.right, "FUN", call.addr)

\* kern/kdebug.c, lines 41-43: an address that no stab of the type contains is
\* reported by *region_left > *region_right.  This does not hold when all of
\* them start behind the address: any_matches is set by the ones looked at.
AbsenceReported ==
    call.op = "binsearch"
    /\ Starts(call.stabs, call.left, call.right, "FUN", call.addr) = {} =>
        call.ret.left > call.ret.right

\* The last line that starts at or before the address.
LineOf(tb, addr) ==
    Max({k \in DOMAIN tb.ty : tb.ty[k] = "SLINE" /\ Where(tb, k) <= addr})

Readable(from) == from.header /\ from.stabs /\ from.strings /\ from.terminated

\* Where the line is longer than a byte; RegionContainsAddress tells why.
DebuginfoRight ==
    call.op = "debuginfo" /\ LineOf(call.tb, call.addr) \notin call.tb.short =>
        LET ty   == call.tb.ty
            info == call.info
            line == LineOf(call.tb, call.addr)
            own  == Owner(ty, line)
            file == Max({k \in 0 .. line : ty[k] \in {"SO", "SOL"}})
            name(k) == IF k = call.tb.lost THEN -1 ELSE k
        IN  IF ~Readable(call.from) THEN info.ret # 0 /\ info.fn = -1 /\ info.line = -1
            ELSE /\ ~info.destroyed
                 /\ info.fn = IF ty[own] = "FUN" THEN name(own) ELSE -1
                 /\ line + 1 \notin DOMAIN ty \/ ty[line + 1] \in {"SLINE", "FUN", "SO"}
                       => info.ret = 0
                 /\ info.ret = 0 =>
                      /\ info.line = line
                      /\ info.file = name(file)
                      /\ ty[own] = "FUN" =>
                           /\ \A k \in own + 1 .. own + info.narg : ty[k] = "PSYM"
                           /\ ty[own + info.narg + 1] # "PSYM"

\* kern/kdebug.c, lines 204-206: the line number is found for every address
\* of a line, longer than a byte, of a readable table.  This does not hold:
\* the test is whether the region is one stab long, so a stab of another type
\* behind the line (a variable, an included file) loses it.
EveryLineFound ==
    call.op = "debuginfo" /\ Readable(call.from)
    /\ LineOf(call.tb, call.addr) \notin call.tb.short => call.info.ret = 0

\* kern/kdebug.c: the search finds the region that contains the address, or
\* one that starts right behind an exact match, also with equal values, and
\* what stands before the first stab when all start behind the address;
\* debuginfo_eip names the function of every address of a table as compilers
\* write it, and of no unreadable one; what it says of the line, the file and
\* the number of arguments is right whenever it says it, and it does when no
\* other stab stands in the region of the line.
StabExact == BinsearchFinds /\ DebuginfoRight

-----------------------------------------------------------------------------
(***************************************************************************)
(* Memory and the boot loader                                              *)
(***************************************************************************)
mem_init ==
    /\ Calling
    /\ \E mc \in Machines :
        call' = [op |-> "mem_init", mc |-> mc,
                 free |-> FreeBase(mc) \cup FreeExt(mc),
                 tables |-> EarlyTables(mc), regions |-> Regions(mc)]

FreePagesUnused ==
    \A p \in call.free :
        /\ p \notin {0, MPENTRY} /\ p < npages(call.mc)
        /\ p \notin IOPHYSMEM .. nextfree(call.mc) - 1

EarlyPagesReached ==
    \A p \in call.tables \cup kern_pgdir(call.mc) .. nextfree(call.mc) - 1 :
        EntryReaches(p)

\* Two regions that share a virtual page, the last mapping of which counts,
\* are the boot stack and the stack of processor 0.
RegionsApart ==
    \A i, j \in DOMAIN call.regions :
        LET r == call.regions[i]
            s == call.regions[j]
        IN  /\ i < j /\ r.va < s.va + s.n /\ s.va < r.va + r.n => i = 3 /\ j = 5
            /\ r.user <=> r.va + r.n <= ULIM
            /\ r.va \in {UPAGES, UENVS} => r.n <= PTSIZE
            /\ r.va < KERNBASE /\ ~r.user => r.va - KSTKGAP >= MMIOLIM

\* kern/pmap.c: page_init frees no page that holds page 0, the entry code of
\* the other processors, the IO hole, the kernel or the arrays behind it;
\* what mem_init writes before it loads cr3 (the arrays, and the page tables
\* it takes from the sorted free list) is inside the 4 MB that the entry page
\* tables map; and the fixed regions do not overlap, with the guard pages
\* below the stacks outside the MMIO window.
LayoutSound ==
    call.op = "mem_init" => FreePagesUnused /\ EarlyPagesReached /\ RegionsApart

SECT == 4

\* The header is read to 0; two segments behind it, one after the other.
Load ==
    /\ Calling
    /\ \E magic \in BOOLEAN, pa1 \in 32 .. 36, n1, gap, n2 \in 1 .. 6, k1, k2 \in 8 .. 10 :
        LET pa2  == pa1 + n1 + gap - 1
            ph1  == [pa |-> pa1, memsz |-> n1, offset |-> k1 * SECT + (pa1 % SECT)]
            ph2  == [pa |-> pa2, memsz |-> n2, offset |-> k2 * SECT + (pa2 % SECT)]
        IN  call' = [op |-> "bootmain", magic |-> magic, phs |-> <<ph1, ph2>>,
                     ret |-> bootmain([a \in 0 .. 63 |-> -1],
                                      [magic |-> magic, phs |-> <<ph1, ph2>>], 0, SECT)]

Loaded(ph) ==
    \A b \in 0 .. ph.memsz - 1 : call.ret.mem[ph.pa + b] = SECT + ph.offset + b

\* Two segments share no sector of memory, or are one piece of the file.
SectorsApart(ph1, ph2) ==
    \/ (ph1.pa + ph1.memsz - 1) \div SECT < ph2.pa \div SECT
    \/ ph1.offset - ph1.pa = ph2.offset - ph2.pa

\* boot/main.c: when the kernel is entered, every byte of every segment is
\* the byte of the image (which starts in the sector behind the loader) that
\* its program header names, although whole sectors were read: the last
\* segment whatever the others are, all of them when no two share a sector
\* of memory with different places of the file.
SegmentsLoaded ==
    call.op = "bootmain" /\ call.ret.entered =>
        /\ Loaded(call.phs[2])
        /\ SectorsApart(call.phs[1], call.phs[2]) => Loaded(call.phs[1])

\* boot/main.c, lines 84-86: writing more to memory than asked does not
\* matter, because segments are loaded in increasing order.  This does not
\* hold: rounding down, the later segment overwrites the end of the earlier
\* one in the sector that they share.
MoreDoesNotMatter ==
    call.op = "bootmain" /\ call.ret.entered =>
        \A i \in DOMAIN call.phs : Loaded(call.phs[i])

-----------------------------------------------------------------------------
Return ==
    /\ ~Calling
    /\ call' = Idle

Next == \/ Move \/ CallStrings \/ CallFind
        \/ PrintNumbers \/ PrintStrings \/ PrintUnknown \/ PrintErrors
        \/ Binsearch \/ Debuginfo \/ mem_init \/ Load \/ Return

Spec == Init /\ [][Next]_call
=============================================================================
