------------------------------- MODULE Kdebug --------------------------------
(***************************************************************************)
(* kern/kdebug.c: finding the file, the function and the line of an        *)
(* address in a table of stabs, a function from 0 .. n-1 to records with a *)
(* type and a value.  What is found is named by the index of its stab.     *)
(***************************************************************************)
EXTENDS Integers, FiniteSets, FiniteSetsExt

RECURSIVE Search(_, _, _)

\* The loop of stab_binsearch; s is the record of its local variables.
\* The middle is moved down to the nearest stab of the type.
Search(stabs, type, s) ==
    LET mid == (s.l + s.r) \div 2
        M   == {k \in s.l .. mid : stabs[k].type = type}
        m   == Max(M)
        hit == [s EXCEPT !.any = TRUE]
    IN  IF s.l > s.r THEN s
        ELSE IF M = {} THEN Search(stabs, type, [s EXCEPT !.l = mid + 1])
        ELSE CASE stabs[m].value < s.addr ->
                    Search(stabs, type, [hit EXCEPT !.left = m, !.l = mid + 1])
               [] stabs[m].value > s.addr ->
                    Search(stabs, type, [hit EXCEPT !.right = m - 1, !.r = m - 1])
               [] stabs[m].value = s.addr ->
                    Search(stabs, type,
                           [hit EXCEPT !.left = m, !.l = m, !.addr = @ + 1])

\* Mutant: the search does not look for the end of the region.
MutStopsEarly(stabs, left, right, type, addr) ==
    LET s == Search(stabs, type, [l |-> left, r |-> right, left |-> left,
                                  right |-> right, any |-> FALSE, addr |-> addr])
    IN  [left |-> s.left, right |-> IF s.any THEN right ELSE s.left - 1]

stab_binsearch(stabs, left, right, type, addr) ==
    LET s == Search(stabs, type, [l |-> left, r |-> right, left |-> left,
                                  right |-> right, any |-> FALSE, addr |-> addr])
        rightmost == IF s.right <= s.left THEN s.right
                     ELSE Max({s.left} \cup {k \in s.left + 1 .. s.right :
                                                stabs[k].type = type})
    IN  IF s.any THEN [left |-> rightmost, right |-> s.right]
        ELSE [left |-> s.left, right |-> s.left - 1]

\* Where the table comes from: the kernel's own, or through UserStabData at
\* USTABDATA, whose page, stabs and strings the environment may be able to
\* read or not.  A string table is terminated when it is not empty and its
\* last byte is 0.
KernelTable == [user |-> FALSE, header |-> TRUE, stabs |-> TRUE, strings |-> TRUE,
                terminated |-> TRUE]

\* debuginfo_eip, for an address in the space from.  -1 stands for
\* "<unknown>" and for no line.  A name is taken only when its string is
\* inside the string table (stabs[k].named); a line is found only when its
\* region is one stab long.  When the environment is destroyed,
\* user_mem_assert does not return and there is no answer.
debuginfo_eip(from, stabs, addr) ==
    LET none  == [ret |-> -1, fn |-> -1, fn_addr |-> addr, line |-> -1,
                  file |-> -1, narg |-> 0, destroyed |-> FALSE]
        name(k) == IF stabs[k].named THEN k ELSE -1
        file  == stab_binsearch(stabs, 0, Cardinality(DOMAIN stabs) - 1, "SO", addr)
        fun   == stab_binsearch(stabs, file.left, file.right, "FUN", addr)
        infun == fun.left <= fun.right
        base  == IF infun THEN stabs[fun.left].value ELSE 0
        area  == IF infun THEN fun ELSE file
        line  == stab_binsearch(stabs, area.left, area.right, "SLINE", addr - base)
        names == {k \in file.left .. line.left :
                     \/ stabs[k].type = "SOL"
                     \/ stabs[k].type = "SO" /\ stabs[k].value # 0}
        other == {k \in fun.left + 1 .. fun.right : stabs[k].type # "PSYM"}
                     \cup {fun.right}
        found == [none EXCEPT !.fn = IF infun THEN name(fun.left) ELSE -1,
                              !.fn_addr = IF infun THEN base ELSE addr]
    IN  CASE from.user /\ ~from.header -> none
          [] from.user /\ from.header /\ ~(from.stabs /\ from.strings) ->
               [none EXCEPT !.destroyed = TRUE]
          [] OTHER ->
               IF ~from.terminated \/ file.left = 0 THEN none
               ELSE IF line.left # line.right THEN found
               ELSE [found EXCEPT
                       !.ret = 0, !.line = line.left,
                       !.file = IF names = {} THEN -1 ELSE name(Max(names)),
                       !.narg = IF fun.left < fun.right
                                THEN Min(other) - fun.left - 1 ELSE 0]

-----------------------------------------------------------------------------
(***************************************************************************)
(* The region that contains an address, from the comment on                *)
(* stab_binsearch: its first stab is the last of the type that does not    *)
(* start behind the address, and it ends before the next of the type.      *)
(***************************************************************************)
Starts(stabs, left, right, type, addr) ==
    {k \in left .. right : stabs[k].type = type /\ stabs[k].value <= addr}

\* The region that starts with a stab.
RegionFrom(stabs, first, right, type) ==
    [left  |-> first,
     right |-> Min({k \in first + 1 .. right : stabs[k].type = type}
                      \cup {right + 1}) - 1]

Region(stabs, left, right, type, addr) ==
    RegionFrom(stabs, Max(Starts(stabs, left, right, type, addr)), right, type)
=============================================================================
