----------------------------- MODULE ForkProofs -----------------------------
(***************************************************************************)
(* Proofs about module Fork, for any number of environments, pages and     *)
(* values: sharing pages copy-on-write (or copying them one at a time) is  *)
(* invisible to programs.                                                  *)
(***************************************************************************)
EXTENDS Fork, TLAPS

-----------------------------------------------------------------------------
(***************************************************************************)
(* The inductive invariant                                                 *)
(***************************************************************************)
ForkSteps == {"set", "dup1", "dup2", "xstack", "upcall"}
DumbSteps == {"dalloc", "dmap", "dcopy", "dunmap"}
IdleSteps == {"user", "set", "exofork", "child"}
Steps == ForkSteps \cup DumbSteps \cup IdleSteps \cup {"status"}

ForkTypeOK ==
    /\ program \in {"fork", "dumbfork"}
    /\ pp \in [Slot -> SUBSET Slot]
    /\ perm \in [Slot -> Perm]
    /\ content \in [Slot -> Value \cup {Junk}]
    /\ status \in [Env -> {"free", "new", "run", "panic"}]
    /\ parent \in [Env -> Env \cup {NoEnv}]
    /\ pc \in [Env -> Steps]
    /\ kid \in [Env -> Env \cup {NoEnv}]
    /\ pos \in [Env -> 1 .. 3]
    /\ fault \in [Env -> {NoFault} \cup
                           [va : Location, at : {"alloc", "copy", "map", "unmap"}]]

\* The entries that map a page name it consistently and agree on what it holds.
PagesOK ==
    \A s \in Slot :
        /\ perm[s] = "none" <=> pp[s] = {}
        /\ pp[s] # {} => s \in pp[s]
        /\ \A t \in pp[s] : pp[t] = pp[s] /\ content[t] = content[s]

\* While e handles a fault or copies a page for dumbfork, PFTEMP (UTEMP) shares
\* the page of another entry t.
Temporary(e, s, t) ==
    /\ s = <<e, "temp">>
    /\ \/ fault[e].at = "unmap" /\ t = <<e, fault[e].va>>
       \/ pc[e] \in {"dcopy", "dunmap"} /\ t = Theirs(e)

\* Entry s, which is writable, shares its page with t for the moment, on
\* account of e.
Joint(e, s, t) ==
    \/ Temporary(e, s, t)
    \/ Temporary(e, t, s)
    \/ pc[e] = "dup2" /\ s = Ours(e) /\ t = Theirs(e)

\* A writable page is mapped once, but for the moments above.
Exclusive ==
    \A s \in Slot : \A t \in pp[s] :
        perm[s] = "w" /\ s # t => \E e \in Env : Joint(e, s, t)

\* Who builds whom, and at which steps.
ControlOK(e) ==
    /\ status[e] = "free" => pc[e] = "user"
    /\ status[e] = "new" => pc[e] = "child"
    /\ status[e] \in {"free", "new"} => fault[e] = NoFault
    /\ kid[e] = NoEnv <=> pc[e] \in IdleSteps
    /\ kid[e] # NoEnv => status[kid[e]] = "new" /\ parent[kid[e]] = e
    /\ pc[e] \in ForkSteps => program = "fork"
    /\ pc[e] \in DumbSteps => program = "dumbfork"
    /\ fault[e] # NoFault => program = "fork"

\* The page fault handler's progress: PFTEMP is a page to write, then a copy
\* of the faulting page, then the same page.
FaultOK(e) ==
    /\ fault[e].at \in {"copy", "map", "unmap"} => perm[<<e, "temp">>] = "w"
    /\ fault[e].at \in {"map", "unmap"} =>
         content[<<e, "temp">>] = content[<<e, fault[e].va>>]
    /\ fault[e].at = "unmap" => perm[<<e, fault[e].va>>] = "w"

\* The page that fork or dumbfork is at.
BuildOK(e) ==
    /\ pc[e] = "dup2" => perm[Theirs(e)] \in {"r", "cow"}
    /\ pc[e] = "dmap" => perm[Theirs(e)] = "w"
    /\ pc[e] \in {"dcopy", "dunmap"} =>
         perm[<<e, "temp">>] = "w" /\ Theirs(e) \in pp[<<e, "temp">>]

\* Page number i of the walk is done.
Done(e, i) ==
    \/ i < pos[e]
    \/ i = pos[e] /\ pc[e] \in {"dup2", "dunmap"}
    \/ pc[e] \in {"xstack", "upcall", "status"}

\* The child under construction has, page by page, what the parent has.
CopiedOK(e) ==
    kid[e] # NoEnv =>
        \A i \in 1 .. 3 :
            Done(e, i) => content[<<kid[e], Walk[i]>>] = content[<<e, Walk[i]>>]

\* Only fork makes pages copy-on-write.
CowOnlyInFork == \A s \in Slot : perm[s] = "cow" => program = "fork"

EnvOK(e) == ControlOK(e) /\ FaultOK(e) /\ BuildOK(e) /\ CopiedOK(e)

ForkInv ==
    /\ ForkTypeOK
    /\ PagesOK
    /\ Exclusive
    /\ CowOnlyInFork
    /\ \A e \in Env : EnvOK(e)

-----------------------------------------------------------------------------
(***************************************************************************)
(* Entries and the walk.                                                   *)
(***************************************************************************)

\* The walk visits three different pages, none of them a temporary one.
LEMMA WalkFacts ==
  /\ Location = {"text", "data", "stack"}
  /\ Va = {"text", "data", "stack", "xstack", "temp"}
  /\ Len(Walk) = 3
  /\ \A i \in 1 .. 3 : Walk[i] \in Location
  /\ \A i, j \in 1 .. 3 : Walk[i] = Walk[j] => i = j
  /\ \A va \in Location : \E i \in 1 .. 3 : Walk[i] = va
  <1>1. /\ DOMAIN Walk = 1 .. 3 /\ Len(Walk) = 3
        /\ Walk[1] = "text" /\ Walk[2] = "data" /\ Walk[3] = "stack"
    BY DEF Walk
  <1>2. \A i \in 1 .. 3 : i = 1 \/ i = 2 \/ i = 3
    OBVIOUS
  <1>3. 1 \in 1 .. 3 /\ 2 \in 1 .. 3 /\ 3 \in 1 .. 3
    OBVIOUS
  <1>4. Location = {"text", "data", "stack"}
    BY <1>1, <1>2, <1>3 DEF Location
  <1> QED BY <1>1, <1>2, <1>3, <1>4 DEF Va

\* An entry is an environment and an address.
LEMMA SlotFacts ==
  /\ \A e \in Env, va \in Va : <<e, va>> \in Slot
  /\ \A s \in Slot : s[1] \in Env /\ s[2] \in Va /\ s = <<s[1], s[2]>>
  BY DEF Slot

-----------------------------------------------------------------------------
(***************************************************************************)
(* What the system calls and a store do to the entries.                    *)
(***************************************************************************)

MemTypeOK ==
    /\ pp \in [Slot -> SUBSET Slot]
    /\ perm \in [Slot -> Perm]
    /\ content \in [Slot -> Value \cup {Junk}]

\* Only the entries in D change, and the sharing with them.
Edits(D) ==
    /\ \A t \in Slot \ D : perm'[t] = perm[t] /\ content'[t] = content[t]
    /\ \A s, t \in Slot \ D : t \in pp'[s] <=> t \in pp[s]

\* Taking entry d out of every page leaves the pages of the others named
\* consistently.
LEMMA DetachPages ==
  ASSUME MemTypeOK, PagesOK, NEW d, NEW s \in Slot, s # d,
         \A t \in Slot \ {d} : /\ pp'[t] = pp[t] \ {d}
                              /\ perm'[t] = perm[t] /\ content'[t] = content[t]
  PROVE  /\ perm'[s] = "none" <=> pp'[s] = {}
         /\ pp'[s] # {} => s \in pp'[s]
         /\ \A t \in pp'[s] : pp'[t] = pp'[s] /\ content'[t] = content'[s]
  <1>1. pp[s] \subseteq Slot BY DEF MemTypeOK
  <1>2. /\ perm[s] = "none" <=> pp[s] = {}
        /\ pp[s] # {} => s \in pp[s]
        /\ \A t \in pp[s] : pp[t] = pp[s] /\ content[t] = content[s]
    BY DEF PagesOK
  <1>3. pp'[s] = pp[s] \ {d} /\ perm'[s] = perm[s] /\ content'[s] = content[s]
    OBVIOUS
  <1>4. ASSUME NEW t \in pp'[s] PROVE pp'[t] = pp'[s] /\ content'[t] = content'[s]
    <2>1. t \in pp[s] /\ t \in Slot \ {d} BY <1>1, <1>3
    <2> QED BY <1>2, <1>3, <2>1
  <1>5. perm'[s] = "none" <=> pp'[s] = {} BY <1>2, <1>3
  <1>6. pp'[s] # {} => s \in pp'[s] BY <1>2, <1>3
  <1> QED BY <1>4, <1>5, <1>6

\* sys_page_alloc gives the entry a page of its own.
LEMMA AllocEdits ==
  ASSUME MemTypeOK, PagesOK, NEW d \in Slot, sys_page_alloc(d)
  PROVE  /\ MemTypeOK' /\ PagesOK' /\ Edits({d})
         /\ pp'[d] = {d} /\ perm'[d] = "w"
  <1>1. \A t \in Slot : pp'[t] = IF t = d THEN {d} ELSE pp[t] \ {d}
    BY DEF sys_page_alloc, Unmap, MemTypeOK
  <1>2. \A t \in Slot : /\ perm'[t] = IF t = d THEN "w" ELSE perm[t]
                        /\ content'[t] = IF t = d THEN Junk ELSE content[t]
    BY DEF sys_page_alloc, MemTypeOK
  <1>3. MemTypeOK'
    BY DEF sys_page_alloc, Unmap, MemTypeOK, Perm
  <1>4. PagesOK'
    <2>1. ASSUME NEW s \in Slot
          PROVE  /\ perm'[s] = "none" <=> pp'[s] = {}
                 /\ pp'[s] # {} => s \in pp'[s]
                 /\ \A t \in pp'[s] : pp'[t] = pp'[s] /\ content'[t] = content'[s]
      <3>1. CASE s = d BY <1>1, <1>2, <3>1
      <3>2. CASE s # d BY <1>1, <1>2, <3>2, DetachPages
      <3> QED BY <3>1, <3>2
    <2> QED BY <2>1 DEF PagesOK
  <1> QED BY <1>1, <1>2, <1>3, <1>4 DEF Edits

\* sys_page_map makes the entry dst share the page of src.
LEMMA MapEdits ==
  ASSUME MemTypeOK, PagesOK, NEW src \in Slot, NEW dst \in Slot, src # dst,
         NEW pm \in {"r", "w", "cow"}, sys_page_map(src, dst, pm)
  PROVE  /\ MemTypeOK' /\ PagesOK' /\ Edits({dst})
         /\ pp'[dst] = pp[src] \cup {dst}
         /\ perm'[dst] = pm /\ content'[dst] = content[src]
  <1> DEFINE all == (pp[src] \ {dst}) \cup {dst}
  <1>1. \A t \in Slot : pp'[t] = IF t \in all THEN all ELSE pp[t] \ {dst}
    BY DEF sys_page_map, Unmap, MemTypeOK
  <1>2. \A t \in Slot : /\ perm'[t] = IF t = dst THEN pm ELSE perm[t]
                        /\ content'[t] = IF t = dst THEN content[src] ELSE content[t]
    BY DEF sys_page_map, MemTypeOK
  <1>3. MemTypeOK'
    BY DEF sys_page_map, Unmap, MemTypeOK, Perm
  <1>4. all \subseteq Slot BY DEF MemTypeOK
  <1>5. \A t \in all \ {dst} : t \in Slot /\ perm[t] # "none" /\ content[t] = content[src] /\ pp[t] = pp[src]
    BY <1>4 DEF PagesOK
  <1>6. \A s \in Slot \ all : pp[s] \cap all \subseteq {dst}
    <2> SUFFICES ASSUME NEW s \in Slot \ all, NEW t \in pp[s], t \in all, t # dst
                 PROVE  FALSE
      OBVIOUS
    <2>1. pp[t] = pp[src] BY <1>5
    <2>2. pp[t] = pp[s] /\ s \in pp[s] BY DEF PagesOK
    <2> QED BY <2>1, <2>2
  <1>7. PagesOK'
    <2>1. ASSUME NEW s \in Slot
          PROVE  /\ perm'[s] = "none" <=> pp'[s] = {}
                 /\ pp'[s] # {} => s \in pp'[s]
                 /\ \A t \in pp'[s] : pp'[t] = pp'[s] /\ content'[t] = content'[s]
      <3>1. CASE s \in all
        <4> HIDE DEF all
        <4>1. pp'[s] = all BY <1>1, <3>1
        <4>2. perm'[s] # "none" BY <1>2, <1>5, <3>1
        <4>3. \A t \in all : t \in Slot BY <1>4
        <4>4. \A t \in all : pp'[t] = all BY <1>1, <4>3
        <4>5. \A t \in all : content'[t] = content[src] BY <1>2, <1>5, <4>3
        <4> QED BY <3>1, <4>1, <4>2, <4>4, <4>5
      <3>2. CASE s \notin all
        <4>1. pp'[s] = pp[s] \ {dst} /\ s # dst /\ perm'[s] = perm[s] /\ content'[s] = content[s]
          BY <1>1, <1>2, <3>2
        <4>2. \A t \in pp[s] \ {dst} :
                 t \in Slot /\ t \notin all /\ pp[t] = pp[s] /\ content[t] = content[s]
          BY <1>6, <3>2 DEF PagesOK, MemTypeOK
        <4>3. \A t \in pp[s] \ {dst} : pp'[t] = pp[t] \ {dst} /\ content'[t] = content[t]
          BY <1>1, <1>2, <4>2
        <4>4. \A t \in pp'[s] : pp'[t] = pp'[s] /\ content'[t] = content'[s]
          BY <4>1, <4>2, <4>3
        <4>5. /\ perm[s] = "none" <=> pp[s] = {}
              /\ pp[s] # {} => s \in pp[s]
          BY DEF PagesOK
        <4> QED BY <4>1, <4>4, <4>5
      <3> QED BY <3>1, <3>2
    <2> QED BY <2>1 DEF PagesOK
  <1>8. Edits({dst})
    <2>1. ASSUME NEW s \in Slot \ {dst}, NEW t \in Slot \ {dst}
          PROVE  t \in pp'[s] <=> t \in pp[s]
      <3>1. CASE s \in all
        <4>1. pp'[s] = all /\ pp[s] = pp[src] BY <1>1, <1>5, <3>1
        <4> QED BY <4>1
      <3>2. CASE s \notin all BY <1>1, <3>2
      <3> QED BY <3>1, <3>2
    <2> QED BY <1>2, <2>1 DEF Edits
  <1> QED BY <1>1, <1>2, <1>3, <1>7, <1>8

\* sys_page_unmap empties the entry.
LEMMA UnmapEdits ==
  ASSUME MemTypeOK, PagesOK, NEW d \in Slot, sys_page_unmap(d)
  PROVE  /\ MemTypeOK' /\ PagesOK' /\ Edits({d})
         /\ pp'[d] = {} /\ perm'[d] = "none"
  <1>1. \A t \in Slot : pp'[t] = IF t = d THEN {} ELSE pp[t] \ {d}
    BY DEF sys_page_unmap, Unmap, MemTypeOK
  <1>2. \A t \in Slot : /\ perm'[t] = IF t = d THEN "none" ELSE perm[t]
                        /\ content'[t] = IF t = d THEN Junk ELSE content[t]
    BY DEF sys_page_unmap, MemTypeOK
  <1>3. MemTypeOK'
    BY DEF sys_page_unmap, Unmap, MemTypeOK, Perm
  <1>4. PagesOK'
    <2>1. ASSUME NEW s \in Slot
          PROVE  /\ perm'[s] = "none" <=> pp'[s] = {}
                 /\ pp'[s] # {} => s \in pp'[s]
                 /\ \A t \in pp'[s] : pp'[t] = pp'[s] /\ content'[t] = content'[s]
      <3>1. CASE s = d
        <4>1. pp'[s] = {} /\ perm'[s] = "none" BY <1>1, <1>2, <3>1
        <4> QED BY <4>1
      <3>2. CASE s # d
        <4>1. \A t \in Slot \ {d} : /\ pp'[t] = pp[t] \ {d}
                                   /\ perm'[t] = perm[t] /\ content'[t] = content[t]
          BY <1>1, <1>2
        <4> QED BY <3>2, <4>1, DetachPages
      <3> QED BY <3>1, <3>2
    <2> QED BY <2>1 DEF PagesOK
  <1> QED BY <1>1, <1>2, <1>3, <1>4 DEF Edits

\* A store changes what all entries that map the page hold.
LEMMA WriteEdits ==
  ASSUME MemTypeOK, PagesOK, NEW s \in Slot, NEW v \in Value \cup {Junk}, Write(s, v)
  PROVE  /\ MemTypeOK' /\ PagesOK' /\ Edits(pp[s])
         /\ UNCHANGED <<pp, perm>>
         /\ \A t \in Slot : content'[t] = IF t \in pp[s] THEN v ELSE content[t]
  <1>1. /\ UNCHANGED <<pp, perm>>
        /\ \A t \in Slot : content'[t] = IF t \in pp[s] THEN v ELSE content[t]
    BY DEF Write
  <1>2. MemTypeOK' BY DEF Write, MemTypeOK
  <1>3. PagesOK' BY <1>1 DEF PagesOK, MemTypeOK
  <1>4. Edits(pp[s]) BY <1>1 DEF Edits
  <1> QED BY <1>1, <1>2, <1>3, <1>4

-----------------------------------------------------------------------------
(***************************************************************************)
(* From a step of one environment to the invariant.                        *)
(***************************************************************************)

\* The step leaves the control state of every environment but e0 alone.
OnlyActs(e0) ==
    /\ program' = program
    /\ \A x \in Env \ {e0} :
         /\ pc'[x] = pc[x] /\ kid'[x] = kid[x] /\ pos'[x] = pos[x]
         /\ fault'[x] = fault[x]
         /\ status'[x] = status[x] /\ parent'[x] = parent[x]

\* Nobody builds a running environment, and nobody has two builders.
LEMMA OneBuilder ==
  ASSUME ForkInv, NEW e \in Env, NEW x \in Env, kid[x] # NoEnv
  PROVE  /\ kid[x] \in Env
         /\ status[kid[x]] = "new"
         /\ kid[x] = kid[e] => x = e
         /\ pc[kid[x]] = "child" /\ kid[kid[x]] = NoEnv /\ fault[kid[x]] = NoFault
  <1>1. kid[x] \in Env /\ EnvOK(x)
    BY DEF ForkInv, ForkTypeOK
  <1>2. EnvOK(kid[x]) /\ EnvOK(e)
    BY <1>1 DEF ForkInv
  <1> QED BY <1>1, <1>2 DEF EnvOK, ControlOK, IdleSteps

\* A page that e0 may write is mapped by e0 and the child it builds only.
LEMMA OwnPages ==
  ASSUME ForkInv, NEW e0 \in Env, status[e0] = "run", NEW va \in Va,
         perm[<<e0, va>>] = "w", NEW t \in pp[<<e0, va>>], t # <<e0, va>>
  PROVE  t \in Slot /\ Joint(e0, <<e0, va>>, t) /\ t[1] \in {e0, kid[e0]}
  <1> DEFINE s == <<e0, va>>
  <1>0. s \in Slot /\ t \in Slot
    BY SlotFacts DEF ForkInv, ForkTypeOK
  <1>1. PICK x \in Env : Joint(x, s, t)
    BY <1>0 DEF ForkInv, Exclusive
  <1>2. x = e0
    <2>1. CASE Temporary(x, s, t) BY <2>1 DEF Temporary
    <2>2. CASE Temporary(x, t, s)
      <3>1. CASE pc[x] \in {"dcopy", "dunmap"} /\ s = Theirs(x)
        <4>1. kid[x] = e0 BY <3>1 DEF Theirs
        <4>2. EnvOK(x) BY DEF ForkInv
        <4>3. kid[x] # NoEnv BY <4>2, <3>1 DEF EnvOK, ControlOK, IdleSteps
        <4> QED BY <4>1, <4>3, OneBuilder
      <3> QED BY <2>2, <3>1 DEF Temporary
    <2>3. CASE pc[x] = "dup2" /\ s = Ours(x) /\ t = Theirs(x) BY <2>3 DEF Ours
    <2> QED BY <1>1, <2>1, <2>2, <2>3 DEF Joint
  <1>3. t[1] \in {e0, kid[e0]}
    BY <1>1, <1>2 DEF Joint, Temporary, Theirs, Ours
  <1> QED BY <1>0, <1>1, <1>2, <1>3

\* What e0 does to its own entries and to its child's does not concern the
\* other environments.
LEMMA OthersKept ==
  ASSUME ForkInv, NEW e0 \in Env, status[e0] = "run", OnlyActs(e0),
         NEW D \in SUBSET Slot, Edits(D), \A s \in D : s[1] \in {e0, kid[e0]},
         NEW e \in Env \ {e0}
  PROVE  EnvOK(e)'
  <1>0. /\ EnvOK(e) /\ kid[e] \in Env \cup {NoEnv} /\ pos[e] \in 1 .. 3
        /\ fault[e] \in {NoFault} \cup [va : Location, at : {"alloc", "copy", "map", "unmap"}]
    BY DEF ForkInv, ForkTypeOK
  <1>1. /\ pc'[e] = pc[e] /\ kid'[e] = kid[e] /\ pos'[e] = pos[e]
        /\ fault'[e] = fault[e] /\ status'[e] = status[e] /\ program' = program
    BY DEF OnlyActs
  <1>2. kid[e] # NoEnv => kid[e] # e0 /\ kid[e] # kid[e0]
    BY OneBuilder
  <1>3. ControlOK(e)'
    <2>1. kid[e] # NoEnv => status'[kid[e]] = status[kid[e]] /\ parent'[kid[e]] = parent[kid[e]]
      BY <1>0, <1>2 DEF OnlyActs
    <2> QED BY <1>0, <1>1, <2>1 DEF EnvOK, ControlOK
  <1>4. CASE e = kid[e0]
    <2>1. e # NoEnv BY ForkAssumption
    <2>2. pc[e] = "child" /\ kid[e] = NoEnv /\ fault[e] = NoFault
      BY <1>4, <2>1, OneBuilder
    <2>3. FaultOK(e)' BY <1>1, <2>2 DEF FaultOK, NoFault
    <2>4. BuildOK(e)' BY <1>1, <2>2 DEF BuildOK
    <2>5. CopiedOK(e)' BY <1>1, <2>2 DEF CopiedOK
    <2> QED BY <1>3, <2>3, <2>4, <2>5 DEF EnvOK
  <1>5. CASE e # kid[e0]
    <2>1. \A va \in Va : <<e, va>> \in Slot \ D
      BY <1>5, SlotFacts
    <2>2. kid[e] # NoEnv => \A va \in Va : <<kid[e], va>> \in Slot \ D
      BY <1>0, <1>2, SlotFacts
    <2>3. FaultOK(e)'
      <3>1. fault[e] # NoFault => fault[e].va \in Va BY <1>0, WalkFacts
      <3>2. fault[e] = NoFault => fault[e].at = "none" BY DEF NoFault
      <3>3. "temp" \in Va BY WalkFacts
      <3> QED BY <1>0, <1>1, <2>1, <3>1, <3>2, <3>3 DEF EnvOK, FaultOK, Edits
    <2>4. BuildOK(e)'
      <3>1. Theirs(e)' = Theirs(e) BY <1>1 DEF Theirs
      <3>2. pc[e] \in {"dup2", "dmap", "dcopy", "dunmap"} => Theirs(e) \in Slot \ D
        <4>1. pc[e] \in {"dup2", "dmap", "dcopy", "dunmap"} => kid[e] # NoEnv
          BY <1>0 DEF EnvOK, ControlOK, IdleSteps
        <4> QED BY <1>0, <2>2, <4>1, WalkFacts DEF Theirs
      <3>3. <<e, "temp">> \in Slot \ D BY <2>1, WalkFacts
      <3> QED BY <1>0, <1>1, <3>1, <3>2, <3>3 DEF EnvOK, BuildOK, Edits
    <2>5. CopiedOK(e)'
      <3>1. \A i \in 1 .. 3 : Walk[i] \in Va BY WalkFacts
      <3>2. \A i \in 1 .. 3 : Done(e, i)' = Done(e, i) BY <1>1 DEF Done
      <3> QED BY <1>0, <1>1, <2>1, <2>2, <3>1, <3>2 DEF EnvOK, CopiedOK, Edits
    <2> QED BY <1>3, <2>3, <2>4, <2>5 DEF EnvOK
  <1> QED BY <1>4, <1>5

\* A step of e0 keeps the invariant if e0 itself is all right after it and the
\* sharing it adds or keeps is accounted for.
LEMMA StepOK ==
  ASSUME ForkInv, NEW e0 \in Env, status[e0] = "run", OnlyActs(e0),
         NEW D \in SUBSET Slot, Edits(D), \A s \in D : s[1] \in {e0, kid[e0]},
         ForkTypeOK', PagesOK', EnvOK(e0)',
         \A s, t \in Slot \ D : Joint(e0, s, t) => Joint(e0, s, t)',
         \A s \in D : \A t \in pp'[s] : s # t =>
            /\ perm'[s] = "w" => \E e \in Env : Joint(e, s, t)'
            /\ perm'[t] = "w" => \E e \in Env : Joint(e, t, s)',
         \A s \in D : perm'[s] = "cow" => program = "fork"
  PROVE  ForkInv'
  <1>1. \A e \in Env : EnvOK(e)'
    BY OthersKept
  <1>2. ASSUME NEW e \in Env \ {e0}, NEW s, NEW t, Joint(e, s, t)
        PROVE  Joint(e, s, t)'
    <2>1. pc'[e] = pc[e] /\ kid'[e] = kid[e] /\ pos'[e] = pos[e] /\ fault'[e] = fault[e]
      BY DEF OnlyActs
    <2> QED BY <1>2, <2>1 DEF Joint, Temporary, Ours, Theirs
  <1>3. ASSUME NEW s \in Slot, NEW t \in pp'[s], perm'[s] = "w", s # t
        PROVE  \E e \in Env : Joint(e, s, t)'
    <2>0. t \in Slot /\ s \in pp'[t]
      BY DEF ForkTypeOK, PagesOK
    <2>1. CASE s \in D BY <1>3, <2>1
    <2>2. CASE t \in D BY <1>3, <2>0, <2>2
    <2>3. CASE s \notin D /\ t \notin D
      <3>1. t \in pp[s] /\ perm[s] = "w" BY <1>3, <2>0, <2>3 DEF Edits
      <3>2. PICK e \in Env : Joint(e, s, t) BY <1>3, <3>1 DEF ForkInv, Exclusive
      <3> QED BY <1>2, <2>0, <2>3, <3>2
    <2> QED BY <2>1, <2>2, <2>3
  <1>4. Exclusive' BY <1>3 DEF Exclusive
  <1>5. CowOnlyInFork' BY DEF ForkInv, CowOnlyInFork, Edits, OnlyActs
  <1> QED BY <1>1, <1>4, <1>5 DEF ForkInv

\* What every step of e0 starts from.
LEMMA Facts ==
  ASSUME ForkInv, NEW e0 \in Env
  PROVE  /\ MemTypeOK /\ PagesOK /\ EnvOK(e0)
         /\ pc[e0] \in Steps /\ pos[e0] \in 1 .. 3 /\ kid[e0] \in Env \cup {NoEnv}
         /\ fault[e0] \in {NoFault} \cup
               [va : Location, at : {"alloc", "copy", "map", "unmap"}]
         /\ fault[e0] = NoFault => fault[e0].at = "none"
         /\ Ours(e0) \in Slot /\ Ours(e0) = <<e0, Walk[pos[e0]]>>
         /\ <<e0, "temp">> \in Slot /\ "temp" \notin Location
         /\ Walk[pos[e0]] \in Location /\ Location \subseteq Va
         /\ kid[e0] # NoEnv => kid[e0] \in Env /\ Theirs(e0) \in Slot
         /\ Theirs(e0) = <<kid[e0], Walk[pos[e0]]>>
  <1>1. /\ MemTypeOK /\ PagesOK /\ EnvOK(e0)
        /\ pc[e0] \in Steps /\ pos[e0] \in 1 .. 3 /\ kid[e0] \in Env \cup {NoEnv}
        /\ fault[e0] \in {NoFault} \cup
              [va : Location, at : {"alloc", "copy", "map", "unmap"}]
    BY DEF ForkInv, ForkTypeOK, MemTypeOK
  <1>2. fault[e0] = NoFault => fault[e0].at = "none" BY DEF NoFault
  <1>3. Walk[pos[e0]] \in Location /\ Location \subseteq Va /\ "temp" \notin Location /\ "temp" \in Va
    BY <1>1, WalkFacts
  <1> QED BY <1>1, <1>2, <1>3, SlotFacts DEF Ours, Theirs

\* Memory left alone.
LEMMA MemKept ==
  ASSUME ForkInv, UNCHANGED memVars
  PROVE  MemTypeOK' /\ PagesOK' /\ Edits({})
  BY DEF ForkInv, ForkTypeOK, memVars, MemTypeOK, PagesOK, Edits

\* A step that no program notices: nobody starts or ends, and what the live
\* environments see stays the same.
Silent ==
    /\ \A x \in Env : x \in Live' <=> x \in Live
    /\ \A x \in Live, va \in Location : content'[<<x, va>>] = content[<<x, va>>]

\* A step that changes nobody's status and edits one entry, outside the pages
\* of the program, of a child that does not run yet, or without a change of
\* what it holds.
LEMMA SilentEdit ==
  ASSUME status' = status, NEW d \in Slot, Edits({d}),
         \/ d[2] \notin Location
         \/ status[d[1]] = "new"
         \/ content'[d] = content[d]
  PROVE  Silent
  <1>1. Live' = Live BY DEF Live
  <1>2. ASSUME NEW x \in Live, NEW va \in Location
        PROVE  content'[<<x, va>>] = content[<<x, va>>]
    <2>1. <<x, va>> \in Slot BY SlotFacts, WalkFacts DEF Live
    <2>2. CASE <<x, va>> # d BY <2>1, <2>2 DEF Edits
    <2>3. CASE <<x, va>> = d BY <2>3 DEF Live
    <2> QED BY <2>2, <2>3
  <1> QED BY <1>1, <1>2 DEF Silent

\* A step that leaves memory alone, and panics at most.
LEMMA SilentControl ==
  ASSUME UNCHANGED memVars,
         \A x \in Env : status'[x] \in {"run", "panic"} <=> status[x] \in {"run", "panic"}
  PROVE  Silent
  BY DEF Silent, Live, memVars

\* Where e0 shares nothing for the moment, its writable pages are its own.
LEMMA Alone ==
  ASSUME ForkInv, NEW e0 \in Env, status[e0] = "run", NEW va \in Va,
         perm[<<e0, va>>] = "w", \A t \in Slot : ~Joint(e0, <<e0, va>>, t)
  PROVE  pp[<<e0, va>>] = {<<e0, va>>}
  <1> DEFINE s == <<e0, va>>
  <1>1. s \in Slot BY SlotFacts
  <1>2. s \in pp[s] BY <1>1 DEF ForkInv, PagesOK
  <1>3. \A t \in pp[s] : t = s BY OwnPages
  <1> QED BY <1>2, <1>3

\* Nothing is shared for the moment outside these steps.
LEMMA NotJoint ==
  ASSUME NEW e0, fault[e0].at # "unmap", pc[e0] \notin {"dup2", "dcopy", "dunmap"}
  PROVE  \A s, t : ~Joint(e0, s, t)
  BY DEF Joint, Temporary

\* A step that only changes the control state of e0.
LEMMA ControlStep ==
  ASSUME ForkInv, NEW e0 \in Env, status[e0] = "run", OnlyActs(e0),
         UNCHANGED memVars, ForkTypeOK', EnvOK(e0)',
         \A s, t \in Slot : Joint(e0, s, t) => Joint(e0, s, t)'
  PROVE  ForkInv'
  <1>1. PagesOK' /\ Edits({}) BY MemKept
  <1> QED BY <1>1, StepOK

-----------------------------------------------------------------------------
(***************************************************************************)
(* One lemma per action: running, faults and the page fault handler.       *)
(***************************************************************************)

\* The first environment starts alone, on pages of its own.
LEMMA InitForkInv == Init => ForkInv
  <1> SUFFICES ASSUME Init PROVE ForkInv OBVIOUS
  <1> USE ForkAssumption
  <1>1. ForkTypeOK
    BY DEF Init, ForkTypeOK, Perm, Steps, IdleSteps, Slot
  <1>2. PagesOK /\ Exclusive /\ CowOnlyInFork
    BY DEF Init, PagesOK, Exclusive, CowOnlyInFork
  <1>3. \A e \in Env : ControlOK(e)
    BY DEF Init, ControlOK, IdleSteps, ForkSteps, DumbSteps
  <1>4. \A e \in Env : FaultOK(e) BY DEF Init, FaultOK, NoFault
  <1>5. \A e \in Env : BuildOK(e) /\ CopiedOK(e) BY DEF Init, BuildOK, CopiedOK
  <1> QED BY <1>1, <1>2, <1>3, <1>4, <1>5 DEF ForkInv, EnvOK

\* panic() leaves everything where it is.
LEMMA PanicForkInv ==
  ASSUME ForkInv, NEW e0 \in Env, status[e0] = "run", panic(e0)
  PROVE  ForkInv' /\ Silent
  <1>1. /\ UNCHANGED memVars /\ UNCHANGED <<pc, kid, pos, fault, parent, program>>
        /\ status' = [status EXCEPT ![e0] = "panic"]
    BY DEF panic, ctlVars
  <1>2. ForkTypeOK' BY <1>1 DEF ForkInv, ForkTypeOK, memVars
  <1>3. OnlyActs(e0) BY <1>1 DEF OnlyActs, ForkInv, ForkTypeOK
  <1>4. EnvOK(e0)'
    <2>0. EnvOK(e0) /\ status'[e0] = "panic" BY <1>1 DEF ForkInv, ForkTypeOK
    <2>1. ControlOK(e0)'
      <3>1. kid[e0] # NoEnv => kid[e0] # e0 BY OneBuilder
      <3>2. kid[e0] # NoEnv => status'[kid[e0]] = status[kid[e0]]
        BY <1>1, <3>1 DEF ForkInv, ForkTypeOK
      <3> QED BY <1>1, <2>0, <3>2 DEF EnvOK, ControlOK
    <2>2. FaultOK(e0)' BY <1>1, <2>0 DEF EnvOK, FaultOK, memVars
    <2>3. BuildOK(e0)' BY <1>1, <2>0 DEF EnvOK, BuildOK, Theirs, memVars
    <2>4. CopiedOK(e0)' BY <1>1, <2>0 DEF EnvOK, CopiedOK, Done, memVars
    <2> QED BY <2>1, <2>2, <2>3, <2>4 DEF EnvOK
  <1>5. \A s, t \in Slot : Joint(e0, s, t) => Joint(e0, s, t)'
    BY <1>1 DEF Joint, Temporary, Ours, Theirs
  <1>6. Silent BY <1>1, SilentControl DEF ForkInv, ForkTypeOK
  <1> QED BY <1>1, <1>2, <1>3, <1>4, <1>5, <1>6, ControlStep

\* env_destroy takes all entries of the environment out of their pages.
LEMMA DestroyForkInv ==
  ASSUME ForkInv, NEW e0 \in Env, status[e0] = "run", Destroy(e0)
  PROVE  ForkInv'
  <1> DEFINE D == {e0} \X Va
  <1>0. MemTypeOK /\ PagesOK BY Facts
  <1>1. \A s \in Slot : s \in D <=> s[1] = e0 BY SlotFacts DEF Slot
  <1>2. /\ \A s \in Slot : pp'[s] = IF s \in D THEN {} ELSE pp[s] \ D
        /\ \A s \in Slot : perm'[s] = IF s \in D THEN "none" ELSE perm[s]
        /\ \A s \in Slot : content'[s] = IF s \in D THEN Junk ELSE content[s]
    BY <1>1 DEF Destroy
  <1>3. MemTypeOK' BY <1>0 DEF Destroy, MemTypeOK, Perm
  <1> HIDE DEF D
  <1>4. PagesOK'
    <2>1. ASSUME NEW s \in Slot
          PROVE  /\ perm'[s] = "none" <=> pp'[s] = {}
                 /\ pp'[s] # {} => s \in pp'[s]
                 /\ \A t \in pp'[s] : pp'[t] = pp'[s] /\ content'[t] = content'[s]
      <3>1. CASE s \in D
        <4>1. pp'[s] = {} /\ perm'[s] = "none" BY <1>2, <3>1
        <4> QED BY <4>1
      <3>2. CASE s \notin D
        <4>1. pp'[s] = pp[s] \ D /\ perm'[s] = perm[s] /\ content'[s] = content[s]
          BY <1>2, <3>2
        <4>2. /\ perm[s] = "none" <=> pp[s] = {}
              /\ pp[s] # {} => s \in pp[s]
              /\ \A t \in pp[s] : t \in Slot /\ pp[t] = pp[s] /\ content[t] = content[s]
          BY <1>0 DEF PagesOK, MemTypeOK
        <4>3. \A t \in pp'[s] : pp'[t] = pp[t] \ D /\ content'[t] = content[t]
          BY <1>2, <4>1, <4>2
        <4>4. \A t \in pp'[s] : pp'[t] = pp'[s] /\ content'[t] = content'[s]
          BY <4>1, <4>2, <4>3
        <4>5. perm'[s] = "none" <=> pp'[s] = {} BY <3>2, <4>1, <4>2
        <4>6. pp'[s] # {} => s \in pp'[s] BY <3>2, <4>1, <4>2
        <4> QED BY <4>4, <4>5, <4>6
      <3> QED BY <3>1, <3>2
    <2> QED BY <2>1 DEF PagesOK
  <1>5. D \in SUBSET Slot /\ \A s \in D : s[1] \in {e0, kid[e0]}
    BY SlotFacts DEF D
  <1>6. Edits(D) BY <1>2 DEF Edits
  <1>7. /\ pc' = [pc EXCEPT ![e0] = "user"] /\ kid' = [kid EXCEPT ![e0] = NoEnv]
        /\ pos' = [pos EXCEPT ![e0] = 1] /\ fault' = [fault EXCEPT ![e0] = NoFault]
        /\ status' = [status EXCEPT ![e0] = "free"]
        /\ parent' = [parent EXCEPT ![e0] = NoEnv] /\ program' = program
    BY DEF Destroy
  <1>8. ForkTypeOK'
    BY <1>3, <1>7 DEF ForkInv, ForkTypeOK, MemTypeOK, Steps, IdleSteps
  <1>9. OnlyActs(e0) BY <1>7 DEF OnlyActs, ForkInv, ForkTypeOK
  <1>10. EnvOK(e0)'
    <2>1. /\ pc'[e0] = "user" /\ kid'[e0] = NoEnv /\ fault'[e0] = NoFault
          /\ status'[e0] = "free"
      BY <1>7 DEF ForkInv, ForkTypeOK
    <2>2. ControlOK(e0)' BY <2>1 DEF ControlOK, IdleSteps, ForkSteps, DumbSteps
    <2>3. FaultOK(e0)' BY <2>1 DEF FaultOK, NoFault
    <2>4. BuildOK(e0)' /\ CopiedOK(e0)' BY <2>1 DEF BuildOK, CopiedOK
    <2> QED BY <2>2, <2>3, <2>4 DEF EnvOK
  <1>11. \A s, t \in Slot \ D : ~Joint(e0, s, t)
    <2>1. \A s \in Slot \ D : s # <<e0, "temp">> /\ s # Ours(e0)
      BY <1>1 DEF Ours
    <2> QED BY <2>1 DEF Joint, Temporary
  <1>12. \A s \in D : pp'[s] = {} /\ perm'[s] = "none" BY <1>2, <1>5
  <1> QED BY <1>4, <1>5, <1>6, <1>8, <1>9, <1>10, <1>11, <1>12, StepOK

\* A page fault: destroyed, panicking, or starting pgfault.
LEMMA PageFaultForkInv ==
  ASSUME ForkInv, NEW e0 \in Env, NEW va \in Location, PageFault(e0, va)
  PROVE  ForkInv' /\ (Silent \/ (Running(e0) /\ Destroy(e0)))
  <1>1. status[e0] = "run" /\ fault[e0] = NoFault BY DEF PageFault, Running
  <1>2. CASE /\ perm[<<e0, va>>] = "cow"
             /\ fault' = [fault EXCEPT ![e0] = [va |-> va, at |-> "alloc"]]
             /\ UNCHANGED <<program, memVars, envVars, libVars, ctlVars>>
    <2>1. /\ UNCHANGED memVars /\ UNCHANGED <<pc, kid, pos, parent, status, program>>
          /\ fault' = [fault EXCEPT ![e0] = [va |-> va, at |-> "alloc"]]
      BY <1>2 DEF ctlVars, envVars
    <2>2. ForkTypeOK' BY <2>1 DEF ForkInv, ForkTypeOK, memVars
    <2>3. OnlyActs(e0) BY <2>1 DEF OnlyActs, ForkInv, ForkTypeOK
    <2>4. fault'[e0] = [va |-> va, at |-> "alloc"] /\ fault'[e0].at = "alloc"
      BY <2>1 DEF ForkInv, ForkTypeOK
    <2>5. program = "fork"
      BY <1>2, SlotFacts, WalkFacts DEF ForkInv, CowOnlyInFork
    <2>6. ControlOK(e0)'
      BY <1>1, <2>1, <2>5, Facts DEF EnvOK, ControlOK
    <2>7. FaultOK(e0)' BY <2>4 DEF FaultOK
    <2>8. BuildOK(e0)' BY <2>1, Facts DEF EnvOK, BuildOK, Theirs, memVars
    <2>9. CopiedOK(e0)' BY <2>1, Facts DEF EnvOK, CopiedOK, Done, memVars
    <2>10. \A s, t \in Slot : Joint(e0, s, t) => Joint(e0, s, t)'
      BY <1>1, <2>1, Facts DEF Joint, Temporary, Ours, Theirs
    <2>11. Silent BY <2>1, SilentControl
    <2> QED
      BY <1>1, <2>1, <2>2, <2>3, <2>6, <2>7, <2>8, <2>9, <2>10, <2>11, ControlStep DEF EnvOK
  <1> QED BY <1>1, <1>2, DestroyForkInv, PanicForkInv DEF PageFault, Running

\* A store of the program goes to a page of its own.
LEMMA StoreForkInv ==
  ASSUME ForkInv, NEW e0 \in Env, NEW va \in Location, NEW v \in Value, Store(e0, va, v)
  PROVE  ForkInv' /\ pp[<<e0, va>>] = {<<e0, va>>}
  <1> DEFINE d == <<e0, va>>
  <1>1. /\ status[e0] = "run" /\ fault[e0] = NoFault /\ pc[e0] = "user"
        /\ perm[d] = "w" /\ Write(d, v)
        /\ UNCHANGED <<program, status, parent, pc, kid, pos, fault>>
    BY DEF Store, Running, Writable, envVars, ctlVars
  <1>2. d \in Slot /\ va \in Va BY SlotFacts, WalkFacts
  <1>3. \A s, t : ~Joint(e0, s, t) BY <1>1, Facts, NotJoint
  <1>4. pp[d] = {d} BY <1>1, <1>2, <1>3, Alone
  <1> HIDE DEF d
  <1>5. MemTypeOK' /\ PagesOK' /\ Edits(pp[d]) /\ UNCHANGED <<pp, perm>>
    BY <1>1, <1>2, Facts, WriteEdits
  <1>6. ForkTypeOK' BY <1>1, <1>5 DEF ForkInv, ForkTypeOK, MemTypeOK
  <1>7. OnlyActs(e0) BY <1>1 DEF OnlyActs
  <1>8. EnvOK(e0)'
    <2>0. kid[e0] = NoEnv BY <1>1, Facts DEF EnvOK, ControlOK, IdleSteps
    <2>1. ControlOK(e0)' BY <1>1, <2>0, Facts DEF EnvOK, ControlOK
    <2>2. FaultOK(e0)' BY <1>1, Facts DEF FaultOK
    <2>3. BuildOK(e0)' BY <1>1 DEF BuildOK
    <2>4. CopiedOK(e0)' BY <1>1, <2>0 DEF CopiedOK
    <2> QED BY <2>1, <2>2, <2>3, <2>4 DEF EnvOK
  <1>9. \A s \in {d} : s[1] \in {e0, kid[e0]} /\ pp'[s] = {s} /\ perm'[s] = "w"
    BY <1>1, <1>4, <1>5 DEF d
  <1>10. {d} \in SUBSET Slot /\ Edits({d}) BY <1>2, <1>4, <1>5
  <1>11. ForkInv'
    BY <1>1, <1>3, <1>5, <1>6, <1>7, <1>8, <1>9, <1>10, StepOK
  <1> QED BY <1>4, <1>11 DEF d

\* pgfault runs in a program that uses fork, on top of any step of fork.
LEMMA HandlingFacts ==
  ASSUME ForkInv, NEW e0 \in Env, NEW at \in {"alloc", "copy", "map", "unmap"},
         Handling(e0, at)
  PROVE  /\ status[e0] = "run" /\ fault[e0] # NoFault /\ fault[e0].at = at
         /\ fault[e0].va \in Location
         /\ fault[e0] = [va |-> fault[e0].va, at |-> at]
         /\ program = "fork" /\ pc[e0] \notin {"dmap", "dcopy", "dunmap"}
         /\ <<e0, fault[e0].va>> \in Slot
         /\ <<e0, fault[e0].va>> # <<e0, "temp">>
  <1>1. status[e0] = "run" /\ fault[e0].at = at /\ fault[e0] # NoFault
    BY DEF Handling, NoFault
  <1>2. fault[e0] \in [va : Location, at : {"alloc", "copy", "map", "unmap"}]
    BY <1>1, Facts
  <1>3. program = "fork" /\ pc[e0] \notin {"dmap", "dcopy", "dunmap"}
    BY <1>1, Facts DEF EnvOK, ControlOK, DumbSteps
  <1> QED BY <1>1, <1>2, <1>3, SlotFacts, WalkFacts

\* The handler's next step.
LEMMA NextHandling ==
  ASSUME ForkInv, NEW e0 \in Env, NEW at \in {"alloc", "copy", "map", "unmap"},
         Handling(e0, at), NEW to \in {"alloc", "copy", "map", "unmap"},
         fault' = [fault EXCEPT ![e0].at = to]
  PROVE  /\ fault'[e0] = [va |-> fault[e0].va, at |-> to]
         /\ \A x \in Env \ {e0} : fault'[x] = fault[x]
         /\ fault' \in [Env -> {NoFault} \cup
                        [va : Location, at : {"alloc", "copy", "map", "unmap"}]]
  <1>1. fault \in [Env -> {NoFault} \cup
                        [va : Location, at : {"alloc", "copy", "map", "unmap"}]]
    BY DEF ForkInv, ForkTypeOK
  <1>2. fault[e0].va \in Location /\ fault[e0] = [va |-> fault[e0].va, at |-> at]
    BY HandlingFacts
  <1>3. fault'[e0] = [va |-> fault[e0].va, at |-> to] BY <1>1, <1>2
  <1>4. fault' = [fault EXCEPT ![e0] = [va |-> fault[e0].va, at |-> to]]
    BY <1>1, <1>3
  <1>5. [va |-> fault[e0].va, at |-> to] \in
           [va : Location, at : {"alloc", "copy", "map", "unmap"}]
    BY <1>2
  <1> QED BY <1>1, <1>3, <1>4, <1>5

\* What EnvOK still owes after a step of pgfault: the handler changes nothing
\* that fork relies on.
LEMMA HandlerEnvOK ==
  ASSUME ForkInv, NEW e0 \in Env, NEW at \in {"alloc", "copy", "map", "unmap"},
         Handling(e0, at), UNCHANGED <<program, status, parent, pc, kid, pos>>,
         NEW d \in Slot, d[1] = e0, Edits({d}),
         \A va \in Location : content'[<<e0, va>>] = content[<<e0, va>>],
         FaultOK(e0)'
  PROVE  EnvOK(e0)'
  <1>0. /\ EnvOK(e0) /\ pos[e0] \in 1 .. 3 /\ Walk[pos[e0]] \in Va
        /\ Theirs(e0) = <<kid[e0], Walk[pos[e0]]>>
    BY Facts
  <1>1. /\ program = "fork" /\ pc[e0] \notin {"dmap", "dcopy", "dunmap"}
        /\ status[e0] = "run"
    BY HandlingFacts
  <1>2. ControlOK(e0)' BY <1>0, <1>1 DEF EnvOK, ControlOK
  <1>3. kid[e0] # NoEnv => \A va \in Va : <<kid[e0], va>> \in Slot \ {d}
    BY OneBuilder, HandlingFacts, SlotFacts
  <1>4. BuildOK(e0)'
    <2>1. pc[e0] = "dup2" => kid[e0] # NoEnv
      BY <1>0 DEF EnvOK, ControlOK, IdleSteps
    <2>2. pc[e0] = "dup2" => Theirs(e0) \in Slot \ {d}
      BY <1>0, <1>3, <2>1
    <2>3. Theirs(e0)' = Theirs(e0) BY DEF Theirs
    <2> QED BY <1>0, <1>1, <2>2, <2>3 DEF EnvOK, BuildOK, Edits
  <1>5. CopiedOK(e0)'
    <2>1. \A i \in 1 .. 3 : Walk[i] \in Location /\ Walk[i] \in Va BY WalkFacts
    <2>2. \A i \in 1 .. 3 : Done(e0, i)' = Done(e0, i) BY DEF Done
    <2>3. kid[e0] # NoEnv => \A va \in Va : content'[<<kid[e0], va>>] = content[<<kid[e0], va>>]
      BY <1>3 DEF Edits
    <2> QED BY <1>0, <2>1, <2>2, <2>3 DEF EnvOK, CopiedOK
  <1> QED BY <1>2, <1>4, <1>5 DEF EnvOK

\* sys_page_alloc of PFTEMP.
LEMMA PgfaultAllocForkInv ==
  ASSUME ForkInv, NEW e0 \in Env, pgfault_alloc(e0)
  PROVE  ForkInv' /\ Silent
  <1> DEFINE d == <<e0, "temp">>
  <1>1. Handling(e0, "alloc") BY DEF pgfault_alloc
  <1>2. CASE /\ sys_page_alloc(d)
             /\ fault' = [fault EXCEPT ![e0].at = "copy"]
             /\ UNCHANGED <<program, envVars, libVars, ctlVars>>
    <2>1. /\ sys_page_alloc(d) /\ fault' = [fault EXCEPT ![e0].at = "copy"]
          /\ UNCHANGED <<program, status, parent, pc, kid, pos>>
      BY <1>2 DEF envVars, ctlVars
    <2>2. d \in Slot /\ d[1] = e0 BY SlotFacts, WalkFacts
    <2>3. /\ MemTypeOK' /\ PagesOK' /\ Edits({d}) /\ pp'[d] = {d} /\ perm'[d] = "w"
      BY <2>1, <2>2, Facts, AllocEdits
    <2>4. /\ fault'[e0] = [va |-> fault[e0].va, at |-> "copy"]
          /\ \A x \in Env \ {e0} : fault'[x] = fault[x]
          /\ fault' \in [Env -> {NoFault} \cup
                         [va : Location, at : {"alloc", "copy", "map", "unmap"}]]
      BY <1>1, <2>1, NextHandling
    <2>5. ForkTypeOK'
      BY <2>1, <2>3, <2>4 DEF ForkInv, ForkTypeOK, MemTypeOK
    <2>6. OnlyActs(e0) BY <2>1, <2>4 DEF OnlyActs
    <2>7. FaultOK(e0)' BY <2>3, <2>4 DEF FaultOK
    <2>8. \A va \in Location : content'[<<e0, va>>] = content[<<e0, va>>]
      BY <2>3, SlotFacts, WalkFacts DEF Edits
    <2>9. EnvOK(e0)' BY <1>1, <2>1, <2>2, <2>3, <2>7, <2>8, HandlerEnvOK
    <2>10. \A s, t \in Slot \ {d} : Joint(e0, s, t) => Joint(e0, s, t)'
      BY <2>1 DEF Joint, Temporary, Ours, Theirs
    <2>13. Silent
      <3>1. d[2] \notin Location BY WalkFacts
      <3> QED BY <2>1, <2>2, <2>3, <3>1, SilentEdit
    <2> HIDE DEF d
    <2>11. \A s \in {d} : s[1] \in {e0, kid[e0]} /\ pp'[s] = {s} /\ perm'[s] = "w"
      BY <2>2, <2>3
    <2>12. {d} \in SUBSET Slot /\ status[e0] = "run" BY <1>1, <2>2, HandlingFacts
    <2> QED BY <2>3, <2>5, <2>6, <2>9, <2>10, <2>11, <2>12, <2>13, StepOK
  <1> QED BY <1>1, <1>2, HandlingFacts, PanicForkInv DEF pgfault_alloc

\* memmove into PFTEMP.
LEMMA PgfaultCopyForkInv ==
  ASSUME ForkInv, NEW e0 \in Env, pgfault_copy(e0)
  PROVE  ForkInv' /\ Silent
  <1> DEFINE d == <<e0, "temp">>
             f == <<e0, fault[e0].va>>
  <1>1. /\ Handling(e0, "copy") /\ Write(d, content[f])
        /\ fault' = [fault EXCEPT ![e0].at = "map"]
        /\ UNCHANGED <<program, status, parent, pc, kid, pos>>
    BY DEF pgfault_copy, memmove, envVars, ctlVars
  <1>2. /\ d \in Slot /\ d[1] = e0 /\ f \in Slot /\ f # d /\ "temp" \in Va
        /\ perm[d] = "w" /\ status[e0] = "run"
        /\ fault[e0].at = "copy" /\ pc[e0] \notin {"dmap", "dcopy", "dunmap"}
    BY <1>1, SlotFacts, WalkFacts, HandlingFacts, Facts DEF EnvOK, FaultOK
  <1>3. pp[d] = {d}
    <2>1. \A t \in Slot : ~Joint(e0, d, t)
      BY <1>2, Facts DEF Joint, Temporary
    <2> QED BY <1>2, <2>1, Alone
  <1>4. /\ MemTypeOK' /\ PagesOK' /\ Edits({d}) /\ UNCHANGED <<pp, perm>>
        /\ \A t \in Slot : content'[t] = IF t = d THEN content[f] ELSE content[t]
    <2>1. content[f] \in Value \cup {Junk} BY <1>2, Facts DEF MemTypeOK
    <2> HIDE DEF d, f
    <2>2. /\ MemTypeOK' /\ PagesOK' /\ Edits(pp[d]) /\ UNCHANGED <<pp, perm>>
          /\ \A t \in Slot : content'[t] = IF t \in pp[d] THEN content[f] ELSE content[t]
      BY <1>1, <1>2, <2>1, Facts, WriteEdits
    <2> QED BY <1>3, <2>2
  <1>5. /\ fault'[e0] = [va |-> fault[e0].va, at |-> "map"]
        /\ \A x \in Env \ {e0} : fault'[x] = fault[x]
        /\ fault' \in [Env -> {NoFault} \cup
                       [va : Location, at : {"alloc", "copy", "map", "unmap"}]]
    BY <1>1, NextHandling
  <1>6. ForkTypeOK'
    BY <1>1, <1>4, <1>5 DEF ForkInv, ForkTypeOK, MemTypeOK
  <1>7. OnlyActs(e0) BY <1>1, <1>5 DEF OnlyActs
  <1>8. FaultOK(e0)' BY <1>2, <1>4, <1>5 DEF FaultOK
  <1>9. EnvOK(e0)'
    <2>1. \A va \in Location : content'[<<e0, va>>] = content[<<e0, va>>]
      BY <1>4, SlotFacts, WalkFacts
    <2> QED BY <1>1, <1>2, <1>4, <1>8, <2>1, HandlerEnvOK
  <1>10. \A s, t \in Slot \ {d} : Joint(e0, s, t) => Joint(e0, s, t)'
    BY <1>1 DEF Joint, Temporary, Ours, Theirs
  <1>14. Silent
    <2>1. d[2] \notin Location BY WalkFacts
    <2> QED BY <1>1, <1>2, <1>4, <2>1, SilentEdit
  <1> HIDE DEF d
  <1>11. \A s \in {d} : s[1] \in {e0, kid[e0]} /\ pp'[s] = {s} /\ perm'[s] = "w"
    BY <1>2, <1>3, <1>4
  <1>12. {d} \in SUBSET Slot BY <1>2
  <1>13. ForkInv'
    BY <1>2, <1>4, <1>6, <1>7, <1>9, <1>10, <1>11, <1>12, StepOK
  <1> QED BY <1>13, <1>14

\* sys_page_map of PFTEMP at the faulting address, writable.
LEMMA PgfaultMapForkInv ==
  ASSUME ForkInv, NEW e0 \in Env, pgfault_map(e0)
  PROVE  ForkInv' /\ Silent
  <1> DEFINE p == <<e0, "temp">>
  <1>0. PICK d : d = <<e0, fault[e0].va>> OBVIOUS
  <1>1. /\ Handling(e0, "map") /\ sys_page_map(p, d, "w")
        /\ fault' = [fault EXCEPT ![e0].at = "unmap"]
        /\ UNCHANGED <<program, status, parent, pc, kid, pos>>
    BY <1>0 DEF pgfault_map, envVars, ctlVars
  <1>2. /\ p \in Slot /\ d[1] = e0 /\ d \in Slot /\ d # p /\ "temp" \in Va
        /\ perm[p] = "w" /\ status[e0] = "run" /\ content[p] = content[d]
        /\ fault[e0].at = "map" /\ pc[e0] \notin {"dmap", "dcopy", "dunmap"}
    BY <1>0, <1>1, SlotFacts, WalkFacts, HandlingFacts, Facts DEF EnvOK, FaultOK
  <1>3. pp[p] = {p}
    <2>1. \A t \in Slot : ~Joint(e0, p, t)
      BY <1>2, Facts DEF Joint, Temporary
    <2> QED BY <1>2, <2>1, Alone
  <1>4. /\ MemTypeOK' /\ PagesOK' /\ Edits({d}) /\ pp'[d] = {p, d}
        /\ perm'[d] = "w" /\ content'[d] = content[d]
    <2> HIDE DEF p
    <2> QED BY <1>1, <1>2, <1>3, Facts, MapEdits
  <1>5. /\ fault'[e0] = [va |-> fault[e0].va, at |-> "unmap"]
        /\ \A x \in Env \ {e0} : fault'[x] = fault[x]
        /\ fault' \in [Env -> {NoFault} \cup
                       [va : Location, at : {"alloc", "copy", "map", "unmap"}]]
    BY <1>1, NextHandling
  <1>6. ForkTypeOK'
    BY <1>1, <1>4, <1>5 DEF ForkInv, ForkTypeOK, MemTypeOK
  <1>7. OnlyActs(e0) BY <1>1, <1>5 DEF OnlyActs
  <1>8. \A s \in Slot : content'[s] = content[s]
    BY <1>4 DEF Edits
  <1>9. FaultOK(e0)'
    <2>1. perm'[p] = "w" BY <1>2, <1>4 DEF Edits
    <2> QED BY <1>0, <1>2, <1>4, <1>5, <1>8, <2>1 DEF FaultOK
  <1>10. EnvOK(e0)'
    <2>1. \A va \in Location : content'[<<e0, va>>] = content[<<e0, va>>]
      BY <1>8, SlotFacts, WalkFacts
    <2> QED BY <1>1, <1>2, <1>4, <1>9, <2>1, HandlerEnvOK
  <1>11. \A s, t \in Slot \ {d} : Joint(e0, s, t) => Joint(e0, s, t)'
    BY <1>1, <1>2 DEF Joint, Temporary, Ours, Theirs
  <1>12. Joint(e0, p, d)' /\ Joint(e0, d, p)'
    BY <1>0, <1>5 DEF Joint, Temporary
  <1> HIDE DEF p
  <1>13. \A s \in {d} : \A t \in pp'[s] : s # t =>
            /\ perm'[s] = "w" => \E e \in Env : Joint(e, s, t)'
            /\ perm'[t] = "w" => \E e \in Env : Joint(e, t, s)'
    <2>1. \A t \in pp'[d] : d # t => t = p BY <1>4
    <2>2. \A s \in {d} : s = d OBVIOUS
    <2> QED BY <1>12, <2>1, <2>2
  <1>14. {d} \in SUBSET Slot /\ \A s \in {d} : s[1] \in {e0, kid[e0]} /\ perm'[s] = "w"
    BY <1>2, <1>4
  <1>15. ForkInv'
    BY <1>2, <1>4, <1>6, <1>7, <1>10, <1>11, <1>13, <1>14, StepOK
  <1>16. Silent BY <1>1, <1>2, <1>4, SilentEdit
  <1> QED BY <1>15, <1>16

\* sys_page_unmap of PFTEMP.
LEMMA PgfaultUnmapForkInv ==
  ASSUME ForkInv, NEW e0 \in Env, pgfault_unmap(e0)
  PROVE  ForkInv' /\ Silent /\ perm'[<<e0, fault[e0].va>>] = "w"
  <1> DEFINE d == <<e0, "temp">>
  <1>1. /\ Handling(e0, "unmap") /\ sys_page_unmap(d)
        /\ fault' = [fault EXCEPT ![e0] = NoFault]
        /\ UNCHANGED <<program, status, parent, pc, kid, pos>>
    BY DEF pgfault_unmap, envVars, ctlVars
  <1>2. /\ d \in Slot /\ d[1] = e0 /\ status[e0] = "run"
        /\ <<e0, fault[e0].va>> \in Slot \ {d} /\ perm[<<e0, fault[e0].va>>] = "w"
        /\ pc[e0] \notin {"dmap", "dcopy", "dunmap"}
    BY <1>1, SlotFacts, WalkFacts, HandlingFacts, Facts DEF EnvOK, FaultOK
  <1>3. MemTypeOK' /\ PagesOK' /\ Edits({d}) /\ pp'[d] = {} /\ perm'[d] = "none"
    BY <1>1, <1>2, Facts, UnmapEdits
  <1>4. fault'[e0] = NoFault /\ \A x \in Env \ {e0} : fault'[x] = fault[x]
    BY <1>1 DEF ForkInv, ForkTypeOK
  <1>5. ForkTypeOK'
    BY <1>1, <1>3, <1>4 DEF ForkInv, ForkTypeOK, MemTypeOK
  <1>6. OnlyActs(e0) BY <1>1, <1>4 DEF OnlyActs
  <1>7. FaultOK(e0)' BY <1>4 DEF FaultOK, NoFault
  <1>8. EnvOK(e0)'
    <2>1. \A va \in Location : content'[<<e0, va>>] = content[<<e0, va>>]
      BY <1>3, SlotFacts, WalkFacts DEF Edits
    <2> QED BY <1>1, <1>2, <1>3, <1>7, <2>1, HandlerEnvOK
  <1>9. \A s, t \in Slot \ {d} : Joint(e0, s, t) => Joint(e0, s, t)'
    BY <1>1 DEF Joint, Temporary, Ours, Theirs
  <1>10. perm'[<<e0, fault[e0].va>>] = "w" BY <1>2, <1>3 DEF Edits
  <1>13. Silent
    <2>1. d[2] \notin Location BY WalkFacts
    <2> QED BY <1>1, <1>2, <1>3, <2>1, SilentEdit
  <1> HIDE DEF d
  <1>11. {d} \in SUBSET Slot /\ \A s \in {d} : s[1] \in {e0, kid[e0]} /\ pp'[s] = {} /\ perm'[s] = "none"
    BY <1>2, <1>3
  <1>12. ForkInv' BY <1>2, <1>3, <1>5, <1>6, <1>8, <1>9, <1>11, StepOK
  <1> QED BY <1>10, <1>12, <1>13

-----------------------------------------------------------------------------
(***************************************************************************)
(* One lemma per action: fork and dumbfork.                                *)
(***************************************************************************)

\* An environment that builds no child and handles no fault owes nothing.
LEMMA IdleEnvOK ==
  ASSUME NEW e0 \in Env, pc'[e0] \in IdleSteps, kid'[e0] = NoEnv,
         fault'[e0] = NoFault, status'[e0] = "run",
         pc'[e0] = "set" => program' = "fork"
  PROVE  EnvOK(e0)'
  <1>1. ControlOK(e0)' BY DEF ControlOK, IdleSteps, ForkSteps, DumbSteps
  <1>2. FaultOK(e0)' BY DEF FaultOK, NoFault
  <1>3. BuildOK(e0)' BY DEF BuildOK, IdleSteps
  <1>4. CopiedOK(e0)' BY DEF CopiedOK
  <1> QED BY <1>1, <1>2, <1>3, <1>4 DEF EnvOK

\* Steps between the idle places of fork.
LEMMA IdleStep ==
  ASSUME ForkInv, NEW e0 \in Env, Running(e0), pc[e0] \in IdleSteps,
         UNCHANGED <<memVars, program, status, parent, kid, pos, fault>>,
         NEW to \in IdleSteps, Goto(e0, to), to = "set" => program = "fork"
  PROVE  ForkInv' /\ Silent
  <1>1. /\ status[e0] = "run" /\ fault[e0] = NoFault /\ UNCHANGED memVars
        /\ pc' = [pc EXCEPT ![e0] = to]
    BY DEF Running, Goto
  <1>2. kid[e0] = NoEnv BY Facts DEF EnvOK, ControlOK
  <1>3. pc'[e0] = to BY <1>1 DEF ForkInv, ForkTypeOK
  <1>4. EnvOK(e0)' BY <1>1, <1>2, <1>3, IdleEnvOK
  <1>5. ForkTypeOK' BY <1>1 DEF ForkInv, ForkTypeOK, Steps, memVars
  <1>6. OnlyActs(e0) BY <1>1 DEF OnlyActs, ForkInv, ForkTypeOK
  <1>7. \A s, t : ~Joint(e0, s, t) BY <1>1, Facts, NotJoint DEF IdleSteps
  <1>8. Silent BY <1>1, SilentControl
  <1> QED BY <1>1, <1>4, <1>5, <1>6, <1>7, <1>8, ControlStep

\* Giving entry <<x, va>> a page, of e0 itself or of the child it builds.
LEMMA AllocStep ==
  ASSUME ForkInv, NEW e0 \in Env, status[e0] = "run", OnlyActs(e0),
         NEW x \in Env, x \in {e0, kid[e0]}, NEW va \in Va,
         status' = status, x = e0 => va \notin Location,
         sys_page_alloc(<<x, va>>), ForkTypeOK', EnvOK(e0)',
         \A s, t : ~Joint(e0, s, t)
  PROVE  ForkInv' /\ Silent
  <1>0. PICK d : d = <<x, va>> OBVIOUS
  <1>1. d \in Slot /\ d[1] \in {e0, kid[e0]} BY <1>0, SlotFacts
  <1>2. /\ PagesOK' /\ Edits({d}) /\ pp'[d] = {d} /\ perm'[d] = "w"
    BY <1>0, <1>1, Facts, AllocEdits
  <1>3. \A s \in {d} : s[1] \in {e0, kid[e0]} /\ pp'[s] = {s} /\ perm'[s] = "w"
    BY <1>1, <1>2
  <1>4. {d} \in SUBSET Slot BY <1>1
  <1>5. Silent
    <2>1. x # e0 => status[x] = "new" BY OneBuilder, ForkAssumption
    <2> QED BY <1>0, <1>1, <1>2, <2>1, SilentEdit
  <1> QED BY <1>2, <1>3, <1>4, <1>5, StepOK

\* CallFork: with or without an exception stack to allocate.
LEMMA CallForkForkInv ==
  ASSUME ForkInv, NEW e0 \in Env, CallFork(e0)
  PROVE  ForkInv' /\ Silent
  <1>1. /\ Running(e0) /\ status[e0] = "run" /\ fault[e0] = NoFault /\ pc[e0] = "user"
        /\ UNCHANGED <<program, status, parent, kid, pos, fault>>
    BY DEF CallFork, Running
  <1>2. CASE sys_page_alloc(<<e0, "xstack">>) /\ Goto(e0, "set") /\ program = "fork"
    <2>0. "xstack" \in Va /\ "xstack" \notin Location /\ <<e0, "xstack">> \in Slot BY SlotFacts, WalkFacts
    <2>1. pc' = [pc EXCEPT ![e0] = "set"] BY <1>2 DEF Goto
    <2>2. MemTypeOK' BY <1>2, <2>0, Facts, AllocEdits
    <2>3. ForkTypeOK'
      BY <1>1, <2>1, <2>2 DEF ForkInv, ForkTypeOK, MemTypeOK, Steps, IdleSteps
    <2>4. OnlyActs(e0) BY <1>1, <2>1 DEF OnlyActs, ForkInv, ForkTypeOK
    <2>5. EnvOK(e0)'
      <3>1. kid[e0] = NoEnv BY <1>1, Facts DEF EnvOK, ControlOK, IdleSteps
      <3>2. pc'[e0] = "set" BY <2>1 DEF ForkInv, ForkTypeOK
      <3> QED BY <1>1, <1>2, <3>1, <3>2, IdleEnvOK DEF IdleSteps
    <2>6. \A s, t : ~Joint(e0, s, t) BY <1>1, Facts, NotJoint
    <2> QED BY <1>1, <1>2, <2>0, <2>3, <2>4, <2>5, <2>6, AllocStep
  <1>3. CASE \/ Goto(e0, IF program = "fork" THEN "set" ELSE "exofork") /\ UNCHANGED memVars
             \/ Goto(e0, "exofork") /\ UNCHANGED memVars
    BY <1>1, <1>3, IdleStep DEF IdleSteps
  <1> QED BY <1>2, <1>3 DEF CallFork

\* set_pgfault_handler stores the handler.
LEMMA SetHandlerForkInv ==
  ASSUME ForkInv, NEW e0 \in Env, set_pgfault_handler(e0)
  PROVE  ForkInv' /\ Silent
  BY IdleStep DEF set_pgfault_handler, At, envVars, IdleSteps

\* fork returns 0.
LEMMA ReturnZeroForkInv ==
  ASSUME ForkInv, NEW e0 \in Env, ReturnZero(e0)
  PROVE  ForkInv' /\ Silent
  BY IdleStep DEF ReturnZero, At, envVars, IdleSteps

\* sys_exofork: a child without pages, a mistaken parent, or a panic.
LEMMA ExoforkForkInv ==
  ASSUME ForkInv, NEW e0 \in Env, sys_exofork(e0)
  PROVE  ForkInv' /\ Silent
  <1>1. Running(e0) /\ status[e0] = "run" /\ fault[e0] = NoFault /\ pc[e0] = "exofork"
    BY DEF sys_exofork, At, Running
  <1>2. ASSUME NEW c \in Env, status[c] = "free",
               status' = [status EXCEPT ![c] = "new"],
               parent' = [parent EXCEPT ![c] = e0],
               pc' = [pc EXCEPT ![c] = "child",
                                ![e0] = IF program = "fork" THEN "dup1" ELSE "dalloc"],
               kid' = [kid EXCEPT ![e0] = c],
               pos' = [pos EXCEPT ![e0] = 1],
               UNCHANGED <<program, memVars, fault>>
        PROVE  ForkInv' /\ Silent
    <2>1. /\ PagesOK' /\ MemTypeOK' /\ UNCHANGED <<pp, perm, content, fault, program>>
      BY <1>2, MemKept DEF memVars
    <2>2. c # e0 /\ c # NoEnv BY <1>1, <1>2, ForkAssumption
    <2>3. ForkTypeOK'
      BY <1>2, <2>1 DEF ForkInv, ForkTypeOK, MemTypeOK, Steps, IdleSteps, ForkSteps, DumbSteps
    <2>4. /\ status'[c] = "new" /\ parent'[c] = e0 /\ pc'[c] = "child"
          /\ pc'[e0] = (IF program = "fork" THEN "dup1" ELSE "dalloc")
          /\ kid'[e0] = c /\ pos'[e0] = 1 /\ status'[e0] = "run"
          /\ \A x \in Env \ {c} : status'[x] = status[x] /\ parent'[x] = parent[x]
          /\ \A x \in Env \ {e0} : kid'[x] = kid[x] /\ pos'[x] = pos[x]
          /\ \A x \in Env \ {c, e0} : pc'[x] = pc[x]
      BY <1>1, <1>2, <2>2 DEF ForkInv, ForkTypeOK
    <2>5. EnvOK(e0)'
      <3>1. program \in {"fork", "dumbfork"} BY DEF ForkInv, ForkTypeOK
      <3>2. ControlOK(e0)'
        BY <1>1, <2>1, <2>2, <2>4, <3>1 DEF ControlOK, IdleSteps, ForkSteps, DumbSteps
      <3>3. FaultOK(e0)' BY <1>1, <2>1 DEF FaultOK, NoFault
      <3>4. BuildOK(e0)' BY <2>4 DEF BuildOK
      <3>5. CopiedOK(e0)'
        <4>1. \A i \in 1 .. 3 : ~Done(e0, i)' BY <2>4 DEF Done
        <4> QED BY <4>1 DEF CopiedOK
      <3> QED BY <3>2, <3>3, <3>4, <3>5 DEF EnvOK
    <2>6. EnvOK(c)'
      <3>1. kid[c] = NoEnv /\ fault[c] = NoFault
        BY <1>2, Facts DEF EnvOK, ControlOK, IdleSteps
      <3>2. ControlOK(c)'
        BY <2>1, <2>2, <2>4, <3>1 DEF ControlOK, IdleSteps, ForkSteps, DumbSteps
      <3>3. FaultOK(c)' BY <2>1, <3>1 DEF FaultOK, NoFault
      <3>4. BuildOK(c)' BY <2>4 DEF BuildOK
      <3>5. CopiedOK(c)' BY <2>2, <2>4, <3>1 DEF CopiedOK
      <3> QED BY <3>2, <3>3, <3>4, <3>5 DEF EnvOK
    <2>7. ASSUME NEW x \in Env \ {c, e0} PROVE EnvOK(x)'
      <3>0. EnvOK(x) BY DEF ForkInv
      <3>1. kid[x] # NoEnv => kid[x] \in Env \ {c} BY <1>2, OneBuilder
      <3>2. ControlOK(x)'
        BY <2>1, <2>4, <3>0, <3>1 DEF EnvOK, ControlOK
      <3>3. FaultOK(x)' BY <2>1, <3>0 DEF EnvOK, FaultOK
      <3>4. BuildOK(x)' BY <2>1, <2>4, <3>0 DEF EnvOK, BuildOK, Theirs
      <3>5. CopiedOK(x)' BY <2>1, <2>4, <3>0 DEF EnvOK, CopiedOK, Done
      <3> QED BY <3>2, <3>3, <3>4, <3>5 DEF EnvOK
    <2>8. Exclusive'
      <3>1. ASSUME NEW x \in Env, NEW s, NEW t, Joint(x, s, t) PROVE Joint(x, s, t)'
        <4>1. x # e0 BY <1>1, <3>1, Facts, NotJoint
        <4>2. x # c
          <5>1. pc[c] = "user" /\ fault[c] = NoFault BY <1>2, Facts DEF EnvOK, ControlOK
          <5> QED BY <3>1, <5>1, Facts, NotJoint
        <4> QED BY <2>1, <2>4, <3>1, <4>1, <4>2 DEF Joint, Temporary, Ours, Theirs
      <3> QED BY <2>1, <3>1 DEF ForkInv, Exclusive
    <2>9. CowOnlyInFork' BY <2>1 DEF ForkInv, CowOnlyInFork
    <2>10. Silent BY <1>2, <2>4, SilentControl
    <2> QED BY <2>1, <2>3, <2>5, <2>6, <2>7, <2>8, <2>9, <2>10 DEF ForkInv
  <1>3. CASE program = "fork" /\ Goto(e0, "child") /\ UNCHANGED <<program, memVars, envVars, libVars, kid, pos, fault>>
    <2>1. UNCHANGED <<memVars, program, status, parent, kid, pos, fault>>
      BY <1>3 DEF envVars
    <2> QED BY <1>1, <1>3, <2>1, IdleStep DEF IdleSteps
  <1>4. CASE panic(e0) BY <1>1, <1>4, PanicForkInv
  <1> QED BY <1>2, <1>3, <1>4 DEF sys_exofork

\* What a step of the parent's branch starts from.
LEMMA BuilderFacts ==
  ASSUME ForkInv, NEW e0 \in Env, NEW step \in Steps \ IdleSteps, At(e0, step)
  PROVE  /\ status[e0] = "run" /\ fault[e0] = NoFault /\ fault[e0].at = "none"
         /\ pc[e0] = step /\ pos[e0] \in 1 .. 3
         /\ kid[e0] \in Env /\ kid[e0] # NoEnv /\ kid[e0] # e0
         /\ status[kid[e0]] = "new" /\ parent[kid[e0]] = e0
         /\ EnvOK(e0) /\ MemTypeOK /\ PagesOK
         /\ Theirs(e0) \in Slot /\ Theirs(e0) = <<kid[e0], Walk[pos[e0]]>>
         /\ Ours(e0) \in Slot /\ Ours(e0) = <<e0, Walk[pos[e0]]>>
         /\ Walk[pos[e0]] \in Location
  <1>1. status[e0] = "run" /\ fault[e0] = NoFault /\ pc[e0] = step
    BY DEF At, Running
  <1>2. kid[e0] # NoEnv BY <1>1, Facts DEF EnvOK, ControlOK
  <1> QED BY <1>1, <1>2, Facts, OneBuilder DEF EnvOK, ControlOK

\* Only its parent shares a page with the child under construction for the
\* moment.
LEMMA KidShared ==
  ASSUME ForkInv, NEW e0 \in Env, NEW step \in Steps \ IdleSteps, At(e0, step),
         NEW x \in Env, NEW t, Joint(x, t, Theirs(e0)) \/ Joint(x, Theirs(e0), t)
  PROVE  x = e0
  <1>1. /\ kid[e0] \in Env /\ Theirs(e0) = <<kid[e0], Walk[pos[e0]]>>
        /\ Walk[pos[e0]] # "temp" /\ kid[e0] # NoEnv
    BY BuilderFacts, WalkFacts
  <1>2. pc[kid[e0]] = "child" /\ fault[kid[e0]].at = "none"
    BY <1>1, OneBuilder DEF NoFault
  <1>3. Theirs(e0) # <<x, "temp">> BY <1>1
  <1>4. fault[x].at = "unmap" => Theirs(e0) # <<x, fault[x].va>> BY <1>1, <1>2
  <1>5. pc[x] = "dup2" => Theirs(e0) # Ours(x) BY <1>1, <1>2 DEF Ours
  <1>6. Theirs(e0) = Theirs(x) => kid[x] = kid[e0] BY <1>1 DEF Theirs
  <1>7. kid[x] = kid[e0] => x = e0 BY <1>1, OneBuilder
  <1> QED BY <1>3, <1>4, <1>5, <1>6, <1>7 DEF Joint, Temporary

\* Nobody but e0 shares the page that e0 is at for the moment.
LEMMA OursShared ==
  ASSUME ForkInv, NEW e0 \in Env, NEW step \in Steps \ IdleSteps, At(e0, step),
         NEW x \in Env, NEW t, Joint(x, t, Ours(e0))
  PROVE  x = e0
  <1>1. /\ Ours(e0) = <<e0, Walk[pos[e0]]>> /\ Walk[pos[e0]] # "temp"
        /\ status[e0] = "run"
    BY BuilderFacts, WalkFacts
  <1>2. pc[x] \in {"dup2", "dcopy", "dunmap"} => Ours(e0) # Theirs(x)
    <2>1. pc[x] \in {"dup2", "dcopy", "dunmap"} => kid[x] # NoEnv
      BY Facts DEF EnvOK, ControlOK, IdleSteps
    <2>2. kid[x] # NoEnv => kid[x] # e0 BY <1>1, OneBuilder
    <2> QED BY <1>1, <2>1, <2>2 DEF Theirs
  <1>3. Ours(e0) = <<x, fault[x].va>> => x = e0 BY <1>1
  <1>4. Ours(e0) # <<x, "temp">> BY <1>1
  <1> QED BY <1>2, <1>3, <1>4 DEF Joint, Temporary

\* The control state after a step within the parent's branch.
LEMMA BuilderControl ==
  ASSUME ForkInv, NEW e0 \in Env, NEW step \in Steps \ IdleSteps, At(e0, step),
         NEW to \in Steps \ IdleSteps, MemTypeOK',
         UNCHANGED <<program, status, parent, kid, fault>>,
         pc' = [pc EXCEPT ![e0] = to],
         pos' \in [Env -> 1 .. 3], \A x \in Env \ {e0} : pos'[x] = pos[x],
         to \in ForkSteps => program = "fork",
         to \in DumbSteps => program = "dumbfork"
  PROVE  /\ ForkTypeOK' /\ OnlyActs(e0) /\ ControlOK(e0)' /\ FaultOK(e0)'
         /\ pc'[e0] = to
  <1>1. ForkTypeOK' BY DEF ForkInv, ForkTypeOK, MemTypeOK
  <1>2. OnlyActs(e0) BY DEF OnlyActs, ForkInv, ForkTypeOK
  <1>3. pc'[e0] = to BY DEF ForkInv, ForkTypeOK
  <1>4. ControlOK(e0)' BY <1>3, BuilderFacts DEF ControlOK
  <1>5. FaultOK(e0)' BY BuilderFacts DEF FaultOK
  <1> QED BY <1>1, <1>2, <1>3, <1>4, <1>5

\* duppage's first call shares the page with the child, and the child may not
\* write to it.
LEMMA DupChildForkInv ==
  ASSUME ForkInv, NEW e0 \in Env, duppage_child(e0)
  PROVE  ForkInv' /\ Silent
  <1>1. At(e0, "dup1") /\ "dup1" \in Steps \ IdleSteps
    BY DEF duppage_child, Steps, ForkSteps, IdleSteps
  <1>2. CASE /\ sys_page_map(Ours(e0), Theirs(e0), DupPerm(perm[Ours(e0)]))
             /\ Goto(e0, "dup2")
             /\ UNCHANGED <<program, envVars, libVars, kid, pos, fault>>
    <2>0. PICK o, d, c : o = Ours(e0) /\ d = Theirs(e0) /\ c = kid[e0] OBVIOUS
    <2>1. /\ status[e0] = "run" /\ fault[e0].at = "none" /\ pc[e0] = "dup1"
          /\ pos[e0] \in 1 .. 3 /\ kid[e0] = c /\ c # e0 /\ status[c] = "new" /\ c \in Env
          /\ c # NoEnv
          /\ o \in Slot /\ d \in Slot /\ o = <<e0, Walk[pos[e0]]>> /\ d = <<c, Walk[pos[e0]]>>
          /\ o # d /\ EnvOK(e0) /\ MemTypeOK /\ PagesOK
      BY <1>1, <2>0, BuilderFacts
    <2>2. /\ pc' = [pc EXCEPT ![e0] = "dup2"]
          /\ UNCHANGED <<program, status, parent, kid, pos, fault>>
      BY <1>2 DEF Goto, envVars
    <2>3. PICK pm \in {"r", "cow"} : pm = DupPerm(perm[o]) BY DEF DupPerm
    <2>4. /\ MemTypeOK' /\ PagesOK' /\ Edits({d}) /\ pp'[d] = pp[o] \cup {d}
          /\ perm'[d] = pm /\ content'[d] = content[o]
      BY <1>2, <2>0, <2>1, <2>3, MapEdits
    <2>5. program = "fork"
      BY <2>1 DEF EnvOK, ControlOK, ForkSteps
    <2>6. /\ ForkTypeOK' /\ OnlyActs(e0) /\ ControlOK(e0)' /\ FaultOK(e0)'
          /\ pc'[e0] = "dup2"
      <3>1. "dup2" \in Steps \ IdleSteps /\ "dup2" \notin DumbSteps
        BY DEF Steps, ForkSteps, IdleSteps, DumbSteps
      <3>2. pos' \in [Env -> 1 .. 3] /\ \A x \in Env \ {e0} : pos'[x] = pos[x]
        BY <2>2 DEF ForkInv, ForkTypeOK
      <3> QED BY <1>1, <2>2, <2>4, <2>5, <3>1, <3>2, BuilderControl
    <2>7. BuildOK(e0)'
      <3>1. Theirs(e0)' = d BY <2>1, <2>2 DEF Theirs
      <3> QED BY <2>4, <2>6, <3>1 DEF BuildOK
    <2>8. CopiedOK(e0)'
      <3>1. ASSUME NEW i \in 1 .. 3, Done(e0, i)'
            PROVE  content'[<<c, Walk[i]>>] = content'[<<e0, Walk[i]>>]
        <4>1. <<c, Walk[i]>> \in Slot /\ <<e0, Walk[i]>> \in Slot \ {d}
          BY <2>1, WalkFacts, SlotFacts
        <4>2. CASE i = pos[e0] BY <2>1, <2>4, <4>1, <4>2 DEF Edits
        <4>3. CASE i # pos[e0]
          <5>1. Done(e0, i) BY <2>2, <2>6, <3>1, <4>3 DEF Done
          <5>2. content[<<c, Walk[i]>>] = content[<<e0, Walk[i]>>]
            BY <2>1, <5>1 DEF EnvOK, CopiedOK
          <5>3. <<c, Walk[i]>> # d BY <2>1, <4>3, WalkFacts
          <5> QED BY <2>4, <4>1, <5>2, <5>3 DEF Edits
        <4> QED BY <4>2, <4>3
      <3> QED BY <2>1, <2>2, <3>1 DEF CopiedOK
    <2>9. EnvOK(e0)' BY <2>6, <2>7, <2>8 DEF EnvOK
    <2>10. \A s, t : ~Joint(e0, s, t) BY <2>1, NotJoint
    <2>11. Joint(e0, o, d)'
      BY <2>1, <2>2, <2>6 DEF Joint, Ours, Theirs
    <2>12. ASSUME NEW t \in pp'[d], d # t, perm'[t] = "w" PROVE t = o
      <3>1. t \in pp[o] /\ t \in Slot /\ perm[t] = "w"
        BY <2>1, <2>4, <2>12 DEF MemTypeOK, Edits
      <3>2. o \in pp[t] BY <2>1, <3>1 DEF PagesOK
      <3>3. \A x \in Env : ~Joint(x, t, o)
        BY <1>1, <2>0, <2>10, OursShared
      <3> QED BY <3>1, <3>2, <3>3 DEF ForkInv, Exclusive
    <2>13. \A s \in {d} : \A t \in pp'[s] : s # t =>
             /\ perm'[s] = "w" => \E e \in Env : Joint(e, s, t)'
             /\ perm'[t] = "w" => \E e \in Env : Joint(e, t, s)'
      BY <2>4, <2>11, <2>12
    <2>14. /\ {d} \in SUBSET Slot /\ \A s \in {d} : s[1] \in {e0, kid[e0]}
           /\ \A s \in {d} : perm'[s] = "cow" => program = "fork"
      BY <2>1, <2>5
    <2>15. Silent BY <2>1, <2>2, <2>4, SilentEdit
    <2>16. ForkInv' BY <2>1, <2>4, <2>6, <2>9, <2>10, <2>13, <2>14, StepOK
    <2> QED BY <2>15, <2>16
  <1>3. CASE panic(e0) BY <1>1, <1>3, BuilderFacts, PanicForkInv
  <1> QED BY <1>2, <1>3 DEF duppage_child

\* Going on to the next page of the walk, or past the last one.
LEMMA NextPageFacts ==
  ASSUME ForkInv, NEW e0 \in Env, NEW first, NEW last, first # last,
         NextPage(e0, first, last)
  PROVE  \E to \in {first, last} :
            /\ pc' = [pc EXCEPT ![e0] = to]
            /\ pos' \in [Env -> 1 .. 3] /\ \A x \in Env \ {e0} : pos'[x] = pos[x]
            /\ to = first => pos'[e0] = pos[e0] + 1
            /\ to = last => pos[e0] = 3 /\ pos'[e0] = 3
  <1>0. pos \in [Env -> 1 .. 3] /\ pos[e0] \in 1 .. 3 /\ Len(Walk) = 3
    BY WalkFacts DEF ForkInv, ForkTypeOK
  <1>1. CASE pos[e0] < Len(Walk)
    <2>1. pos' = [pos EXCEPT ![e0] = @ + 1] /\ pc' = [pc EXCEPT ![e0] = first]
      BY <1>1 DEF NextPage, Goto
    <2>2. pos[e0] + 1 \in 1 .. 3 BY <1>0, <1>1
    <2>3. pos' \in [Env -> 1 .. 3] BY <1>0, <2>1, <2>2
    <2> QED BY <1>0, <2>1, <2>3
  <1>2. CASE ~(pos[e0] < Len(Walk))
    <2>1. pos' = pos /\ pc' = [pc EXCEPT ![e0] = last]
      BY <1>2 DEF NextPage, Goto
    <2> QED BY <1>0, <1>2, <2>1
  <1> QED BY <1>1, <1>2

\* duppage's second call takes the parent's right to write away.
LEMMA DupSelfForkInv ==
  ASSUME ForkInv, NEW e0 \in Env, duppage_self(e0)
  PROVE  ForkInv' /\ Silent
  <1>1. /\ At(e0, "dup2") /\ "dup2" \in Steps \ IdleSteps
        /\ sys_page_map(Theirs(e0), Ours(e0), perm[Theirs(e0)])
        /\ NextPage(e0, "dup1", "xstack")
        /\ UNCHANGED <<program, status, parent, kid, fault>>
    BY DEF duppage_self, envVars, Steps, ForkSteps, IdleSteps
  <1>2. PICK d, o, c, pm : /\ d = Ours(e0) /\ o = Theirs(e0) /\ c = kid[e0]
                           /\ pm = perm[Theirs(e0)]
    OBVIOUS
  <1>3. /\ status[e0] = "run" /\ fault[e0].at = "none" /\ pc[e0] = "dup2"
        /\ pos[e0] \in 1 .. 3 /\ kid[e0] = c /\ c # e0 /\ status[c] = "new" /\ c \in Env
        /\ c # NoEnv
        /\ o \in Slot /\ d \in Slot /\ d = <<e0, Walk[pos[e0]]>> /\ o = <<c, Walk[pos[e0]]>>
        /\ o # d /\ EnvOK(e0) /\ MemTypeOK /\ PagesOK
    BY <1>1, <1>2, BuilderFacts
  <1>4. pm \in {"r", "cow"} /\ program = "fork"
    BY <1>2, <1>3 DEF EnvOK, BuildOK, ControlOK, ForkSteps
  <1>5. content[o] = content[d]
    <2>1. Done(e0, pos[e0]) BY <1>3 DEF Done
    <2> QED BY <1>3, <2>1 DEF EnvOK, CopiedOK
  <1>6. /\ MemTypeOK' /\ PagesOK' /\ Edits({d}) /\ pp'[d] = pp[o] \cup {d}
        /\ perm'[d] = pm /\ content'[d] = content[d]
    BY <1>1, <1>2, <1>3, <1>4, <1>5, MapEdits
  <1>7. PICK to \in {"dup1", "xstack"} :
            /\ pc' = [pc EXCEPT ![e0] = to]
            /\ pos' \in [Env -> 1 .. 3] /\ \A x \in Env \ {e0} : pos'[x] = pos[x]
            /\ to = "dup1" => pos'[e0] = pos[e0] + 1
            /\ to = "xstack" => pos[e0] = 3 /\ pos'[e0] = 3
    BY <1>1, NextPageFacts
  <1>8. /\ ForkTypeOK' /\ OnlyActs(e0) /\ ControlOK(e0)' /\ FaultOK(e0)'
        /\ pc'[e0] = to
    <2>1. to \in Steps \ IdleSteps /\ to \notin DumbSteps
      BY DEF Steps, ForkSteps, IdleSteps, DumbSteps
    <2> QED BY <1>1, <1>4, <1>6, <1>7, <2>1, BuilderControl
  <1>9. BuildOK(e0)' BY <1>8 DEF BuildOK
  <1>10. CopiedOK(e0)'
    <2>1. ASSUME NEW i \in 1 .. 3, Done(e0, i)'
          PROVE  content'[<<c, Walk[i]>>] = content'[<<e0, Walk[i]>>]
      <3>1. <<c, Walk[i]>> \in Slot \ {d} /\ <<e0, Walk[i]>> \in Slot
        BY <1>3, WalkFacts, SlotFacts
      <3>2. Done(e0, i)
        <4>1. i <= pos[e0] BY <1>3, <1>7, <1>8, <2>1 DEF Done
        <4> QED BY <1>3, <4>1 DEF Done
      <3>3. content[<<c, Walk[i]>>] = content[<<e0, Walk[i]>>]
        BY <1>3, <3>2 DEF EnvOK, CopiedOK
      <3>4. \A s \in Slot : content'[s] = content[s] BY <1>6 DEF Edits
      <3> QED BY <3>1, <3>3, <3>4
    <2> QED BY <1>1, <1>3, <2>1 DEF CopiedOK
  <1>11. EnvOK(e0)' BY <1>8, <1>9, <1>10 DEF EnvOK
  <1>12. \A s, t \in Slot \ {d} : ~Joint(e0, s, t)
    BY <1>2, <1>3 DEF Joint, Temporary
  <1>13. ASSUME NEW t \in pp'[d], d # t PROVE perm'[t] # "w"
    <2>1. t \in pp[o] /\ t \in Slot /\ perm'[t] = perm[t]
      BY <1>3, <1>6, <1>13 DEF MemTypeOK, Edits
    <2>2. o \in pp[t] BY <1>3, <2>1 DEF PagesOK
    <2>3. \A x \in Env : ~Joint(x, t, o)
      BY <1>1, <1>2, <1>3, <1>12, <1>13, <2>1, KidShared
    <2>4. perm[o] # "w" BY <1>2, <1>4
    <2> QED BY <2>1, <2>2, <2>3, <2>4 DEF ForkInv, Exclusive
  <1>14. \A s \in {d} : \A t \in pp'[s] : s # t =>
           /\ perm'[s] = "w" => \E e \in Env : Joint(e, s, t)'
           /\ perm'[t] = "w" => \E e \in Env : Joint(e, t, s)'
    BY <1>4, <1>6, <1>13
  <1>15. /\ {d} \in SUBSET Slot /\ \A s \in {d} : s[1] \in {e0, kid[e0]}
         /\ \A s \in {d} : perm'[s] = "cow" => program = "fork"
    BY <1>3, <1>4
  <1>16. Silent BY <1>1, <1>3, <1>6, SilentEdit
  <1>17. ForkInv' BY <1>3, <1>6, <1>8, <1>11, <1>12, <1>14, <1>15, StepOK
  <1> QED BY <1>16, <1>17

\* The child's exception stack.
LEMMA AllocXstackForkInv ==
  ASSUME ForkInv, NEW e0 \in Env, AllocXstack(e0)
  PROVE  ForkInv' /\ Silent
  <1>1. At(e0, "xstack") /\ "xstack" \in Steps \ IdleSteps
    BY DEF AllocXstack, Steps, ForkSteps, IdleSteps
  <1>2. CASE /\ sys_page_alloc(<<kid[e0], "xstack">>) /\ Goto(e0, "upcall")
             /\ UNCHANGED <<program, envVars, libVars, kid, pos, fault>>
    <2>0. PICK c : c = kid[e0] OBVIOUS
    <2>1. /\ status[e0] = "run" /\ fault[e0].at = "none" /\ pc[e0] = "xstack"
          /\ kid[e0] = c /\ c # e0 /\ c \in Env /\ c # NoEnv
          /\ EnvOK(e0) /\ MemTypeOK /\ PagesOK
      BY <1>1, <2>0, BuilderFacts
    <2>2. /\ pc' = [pc EXCEPT ![e0] = "upcall"] /\ sys_page_alloc(<<c, "xstack">>)
          /\ UNCHANGED <<program, status, parent, kid, pos, fault>>
      BY <1>2, <2>0 DEF Goto, envVars
    <2>3. "xstack" \in Va /\ "xstack" \notin Location BY WalkFacts
    <2>4. <<c, "xstack">> \in Slot BY <2>1, <2>3, SlotFacts
    <2>5. MemTypeOK' /\ Edits({<<c, "xstack">>})
      BY <2>1, <2>2, <2>4, AllocEdits
    <2>6. /\ ForkTypeOK' /\ OnlyActs(e0) /\ ControlOK(e0)' /\ FaultOK(e0)'
          /\ pc'[e0] = "upcall"
      <3>1. "upcall" \in Steps \ IdleSteps /\ "upcall" \notin DumbSteps
        BY DEF Steps, ForkSteps, IdleSteps, DumbSteps
      <3>2. pos' \in [Env -> 1 .. 3] /\ \A x \in Env \ {e0} : pos'[x] = pos[x]
        BY <2>2 DEF ForkInv, ForkTypeOK
      <3>3. program = "fork" BY <2>1 DEF EnvOK, ControlOK, ForkSteps
      <3> QED BY <1>1, <2>2, <2>5, <3>1, <3>2, <3>3, BuilderControl
    <2>7. BuildOK(e0)' BY <2>6 DEF BuildOK
    <2>8. CopiedOK(e0)'
      <3>1. ASSUME NEW i \in 1 .. 3
            PROVE  content'[<<c, Walk[i]>>] = content'[<<e0, Walk[i]>>]
        <4>1. /\ <<c, Walk[i]>> \in Slot \ {<<c, "xstack">>}
              /\ <<e0, Walk[i]>> \in Slot \ {<<c, "xstack">>}
          BY <2>1, <2>3, WalkFacts, SlotFacts
        <4>2. content[<<c, Walk[i]>>] = content[<<e0, Walk[i]>>]
          BY <2>1 DEF EnvOK, CopiedOK, Done
        <4> QED BY <2>5, <4>1, <4>2 DEF Edits
      <3> QED BY <2>1, <2>2, <3>1 DEF CopiedOK
    <2>9. EnvOK(e0)' BY <2>6, <2>7, <2>8 DEF EnvOK
    <2>10. \A s, t : ~Joint(e0, s, t) BY <2>1, NotJoint
    <2> QED BY <2>1, <2>2, <2>3, <2>6, <2>9, <2>10, AllocStep
  <1>3. CASE panic(e0) BY <1>1, <1>3, BuilderFacts, PanicForkInv
  <1> QED BY <1>2, <1>3 DEF AllocXstack

\* sys_env_set_pgfault_upcall does not concern memory.
LEMMA SetUpcallForkInv ==
  ASSUME ForkInv, NEW e0 \in Env, sys_env_set_pgfault_upcall(e0)
  PROVE  ForkInv' /\ Silent
  <1>1. /\ At(e0, "upcall") /\ "upcall" \in Steps \ IdleSteps
        /\ pc' = [pc EXCEPT ![e0] = "status"]
        /\ UNCHANGED memVars /\ UNCHANGED <<program, status, parent, kid, pos, fault>>
    BY DEF sys_env_set_pgfault_upcall, Goto, Steps, ForkSteps, IdleSteps
  <1>2. MemTypeOK' BY <1>1, MemKept
  <1>3. /\ ForkTypeOK' /\ OnlyActs(e0) /\ ControlOK(e0)' /\ FaultOK(e0)'
        /\ pc'[e0] = "status"
    <2>1. "status" \in Steps \ IdleSteps /\ "status" \notin DumbSteps \cup ForkSteps
      BY DEF Steps, ForkSteps, IdleSteps, DumbSteps
    <2>2. pos' \in [Env -> 1 .. 3] /\ \A x \in Env \ {e0} : pos'[x] = pos[x]
      BY <1>1 DEF ForkInv, ForkTypeOK
    <2> QED BY <1>1, <1>2, <2>1, <2>2, BuilderControl
  <1>4. BuildOK(e0)' BY <1>3 DEF BuildOK
  <1>5. CopiedOK(e0)'
    <2>1. EnvOK(e0) /\ pc[e0] = "upcall" BY <1>1, BuilderFacts
    <2> QED BY <1>1, <2>1 DEF EnvOK, CopiedOK, Done, memVars
  <1>6. EnvOK(e0)' BY <1>3, <1>4, <1>5 DEF EnvOK
  <1>7. \A s, t : ~Joint(e0, s, t) BY <1>1, BuilderFacts, NotJoint
  <1>8. Silent BY <1>1, SilentControl
  <1> QED BY <1>1, <1>3, <1>6, <1>7, <1>8, BuilderFacts, ControlStep

\* sys_env_set_status: the child has everything the parent has, and starts.
LEMMA SetStatusForkInv ==
  ASSUME ForkInv, NEW e0 \in Env, sys_env_set_status(e0)
  PROVE  /\ ForkInv'
         /\ \E c \in Env :
              /\ e0 \in Live /\ c \notin Live /\ Live' = Live \cup {c}
              /\ UNCHANGED memVars
              /\ \A va \in Location : content[<<c, va>>] = content[<<e0, va>>]
  <1>1. At(e0, "status") /\ "status" \in Steps \ IdleSteps
    BY DEF sys_env_set_status, Steps, IdleSteps
  <1>2. PICK c : c = kid[e0] OBVIOUS
  <1>3. /\ status[e0] = "run" /\ fault[e0] = NoFault /\ fault[e0].at = "none"
        /\ pc[e0] = "status" /\ kid[e0] = c /\ c # e0 /\ status[c] = "new"
        /\ c \in Env /\ c # NoEnv /\ EnvOK(e0)
    BY <1>1, <1>2, BuilderFacts
  <1>4. pc[c] = "child" /\ kid[c] = NoEnv /\ fault[c] = NoFault
    BY <1>3, OneBuilder
  <1>5. /\ status' = [status EXCEPT ![c] = "run"] /\ kid' = [kid EXCEPT ![e0] = NoEnv]
        /\ pos' = [pos EXCEPT ![e0] = 1] /\ pc' = [pc EXCEPT ![e0] = "user"]
        /\ UNCHANGED <<program, parent, fault>> /\ UNCHANGED <<pp, perm, content>>
    BY <1>2 DEF sys_env_set_status, Goto, memVars
  <1>6. /\ status'[c] = "run" /\ pc'[e0] = "user" /\ kid'[e0] = NoEnv
        /\ \A x \in Env \ {c} : status'[x] = status[x]
        /\ \A x \in Env \ {e0} : kid'[x] = kid[x] /\ pos'[x] = pos[x] /\ pc'[x] = pc[x]
    BY <1>3, <1>5 DEF ForkInv, ForkTypeOK
  <1>7. ForkTypeOK'
    <2>1. ForkTypeOK /\ "user" \in Steps BY DEF ForkInv, Steps, IdleSteps
    <2>2. status' \in [Env -> {"free", "new", "run", "panic"}]
      BY <1>3, <1>5, <2>1 DEF ForkTypeOK
    <2>3. kid' \in [Env -> Env \cup {NoEnv}] BY <1>5, <2>1 DEF ForkTypeOK
    <2>4. pos' \in [Env -> 1 .. 3] BY <1>5, <2>1 DEF ForkTypeOK
    <2>5. pc' \in [Env -> Steps] BY <1>5, <2>1 DEF ForkTypeOK
    <2> QED BY <1>5, <2>1, <2>2, <2>3, <2>4, <2>5 DEF ForkTypeOK
  <1>8. EnvOK(e0)' BY <1>3, <1>5, <1>6, IdleEnvOK DEF IdleSteps
  <1>9. EnvOK(c)' BY <1>3, <1>4, <1>5, <1>6, IdleEnvOK DEF IdleSteps
  <1>10. ASSUME NEW x \in Env \ {c, e0} PROVE EnvOK(x)'
    <2>0. EnvOK(x) BY DEF ForkInv
    <2>1. kid[x] # NoEnv => kid[x] \in Env \ {c} BY <1>3, OneBuilder
    <2>2. ControlOK(x)' BY <1>5, <1>6, <2>0, <2>1 DEF EnvOK, ControlOK
    <2>3. FaultOK(x)' BY <1>5, <2>0 DEF EnvOK, FaultOK
    <2>4. BuildOK(x)' BY <1>5, <1>6, <2>0 DEF EnvOK, BuildOK, Theirs
    <2>5. CopiedOK(x)' BY <1>5, <1>6, <2>0 DEF EnvOK, CopiedOK, Done
    <2> QED BY <2>2, <2>3, <2>4, <2>5 DEF EnvOK
  <1>11. Exclusive'
    <2>1. ASSUME NEW x \in Env, NEW s, NEW t, Joint(x, s, t) PROVE Joint(x, s, t)'
      <3>1. x # e0 BY <1>3, <2>1, NotJoint
      <3> QED BY <1>5, <1>6, <2>1, <3>1 DEF Joint, Temporary, Ours, Theirs
    <2> QED BY <1>5, <2>1 DEF ForkInv, Exclusive
  <1>12. PagesOK' /\ CowOnlyInFork'
    BY <1>5 DEF ForkInv, PagesOK, CowOnlyInFork
  <1>13. ForkInv' BY <1>7, <1>8, <1>9, <1>10, <1>11, <1>12 DEF ForkInv
  <1>14. \A va \in Location : content[<<c, va>>] = content[<<e0, va>>]
    <2>1. \A i \in 1 .. 3 : content[<<c, Walk[i]>>] = content[<<e0, Walk[i]>>]
      BY <1>3 DEF EnvOK, CopiedOK, Done
    <2> QED BY <2>1, WalkFacts
  <1>15. e0 \in Live /\ c \notin Live /\ Live' = Live \cup {c}
    BY <1>3, <1>6 DEF Live
  <1> QED BY <1>3, <1>5, <1>13, <1>14, <1>15 DEF memVars

\* dumbfork gives the child a page of its own.
LEMMA DumbAllocForkInv ==
  ASSUME ForkInv, NEW e0 \in Env, dumb_alloc(e0)
  PROVE  ForkInv' /\ Silent
  <1>1. At(e0, "dalloc") /\ "dalloc" \in Steps \ IdleSteps
    BY DEF dumb_alloc, Steps, DumbSteps, IdleSteps
  <1>2. CASE /\ sys_page_alloc(Theirs(e0)) /\ Goto(e0, "dmap")
             /\ UNCHANGED <<program, envVars, libVars, kid, pos, fault>>
    <2>0. PICK c, va : c = kid[e0] /\ va = Walk[pos[e0]] OBVIOUS
    <2>1. /\ status[e0] = "run" /\ fault[e0].at = "none" /\ pc[e0] = "dalloc"
          /\ pos[e0] \in 1 .. 3 /\ kid[e0] = c /\ c # e0 /\ c \in Env /\ c # NoEnv
          /\ EnvOK(e0) /\ MemTypeOK /\ PagesOK
          /\ Theirs(e0) = <<c, va>> /\ <<c, va>> \in Slot /\ va \in Va
      BY <1>1, <2>0, BuilderFacts, WalkFacts
    <2>2. /\ pc' = [pc EXCEPT ![e0] = "dmap"] /\ sys_page_alloc(<<c, va>>)
          /\ UNCHANGED <<program, status, parent, kid, pos, fault>>
      BY <1>2, <2>1 DEF Goto, envVars
    <2>3. MemTypeOK' /\ Edits({<<c, va>>}) /\ perm'[<<c, va>>] = "w"
      BY <2>1, <2>2, AllocEdits
    <2>4. /\ ForkTypeOK' /\ OnlyActs(e0) /\ ControlOK(e0)' /\ FaultOK(e0)'
          /\ pc'[e0] = "dmap"
      <3>1. "dmap" \in Steps \ IdleSteps /\ "dmap" \notin ForkSteps
        BY DEF Steps, ForkSteps, IdleSteps, DumbSteps
      <3>2. pos' \in [Env -> 1 .. 3] /\ \A x \in Env \ {e0} : pos'[x] = pos[x]
        BY <2>2 DEF ForkInv, ForkTypeOK
      <3>3. program = "dumbfork" BY <2>1 DEF EnvOK, ControlOK, DumbSteps
      <3> QED BY <1>1, <2>2, <2>3, <3>1, <3>2, <3>3, BuilderControl
    <2>5. BuildOK(e0)'
      <3>1. Theirs(e0)' = <<c, va>> BY <2>1, <2>2 DEF Theirs
      <3> QED BY <2>3, <2>4, <3>1 DEF BuildOK
    <2>6. CopiedOK(e0)'
      <3>1. ASSUME NEW i \in 1 .. 3, Done(e0, i)'
            PROVE  content'[<<c, Walk[i]>>] = content'[<<e0, Walk[i]>>]
        <4>1. i < pos[e0] BY <2>2, <2>4, <3>1 DEF Done
        <4>2. Walk[i] # va BY <2>0, <2>1, <4>1, WalkFacts
        <4>3. /\ <<c, Walk[i]>> \in Slot \ {<<c, va>>}
              /\ <<e0, Walk[i]>> \in Slot \ {<<c, va>>}
          BY <2>1, <4>2, WalkFacts, SlotFacts
        <4>4. content[<<c, Walk[i]>>] = content[<<e0, Walk[i]>>]
          BY <2>1, <4>1 DEF EnvOK, CopiedOK, Done
        <4> QED BY <2>3, <4>3, <4>4 DEF Edits
      <3> QED BY <2>1, <2>2, <3>1 DEF CopiedOK
    <2>7. EnvOK(e0)' BY <2>4, <2>5, <2>6 DEF EnvOK
    <2>8. \A s, t : ~Joint(e0, s, t) BY <2>1, NotJoint
    <2> QED BY <2>1, <2>2, <2>4, <2>7, <2>8, AllocStep
  <1>3. CASE panic(e0) BY <1>1, <1>3, BuilderFacts, PanicForkInv
  <1> QED BY <1>2, <1>3 DEF dumb_alloc

\* dumbfork maps the child's page at UTEMP: both may write to it.
LEMMA DumbMapForkInv ==
  ASSUME ForkInv, NEW e0 \in Env, dumb_map(e0)
  PROVE  ForkInv' /\ Silent
  <1>1. At(e0, "dmap") /\ "dmap" \in Steps \ IdleSteps
    BY DEF dumb_map, Steps, DumbSteps, IdleSteps
  <1>2. CASE /\ sys_page_map(Theirs(e0), <<e0, "temp">>, "w") /\ Goto(e0, "dcopy")
             /\ UNCHANGED <<program, envVars, libVars, kid, pos, fault>>
    <2>0. PICK c, o, d : c = kid[e0] /\ o = Theirs(e0) /\ d = <<e0, "temp">> OBVIOUS
    <2>1. /\ status[e0] = "run" /\ fault[e0].at = "none" /\ pc[e0] = "dmap"
          /\ pos[e0] \in 1 .. 3 /\ kid[e0] = c /\ c # e0 /\ c \in Env /\ c # NoEnv
          /\ EnvOK(e0) /\ MemTypeOK /\ PagesOK
          /\ o = <<c, Walk[pos[e0]]>> /\ o \in Slot
      BY <1>1, <2>0, BuilderFacts
    <2>2. d \in Slot /\ d # o /\ d[1] = e0 /\ d[2] \notin Location
      <3>1. d \in Slot BY <2>0, SlotFacts, WalkFacts
      <3>2. d[1] = e0 /\ d[2] = "temp" BY <2>0
      <3>3. o[1] = c BY <2>1
      <3>4. "temp" \notin Location BY WalkFacts
      <3> QED BY <2>1, <3>1, <3>2, <3>3, <3>4
    <2>3. /\ pc' = [pc EXCEPT ![e0] = "dcopy"] /\ sys_page_map(o, d, "w")
          /\ UNCHANGED <<program, status, parent, kid, pos, fault>>
      BY <1>2, <2>0 DEF Goto, envVars
    <2>4. \A s, t : ~Joint(e0, s, t) BY <2>1, NotJoint
    <2>5. perm[o] = "w" /\ pp[o] = {o}
      <3>1. perm[o] = "w" BY <2>0, <2>1 DEF EnvOK, BuildOK
      <3>2. o \in pp[o] BY <2>1, <3>1 DEF PagesOK
      <3>3. \A x \in Env, t \in Slot : ~Joint(x, o, t)
        BY <1>1, <2>0, <2>4, KidShared
      <3>4. \A t \in pp[o] : t = o
        BY <2>1, <3>1, <3>3 DEF ForkInv, Exclusive, MemTypeOK
      <3> QED BY <3>1, <3>2, <3>4
    <2>6. /\ MemTypeOK' /\ PagesOK' /\ Edits({d}) /\ pp'[d] = {o, d} /\ perm'[d] = "w"
      BY <2>1, <2>2, <2>3, <2>5, MapEdits
    <2>7. /\ ForkTypeOK' /\ OnlyActs(e0) /\ ControlOK(e0)' /\ FaultOK(e0)'
          /\ pc'[e0] = "dcopy"
      <3>1. "dcopy" \in Steps \ IdleSteps /\ "dcopy" \notin ForkSteps
        BY DEF Steps, ForkSteps, IdleSteps, DumbSteps
      <3>2. pos' \in [Env -> 1 .. 3] /\ \A x \in Env \ {e0} : pos'[x] = pos[x]
        BY <2>3 DEF ForkInv, ForkTypeOK
      <3>3. program = "dumbfork" BY <2>1 DEF EnvOK, ControlOK, DumbSteps
      <3> QED BY <1>1, <2>3, <2>6, <3>1, <3>2, <3>3, BuilderControl
    <2>8. Theirs(e0)' = o BY <2>1, <2>3 DEF Theirs
    <2>9. BuildOK(e0)'
      BY <2>0, <2>6, <2>7, <2>8 DEF BuildOK
    <2>10. CopiedOK(e0)'
      <3>1. ASSUME NEW i \in 1 .. 3, Done(e0, i)'
            PROVE  content'[<<c, Walk[i]>>] = content'[<<e0, Walk[i]>>]
        <4>1. i < pos[e0] BY <2>3, <2>7, <3>1 DEF Done
        <4>2. <<c, Walk[i]>> \in Slot \ {d} /\ <<e0, Walk[i]>> \in Slot \ {d}
          BY <2>0, <2>1, WalkFacts, SlotFacts
        <4>3. content[<<c, Walk[i]>>] = content[<<e0, Walk[i]>>]
          BY <2>1, <4>1 DEF EnvOK, CopiedOK, Done
        <4> QED BY <2>6, <4>2, <4>3 DEF Edits
      <3> QED BY <2>1, <2>3, <3>1 DEF CopiedOK
    <2>11. EnvOK(e0)' BY <2>7, <2>9, <2>10 DEF EnvOK
    <2>12. Joint(e0, d, o)' /\ Joint(e0, o, d)'
      BY <2>0, <2>7, <2>8 DEF Joint, Temporary
    <2>13. \A s \in {d} : \A t \in pp'[s] : s # t =>
             /\ perm'[s] = "w" => \E e \in Env : Joint(e, s, t)'
             /\ perm'[t] = "w" => \E e \in Env : Joint(e, t, s)'
      BY <2>6, <2>12
    <2>14. /\ {d} \in SUBSET Slot /\ \A s \in {d} : s[1] \in {e0, kid[e0]}
           /\ \A s \in {d} : perm'[s] = "w"
      BY <2>2, <2>6
    <2>15. Silent BY <2>2, <2>3, <2>6, SilentEdit
    <2>16. ForkInv' BY <2>1, <2>4, <2>6, <2>7, <2>11, <2>13, <2>14, StepOK
    <2> QED BY <2>15, <2>16
  <1>3. CASE panic(e0) BY <1>1, <1>3, BuilderFacts, PanicForkInv
  <1> QED BY <1>2, <1>3 DEF dumb_map

\* dumbfork copies the page: only the child's entry and UTEMP see it.
LEMMA DumbCopyForkInv ==
  ASSUME ForkInv, NEW e0 \in Env, dumb_copy(e0)
  PROVE  ForkInv' /\ Silent
  <1>1. /\ At(e0, "dcopy") /\ "dcopy" \in Steps \ IdleSteps
        /\ Write(<<e0, "temp">>, content[Ours(e0)])
        /\ pc' = [pc EXCEPT ![e0] = "dunmap"]
        /\ UNCHANGED <<program, status, parent, kid, pos, fault>>
    BY DEF dumb_copy, memmove, Goto, envVars, Steps, DumbSteps, IdleSteps
  <1>2. PICK c, o, d, u : /\ c = kid[e0] /\ o = Theirs(e0) /\ d = <<e0, "temp">>
                          /\ u = Ours(e0)
    OBVIOUS
  <1>3. /\ status[e0] = "run" /\ fault[e0].at = "none" /\ pc[e0] = "dcopy"
        /\ pos[e0] \in 1 .. 3 /\ kid[e0] = c /\ c # e0 /\ c \in Env /\ c # NoEnv
        /\ status[c] = "new" /\ EnvOK(e0) /\ MemTypeOK /\ PagesOK
        /\ o = <<c, Walk[pos[e0]]>> /\ o \in Slot /\ u = <<e0, Walk[pos[e0]]>> /\ u \in Slot
    BY <1>1, <1>2, BuilderFacts
  <1>4. /\ d \in Slot /\ d # o /\ d # u /\ o # u /\ d[1] = e0 /\ d[2] \notin Location
        /\ "temp" \in Va /\ o[1] = c
    <2>1. "temp" \in Va /\ "temp" \notin Location BY WalkFacts
    <2>2. d \in Slot /\ d[1] = e0 /\ d[2] = "temp" BY <1>2, <2>1, SlotFacts
    <2>3. o[1] = c /\ u[1] = e0 /\ u[2] = Walk[pos[e0]] BY <1>3
    <2>4. Walk[pos[e0]] \in Location BY <1>3, WalkFacts
    <2>5. d # o /\ o # u BY <1>3, <2>2, <2>3
    <2>6. d # u BY <2>1, <2>2, <2>3, <2>4
    <2> QED BY <2>1, <2>2, <2>3, <2>5, <2>6
  <1>5. perm[d] = "w" /\ pp[d] = {d, o}
    <2>1. perm[d] = "w" /\ o \in pp[d] BY <1>2, <1>3 DEF EnvOK, BuildOK
    <2>2. d \in pp[d] BY <1>3, <1>4, <2>1 DEF PagesOK
    <2>3. ASSUME NEW t \in pp[d], t # d PROVE t = o
      <3>1. Joint(e0, d, t) BY <1>2, <1>3, <1>4, <2>1, <2>3, OwnPages
      <3> QED BY <1>2, <1>3, <1>4, <3>1 DEF Joint, Temporary
    <2> QED BY <2>1, <2>2, <2>3
  <1>6. /\ MemTypeOK' /\ PagesOK' /\ Edits(pp[d]) /\ UNCHANGED <<pp, perm>>
        /\ \A t \in Slot : content'[t] = IF t \in pp[d] THEN content[u] ELSE content[t]
    <2>1. content[u] \in Value \cup {Junk} BY <1>3 DEF MemTypeOK
    <2> QED BY <1>1, <1>2, <1>3, <1>4, <2>1, WriteEdits
  <1>7. \A t \in Slot : content'[t] = IF t \in {d, o} THEN content[u] ELSE content[t]
    BY <1>5, <1>6
  <1>8. /\ ForkTypeOK' /\ OnlyActs(e0) /\ ControlOK(e0)' /\ FaultOK(e0)'
        /\ pc'[e0] = "dunmap"
    <2>1. "dunmap" \in Steps \ IdleSteps /\ "dunmap" \notin ForkSteps
      BY DEF Steps, ForkSteps, IdleSteps, DumbSteps
    <2>2. pos' \in [Env -> 1 .. 3] /\ \A x \in Env \ {e0} : pos'[x] = pos[x]
      BY <1>1 DEF ForkInv, ForkTypeOK
    <2>3. program = "dumbfork" BY <1>3 DEF EnvOK, ControlOK, DumbSteps
    <2> QED BY <1>1, <1>6, <2>1, <2>2, <2>3, BuilderControl
  <1>9. Theirs(e0)' = o BY <1>1, <1>3 DEF Theirs
  <1>10. BuildOK(e0)' BY <1>2, <1>5, <1>6, <1>8, <1>9 DEF BuildOK
  <1>11. CopiedOK(e0)'
    <2>1. ASSUME NEW i \in 1 .. 3, Done(e0, i)'
          PROVE  content'[<<c, Walk[i]>>] = content'[<<e0, Walk[i]>>]
      <3>1. /\ <<c, Walk[i]>> \in Slot \ {d} /\ <<e0, Walk[i]>> \in Slot \ {d, o}
        <4>1. Walk[i] \in Location /\ Walk[i] \in Va /\ "temp" \notin Location
          BY WalkFacts
        <4>2. <<c, Walk[i]>> \in Slot /\ <<e0, Walk[i]>> \in Slot
          BY <1>3, <4>1, SlotFacts
        <4>3. <<c, Walk[i]>> # d BY <1>2, <1>3
        <4>4. <<e0, Walk[i]>> # d BY <1>2, <4>1
        <4>5. <<e0, Walk[i]>> # o BY <1>3
        <4> QED BY <4>2, <4>3, <4>4, <4>5
      <3>2. CASE i = pos[e0] BY <1>3, <1>7, <3>1, <3>2
      <3>3. CASE i # pos[e0]
        <4>1. i < pos[e0] BY <1>1, <1>8, <2>1, <3>3 DEF Done
        <4>2. content[<<c, Walk[i]>>] = content[<<e0, Walk[i]>>]
          BY <1>3, <4>1 DEF EnvOK, CopiedOK, Done
        <4>3. <<c, Walk[i]>> # o BY <1>3, <3>3, WalkFacts
        <4> QED BY <1>7, <3>1, <4>2, <4>3
      <3> QED BY <3>2, <3>3
    <2> QED BY <1>1, <1>3, <2>1 DEF CopiedOK
  <1>12. EnvOK(e0)' BY <1>8, <1>10, <1>11 DEF EnvOK
  <1>13. Joint(e0, d, o)' /\ Joint(e0, o, d)'
    BY <1>2, <1>8, <1>9 DEF Joint, Temporary
  <1>14. pp'[d] = {d, o} /\ pp'[o] = {d, o}
    BY <1>3, <1>4, <1>5, <1>6 DEF PagesOK
  <1>15. \A s \in {d, o} : \A t \in pp'[s] : s # t =>
           /\ perm'[s] = "w" => \E e \in Env : Joint(e, s, t)'
           /\ perm'[t] = "w" => \E e \in Env : Joint(e, t, s)'
    BY <1>13, <1>14
  <1>16. \A s, t \in Slot \ {d, o} : ~Joint(e0, s, t)
    BY <1>2, <1>3 DEF Joint, Temporary
  <1>17. /\ {d, o} \in SUBSET Slot /\ \A s \in {d, o} : s[1] \in {e0, kid[e0]}
         /\ Edits({d, o})
    BY <1>3, <1>4, <1>5, <1>6
  <1>18. \A s \in {d, o} : perm'[s] = "cow" => program = "fork"
    BY <1>3, <1>4, <1>6 DEF ForkInv, CowOnlyInFork
  <1>19. ForkInv'
    BY <1>3, <1>6, <1>8, <1>12, <1>15, <1>16, <1>17, <1>18, StepOK
  <1>20. Silent
    <2>1. Live' = Live BY <1>1 DEF Live
    <2>2. c \notin Live BY <1>3 DEF Live
    <2>3. ASSUME NEW x \in Live, NEW va \in Location
          PROVE  content'[<<x, va>>] = content[<<x, va>>]
      <3>1. <<x, va>> \in Slot BY SlotFacts, WalkFacts DEF Live
      <3>2. <<x, va>> # o /\ <<x, va>> # d BY <1>2, <1>3, <2>2, WalkFacts
      <3> QED BY <1>7, <3>1, <3>2
    <2> QED BY <2>1, <2>3 DEF Silent
  <1> QED BY <1>19, <1>20

\* dumbfork unmaps UTEMP and goes on.
LEMMA DumbUnmapForkInv ==
  ASSUME ForkInv, NEW e0 \in Env, dumb_unmap(e0)
  PROVE  ForkInv' /\ Silent
  <1>1. /\ At(e0, "dunmap") /\ "dunmap" \in Steps \ IdleSteps
        /\ sys_page_unmap(<<e0, "temp">>)
        /\ NextPage(e0, "dalloc", "status")
        /\ UNCHANGED <<program, status, parent, kid, fault>>
    BY DEF dumb_unmap, envVars, Steps, DumbSteps, IdleSteps
  <1>2. PICK c, d : c = kid[e0] /\ d = <<e0, "temp">> OBVIOUS
  <1>3. /\ status[e0] = "run" /\ fault[e0].at = "none" /\ pc[e0] = "dunmap"
        /\ pos[e0] \in 1 .. 3 /\ kid[e0] = c /\ c # e0 /\ c \in Env /\ c # NoEnv
        /\ EnvOK(e0) /\ MemTypeOK /\ PagesOK
    BY <1>1, <1>2, BuilderFacts
  <1>4. d \in Slot /\ d[1] = e0 /\ d[2] \notin Location
    BY <1>2, SlotFacts, WalkFacts
  <1>5. MemTypeOK' /\ PagesOK' /\ Edits({d}) /\ pp'[d] = {} /\ perm'[d] = "none"
    BY <1>1, <1>2, <1>3, <1>4, UnmapEdits
  <1>6. PICK to \in {"dalloc", "status"} :
            /\ pc' = [pc EXCEPT ![e0] = to]
            /\ pos' \in [Env -> 1 .. 3] /\ \A x \in Env \ {e0} : pos'[x] = pos[x]
            /\ to = "dalloc" => pos'[e0] = pos[e0] + 1
            /\ to = "status" => pos[e0] = 3 /\ pos'[e0] = 3
    BY <1>1, NextPageFacts
  <1>7. /\ ForkTypeOK' /\ OnlyActs(e0) /\ ControlOK(e0)' /\ FaultOK(e0)'
        /\ pc'[e0] = to
    <2>1. to \in Steps \ IdleSteps /\ to \notin ForkSteps
      BY DEF Steps, ForkSteps, IdleSteps, DumbSteps
    <2>2. program = "dumbfork" BY <1>3 DEF EnvOK, ControlOK, DumbSteps
    <2> QED BY <1>1, <1>5, <1>6, <2>1, <2>2, BuilderControl
  <1>8. BuildOK(e0)' BY <1>7 DEF BuildOK
  <1>9. CopiedOK(e0)'
    <2>1. ASSUME NEW i \in 1 .. 3, Done(e0, i)'
          PROVE  content'[<<c, Walk[i]>>] = content'[<<e0, Walk[i]>>]
      <3>1. <<c, Walk[i]>> \in Slot \ {d} /\ <<e0, Walk[i]>> \in Slot \ {d}
        BY <1>2, <1>3, WalkFacts, SlotFacts
      <3>2. Done(e0, i)
        <4>1. i <= pos[e0] BY <1>3, <1>6, <1>7, <2>1 DEF Done
        <4> QED BY <1>3, <4>1 DEF Done
      <3>3. content[<<c, Walk[i]>>] = content[<<e0, Walk[i]>>]
        BY <1>3, <3>2 DEF EnvOK, CopiedOK
      <3> QED BY <1>5, <3>1, <3>3 DEF Edits
    <2> QED BY <1>1, <1>3, <2>1 DEF CopiedOK
  <1>10. EnvOK(e0)' BY <1>7, <1>8, <1>9 DEF EnvOK
  <1>11. \A s, t \in Slot \ {d} : ~Joint(e0, s, t)
    BY <1>2, <1>3 DEF Joint, Temporary
  <1>12. {d} \in SUBSET Slot /\ \A s \in {d} : s[1] \in {e0, kid[e0]} /\ pp'[s] = {} /\ perm'[s] = "none"
    BY <1>4, <1>5
  <1>13. Silent BY <1>1, <1>4, <1>5, SilentEdit
  <1>14. ForkInv' BY <1>3, <1>5, <1>7, <1>10, <1>11, <1>12, StepOK
  <1> QED BY <1>13, <1>14

-----------------------------------------------------------------------------
(***************************************************************************)
(* All steps                                                               *)
(***************************************************************************)

\* What programs see of a step: nothing, an environment that ends, a store
\* into a page that nobody else maps, or a child that starts with a copy of
\* its parent's memory.
Shows ==
    \/ Silent
    \/ \E e \in Env : Running(e) /\ Destroy(e)
    \/ \E e \in Env, va \in Location, v \in Value :
         Store(e, va, v) /\ pp[<<e, va>>] = {<<e, va>>}
    \/ \E e, c \in Env :
         /\ e \in Live /\ c \notin Live /\ Live' = Live \cup {c}
         /\ UNCHANGED memVars
         /\ \A va \in Location : content[<<c, va>>] = content[<<e, va>>]

\* Every step of the specification keeps the invariant, and programs see no
\* more of it than that.
LEMMA NextForkInv ==
  ASSUME ForkInv, [Next]_vars
  PROVE  ForkInv' /\ Shows
  <1>1. ASSUME NEW e \in Env, UserStep(e) PROVE ForkInv' /\ Shows
    <2>1. CASE exit(e)
      <3>1. Running(e) /\ status[e] = "run" /\ Destroy(e) BY <2>1 DEF exit, Running
      <3> QED BY <3>1, DestroyForkInv DEF Shows
    <2>2. CASE CallFork(e) BY <2>2, CallForkForkInv DEF Shows
    <2>3. CASE \E va \in Location, v \in Value : Store(e, va, v)
      <3>1. PICK va \in Location, v \in Value : Store(e, va, v) BY <2>3
      <3>2. ForkInv' /\ pp[<<e, va>>] = {<<e, va>>} BY <3>1, StoreForkInv
      <3> QED BY <3>1, <3>2 DEF Shows
    <2> QED BY <1>1, <2>1, <2>2, <2>3 DEF UserStep
  <1>2. ASSUME NEW e \in Env, LibStep(e) PROVE ForkInv' /\ Shows
    <2>1. CASE pgfault_alloc(e) BY <2>1, PgfaultAllocForkInv DEF Shows
    <2>2. CASE pgfault_copy(e) BY <2>2, PgfaultCopyForkInv DEF Shows
    <2>3. CASE pgfault_map(e) BY <2>3, PgfaultMapForkInv DEF Shows
    <2>4. CASE pgfault_unmap(e) BY <2>4, PgfaultUnmapForkInv DEF Shows
    <2>5. CASE set_pgfault_handler(e) BY <2>5, SetHandlerForkInv DEF Shows
    <2>6. CASE sys_exofork(e) BY <2>6, ExoforkForkInv DEF Shows
    <2>7. CASE ReturnZero(e) BY <2>7, ReturnZeroForkInv DEF Shows
    <2>8. CASE duppage_child(e) BY <2>8, DupChildForkInv DEF Shows
    <2>9. CASE duppage_self(e) BY <2>9, DupSelfForkInv DEF Shows
    <2>10. CASE AllocXstack(e) BY <2>10, AllocXstackForkInv DEF Shows
    <2>11. CASE sys_env_set_pgfault_upcall(e) BY <2>11, SetUpcallForkInv DEF Shows
    <2>12. CASE sys_env_set_status(e) BY <2>12, SetStatusForkInv DEF Shows
    <2>13. CASE dumb_alloc(e) BY <2>13, DumbAllocForkInv DEF Shows
    <2>14. CASE dumb_map(e) BY <2>14, DumbMapForkInv DEF Shows
    <2>15. CASE dumb_copy(e) BY <2>15, DumbCopyForkInv DEF Shows
    <2>16. CASE dumb_unmap(e) BY <2>16, DumbUnmapForkInv DEF Shows
    <2> QED
      BY <1>2, <2>1, <2>2, <2>3, <2>4, <2>5, <2>6, <2>7, <2>8, <2>9, <2>10, <2>11,
         <2>12, <2>13, <2>14, <2>15, <2>16 DEF LibStep
  <1>3. ASSUME NEW e \in Env, NEW va \in Location, PageFault(e, va)
        PROVE  ForkInv' /\ Shows
    BY <1>3, PageFaultForkInv DEF Shows
  <1>4. CASE UNCHANGED vars
    <2>1. /\ UNCHANGED <<program, status, parent, pc, kid, pos, fault>>
          /\ UNCHANGED <<pp, perm, content>>
      BY <1>4 DEF vars, memVars, envVars, ctlVars
    <2>2. Silent BY <2>1 DEF Silent, Live
    <2>3. ForkTypeOK' /\ PagesOK' /\ CowOnlyInFork'
      BY <2>1 DEF ForkInv, ForkTypeOK, PagesOK, CowOnlyInFork
    <2>4. Exclusive'
      BY <2>1 DEF ForkInv, Exclusive, Joint, Temporary, Ours, Theirs
    <2>5. ASSUME NEW e \in Env PROVE EnvOK(e)'
      <3>1. EnvOK(e) BY DEF ForkInv
      <3> QED BY <2>1, <3>1
            DEF EnvOK, ControlOK, FaultOK, BuildOK, CopiedOK, Done, Theirs
    <2> QED BY <2>2, <2>3, <2>4, <2>5 DEF ForkInv, Shows
  <1> QED BY <1>1, <1>2, <1>3, <1>4 DEF Next

\* The pages of all environments, the progress of every fork and of every page
\* fault handler always fit together (ForkInv).
THEOREM ForkInvariant == Spec => []ForkInv
  <1>1. Init => ForkInv BY InitForkInv
  <1>2. ForkInv /\ [Next]_vars => ForkInv' BY NextForkInv
  <1> QED BY <1>1, <1>2, PTL DEF Spec

\* A page that two environments map is writable in neither, but for the two
\* moments in duppage and dumbfork: the parent has its own page writable
\* between the two calls of sys_page_map, and UTEMP while it copies.
THEOREM ForkCowSafe == Spec => []CowSafe
  <1>1. ForkInv => CowSafe
    <2> SUFFICES ASSUME ForkInv, NEW s \in Slot, NEW t \in pp[s],
                        perm[s] = "w", s[1] # t[1]
                 PROVE
            \/ Building(s[1], t[1]) /\ pc[s[1]] = "dup2" /\ s = Ours(s[1])
            \/ Building(s[1], t[1]) /\ s[2] = "temp" /\ pc[s[1]] \in {"dcopy", "dunmap"}
            \/ Building(t[1], s[1]) /\ t[2] = "temp" /\ pc[t[1]] \in {"dcopy", "dunmap"}
      BY DEF CowSafe
    <2>1. PICK e \in Env : Joint(e, s, t) BY DEF ForkInv, Exclusive
    <2>2. pc[e] \in {"dup2", "dcopy", "dunmap"} => kid[e] # NoEnv
      BY DEF ForkInv, EnvOK, ControlOK, IdleSteps
    <2>3. kid[e] # NoEnv => status[kid[e]] = "new" BY DEF ForkInv, EnvOK, ControlOK
    <2>4. CASE Temporary(e, s, t)
      BY <2>2, <2>3, <2>4 DEF Temporary, Theirs, Building
    <2>5. CASE Temporary(e, t, s)
      BY <2>2, <2>3, <2>5 DEF Temporary, Theirs, Building
    <2>6. CASE pc[e] = "dup2" /\ s = Ours(e) /\ t = Theirs(e)
      BY <2>2, <2>3, <2>6 DEF Ours, Theirs, Building
    <2> QED BY <2>1, <2>4, <2>5, <2>6 DEF Joint
  <1> QED BY <1>1, ForkInvariant, PTL

\* A page fault handler that returns has made the page writable, whatever the
\* other environments did to the page meanwhile.
THEOREM ForkFaultResolved == Spec => FaultResolved
  <1>1. ASSUME ForkInv, Next,
               NEW e \in Env, fault[e] # NoFault, fault'[e] = NoFault,
               status'[e] = "run"
        PROVE  perm'[<<e, fault[e].va>>] = "w"
    <2>1. fault \in [Env -> {NoFault} \cup
                              [va : Location, at : {"alloc", "copy", "map", "unmap"}]]
      BY <1>1 DEF ForkInv, ForkTypeOK
    <2>2. PICK x \in Env : UserStep(x) \/ LibStep(x)
                            \/ \E va \in Location : PageFault(x, va)
      BY <1>1 DEF Next
    <2>3. CASE Running(x) /\ Destroy(x)
      BY <1>1, <2>1, <2>3 DEF Running, Destroy
    <2>4. CASE \E p \in {"copy", "map", "unmap"} : fault' = [fault EXCEPT ![x].at = p]
      BY <1>1, <2>1, <2>4 DEF NoFault
    <2>5. CASE \E va \in Location : fault' = [fault EXCEPT ![x] = [va |-> va, at |-> "alloc"]]
      BY <1>1, <2>1, <2>5 DEF NoFault
    <2>6. CASE fault' = fault BY <1>1, <2>6
    <2>7. CASE pgfault_unmap(x)
      <3>1. x = e BY <1>1, <2>1, <2>7 DEF pgfault_unmap
      <3> QED BY <1>1, <2>7, <3>1, PgfaultUnmapForkInv
    <2>8. UserStep(x) => (Running(x) /\ Destroy(x)) \/ fault' = fault
      BY DEF UserStep, exit, CallFork, Store
    <2>9. LibStep(x) =>
            \/ \E p \in {"copy", "map", "unmap"} : fault' = [fault EXCEPT ![x].at = p]
            \/ fault' = fault
            \/ pgfault_unmap(x)
      BY DEF LibStep, panic, pgfault_alloc, pgfault_copy, pgfault_map,
             set_pgfault_handler, sys_exofork, ReturnZero, duppage_child, duppage_self,
             AllocXstack, sys_env_set_pgfault_upcall, sys_env_set_status, dumb_alloc,
             dumb_map, dumb_copy, dumb_unmap
    <2>10. (\E va \in Location : PageFault(x, va)) =>
            \/ Running(x) /\ Destroy(x)
            \/ fault' = fault
            \/ \E va \in Location : fault' = [fault EXCEPT ![x] = [va |-> va, at |-> "alloc"]]
      BY DEF PageFault, panic
    <2> QED BY <2>2, <2>3, <2>4, <2>5, <2>6, <2>7, <2>8, <2>9, <2>10
  <1>2. ForkInv /\ [Next]_vars =>
          [\A e \in Env : fault[e] # NoFault /\ fault'[e] = NoFault /\ status'[e] = "run" =>
              perm'[<<e, fault[e].va>>] = "w"]_vars
    BY <1>1
  <1> QED BY <1>2, ForkInvariant, PTL DEF Spec, FaultResolved

-----------------------------------------------------------------------------
(***************************************************************************)
(* fork implements private memories.                                       *)
(***************************************************************************)

\* A step that programs do not see does not change their memories.
LEMMA SilentStutters == ASSUME Silent PROVE Live' = Live /\ Space' = Space
  <1>1. Live' = Live BY DEF Silent, Live
  <1>2. \A x \in Live : [va \in Location |-> content'[<<x, va>>]]
                          = [va \in Location |-> content[<<x, va>>]]
    BY DEF Silent
  <1> QED BY <1>1, <1>2 DEF Space

\* Loading the first program gives it a memory.
LEMMA InitPrivate == Init => Private!Init
  <1> SUFFICES ASSUME Init PROVE Private!Init OBVIOUS
  <1> DEFINE s == [va \in Location |-> Image]
  <1>1. s \in [Location -> Value] BY ForkAssumption
  <1>2. Live = {First} BY ForkAssumption DEF Init, Live
  <1>3. \A va \in Location : content[<<First, va>>] = Image
    <2>1. \A va \in Location : <<First, va>> \in Slot
      BY ForkAssumption, SlotFacts DEF Va
    <2> QED BY <2>1 DEF Init
  <1>4. Space = [e \in Env |-> IF e = First THEN s ELSE Blank]
    BY <1>2, <1>3 DEF Space
  <1> QED BY <1>1, <1>2, <1>4 DEF Private!Init

\* An environment that ends gives up its memory and nothing else.
LEMMA DestroyPrivate ==
  ASSUME ForkInv, NEW e \in Env, Running(e), Destroy(e)
  PROVE  Private!Exit(e)
  <1>1. e \in Live BY DEF Running, Live
  <1>2. Live' = Live \ {e}
    <2>1. status' = [status EXCEPT ![e] = "free"] BY DEF Destroy
    <2> QED BY <2>1 DEF Live, ForkInv, ForkTypeOK
  <1>3. \A x \in Env \ {e}, va \in Location : content'[<<x, va>>] = content[<<x, va>>]
    <2>1. \A x \in Env \ {e}, va \in Location : <<x, va>> \in Slot
      BY SlotFacts DEF Va
    <2> QED BY <2>1 DEF Destroy
  <1>4. Space' = [Space EXCEPT ![e] = Blank]
    <2>1. Blank' = Blank BY DEF Blank
    <2>2. \A x \in Env : Space'[x] = [Space EXCEPT ![e] = Blank][x]
      BY <1>2, <1>3, <2>1 DEF Space
    <2> QED BY <2>2 DEF Space
  <1> QED BY <1>1, <1>2, <1>4 DEF Private!Exit

\* A store into a page that nobody else maps changes one memory.
LEMMA StorePrivate ==
  ASSUME ForkInv, NEW e \in Env, NEW va \in Location, NEW v \in Value,
         Store(e, va, v), pp[<<e, va>>] = {<<e, va>>}
  PROVE  Private!Store(e, va, v)
  <1>1. e \in Live BY DEF Store, Running, Live
  <1>2. Live' = Live BY DEF Store, envVars, Live
  <1>3. \A x \in Env, a \in Location :
           content'[<<x, a>>] = IF x = e /\ a = va THEN v ELSE content[<<x, a>>]
    <2>1. \A x \in Env, a \in Location : <<x, a>> \in Slot BY SlotFacts DEF Va
    <2> QED BY <2>1 DEF Store, Write
  <1>4. Space' = [Space EXCEPT ![e][va] = v]
    <2>1. \A x \in Live : [a \in Location |-> content'[<<x, a>>]]
                  = IF x = e THEN [[a \in Location |-> content[<<x, a>>]] EXCEPT ![va] = v]
                    ELSE [a \in Location |-> content[<<x, a>>]]
      BY <1>3 DEF Live
    <2>2. Blank' = Blank BY DEF Blank
    <2>3. \A x \in Env : Space'[x] = [Space EXCEPT ![e][va] = v][x]
      BY <1>1, <1>2, <2>1, <2>2 DEF Space
    <2> QED BY <2>3 DEF Space
  <1> QED BY <1>1, <1>2, <1>4 DEF Private!Store

\* The child that starts has its parent's memory.
LEMMA StartPrivate ==
  ASSUME NEW e \in Env, NEW c \in Env, e \in Live, c \notin Live,
         Live' = Live \cup {c}, UNCHANGED memVars,
         \A va \in Location : content[<<c, va>>] = content[<<e, va>>]
  PROVE  Private!Fork(e, c)
  <1>1. Space' = [Space EXCEPT ![c] = Space[e]]
    <2>1. content' = content /\ Blank' = Blank BY DEF memVars, Blank
    <2>2. [va \in Location |-> content[<<c, va>>]] = [va \in Location |-> content[<<e, va>>]]
      OBVIOUS
    <2>3. \A x \in Env : Space'[x] = [Space EXCEPT ![c] = Space[e]][x]
      BY <2>1, <2>2 DEF Space
    <2> QED BY <2>3 DEF Space
  <1> QED BY <1>1 DEF Private!Fork

\* fork and dumbfork, with every interleaving of their system calls, of page
\* faults and of the stores of parents and children, implement memories that
\* are private from the start and copied in one step.
THEOREM ForkRefinesPrivateSpaces == Spec => MemoryIsPrivate
  <1>1. Init => Private!Init BY InitPrivate
  <1>2. ForkInv /\ [Next]_vars => [Private!Next]_(Private!vars)
    <2> SUFFICES ASSUME ForkInv, [Next]_vars PROVE [Private!Next]_(Private!vars)
      OBVIOUS
    <2>1. CASE Silent BY <2>1, SilentStutters DEF Private!vars
    <2>2. CASE \E e \in Env : Running(e) /\ Destroy(e)
      BY <2>2, DestroyPrivate DEF Private!Next
    <2>3. CASE \E e \in Env, va \in Location, v \in Value :
                 Store(e, va, v) /\ pp[<<e, va>>] = {<<e, va>>}
      BY <2>3, StorePrivate DEF Private!Next
    <2>4. CASE \E e, c \in Env :
                 /\ e \in Live /\ c \notin Live /\ Live' = Live \cup {c}
                 /\ UNCHANGED memVars
                 /\ \A va \in Location : content[<<c, va>>] = content[<<e, va>>]
      BY <2>4, StartPrivate DEF Private!Next
    <2>5. Shows BY NextForkInv
    <2> QED BY <2>1, <2>2, <2>3, <2>4, <2>5 DEF Shows
  <1> QED BY <1>1, <1>2, ForkInvariant, PTL DEF Spec, MemoryIsPrivate, Private!Spec

=============================================================================
