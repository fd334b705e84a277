----------------------------- MODULE PmapProofs -----------------------------
(***************************************************************************)
(* Proofs about module Pmap, for any number of pages and environments, any *)
(* size of directories and tables, and any counter width that no page's    *)
(* mappings exhaust.                                                       *)
(***************************************************************************)
EXTENDS Pmap, FiniteSetTheorems, SequenceTheorems, WellFoundedInduction, TLAPS

-----------------------------------------------------------------------------
(***************************************************************************)
(* The account of the memory: D are the pages in use as directories, T     *)
(* those in use as page tables, H those the kernel has taken from the free *)
(* list and not yet put to use (none between two system calls).            *)
(***************************************************************************)

PageOrNull == Page \cup {NULL}
Pte == [pp : PageOrNull, w : BOOLEAN]
Directory == [Pdx -> PageOrNull]
Table == [Ptx -> Pte]

\* The entries of the tables T that map p.
Refs(pte, T, p) == {s \in T \X Ptx : pte[s[1]][s[2]].pp = p}

Listed(fl, p) == \E i \in 1 .. Len(fl) : fl[i] = p
NoTwice(fl) == \A i, j \in 1 .. Len(fl) : fl[i] = fl[j] => i = j

\* T are the tables of the directories D, none of them in two places.
Tree(pde, D, T) ==
    /\ \A p \in Page : p \in T <=> \E d \in D, x \in Pdx : pde[d][x] = p
    /\ \A d, e \in D, x, y \in Pdx : pde[d][x] = pde[e][y] /\ pde[d][x] # NULL => d = e /\ x = y

\* The entries of the tables name no page that is a directory, a table or in hand,
\* and an entry that maps nothing is zero.
Data(pte, D, T, H) ==
    \A pt \in T, t \in Ptx : /\ pte[pt][t].pp \notin D \cup T \cup H
                             /\ pte[pt][t].pp = NULL => pte[pt][t] = NoPte

\* The free list holds the pages in no use, each once.
FreeOK(fl, pte, D, T, H) ==
    /\ NoTwice(fl)
    /\ \A p \in Page : Listed(fl, p) <=> p \notin D \cup T \cup H /\ Refs(pte, T, p) = {}

\* The counters.
CountOK(ref, pte, D, T) ==
    /\ \A p \in D \cup T : ref[p] = 1
    /\ \A p \in Page \ (D \cup T) : ref[p] = Cardinality(Refs(pte, T, p))

\* The three uses of a page exclude each other.
Apart(D, T, H) ==
    /\ D \subseteq Page /\ T \subseteq Page /\ H \subseteq Page
    /\ D \cap T = {} /\ D \cap H = {} /\ T \cap H = {}

\* All of it, for the four fields of a memory.
Acct(fl, ref, pde, pte, D, T, H) ==
    /\ fl \in Seq(Page) /\ ref \in [Page -> 0 .. RefMod - 1]
    /\ pde \in [Page -> Directory] /\ pte \in [Page -> Table]
    /\ Apart(D, T, H)
    /\ Tree(pde, D, T)
    /\ Data(pte, D, T, H)
    /\ FreeOK(fl, pte, D, T, H)
    /\ CountOK(ref, pte, D, T)

\* A memory given by its fields.
Mem(fl, ref, pde, pte, b) ==
    [page_free_list |-> fl, pp_ref |-> ref, pde |-> pde, pte |-> pte, panic |-> b]

\* page_free has not panicked.
Calm(b) == b = FALSE

\* A memory in order.
MemOK(m, D, T, H) ==
    /\ m = Mem(m.page_free_list, m.pp_ref, m.pde, m.pte, m.panic)
    /\ Calm(m.panic)
    /\ Acct(m.page_free_list, m.pp_ref, m.pde, m.pte, D, T, H)

-----------------------------------------------------------------------------
(***************************************************************************)
(* Lists of pages and sets of entries                                      *)
(***************************************************************************)

\* The changes that the code makes to sets, lists and arrays, by name: the lemmas
\* below are stated with these names and their proofs expand them.
Plus(S, p) == S \cup {p}
Minus(S, p) == S \ {p}
Some(fl) == fl # << >>
Hd(fl) == Head(fl)
Tl(fl) == Tail(fl)
Push(p, fl) == <<p>> \o fl
Upd(a, p, v) == [a EXCEPT ![p] = v]
Put(a, p, i, v) == [a EXCEPT ![p][i] = v]
Inc(ref, p) == [ref EXCEPT ![p] = ref[p] + 1]
Dec(ref, p) == [ref EXCEPT ![p] = ref[p] - 1]
Pair(p, r) == [pp |-> p, m |-> r]
Alloc(m) == page_alloc(m, FALSE)
AllocZero(m) == page_alloc(m, TRUE)

\* The constants as the proofs use them.
LEMMA Consts ==
  /\ IsFiniteSet(Page) /\ Cardinality(Page) \in Nat /\ Cardinality(Page) >= 5
  /\ NULL \notin Page
  /\ NENV \in Nat /\ NENV >= 1 /\ NPDE \in Nat /\ NPDE >= 1 /\ NPTE \in Nat /\ NPTE >= 1
  /\ RefMod \in Nat /\ RefMod >= 2
  BY PmapAssumption, FS_CardinalityType

LEMMA ModSmall == ASSUME NEW c \in Nat, NEW n \in Nat, c < n PROVE c % n = c
  OBVIOUS

\* Taking the head of a list without repetition.
LEMMA ListTail ==
  ASSUME NEW fl \in Seq(Page), fl # << >>, NoTwice(fl)
  PROVE  /\ Head(fl) \in Page /\ Tail(fl) \in Seq(Page) /\ NoTwice(Tail(fl))
         /\ Len(Tail(fl)) = Len(fl) - 1 /\ Len(fl) >= 1
         /\ \A p \in Page : Listed(Tail(fl), p) <=> Listed(fl, p) /\ p # Head(fl)
  <1>1. /\ Head(fl) \in Page /\ Tail(fl) \in Seq(Page) /\ Len(fl) \in Nat /\ Len(fl) >= 1
        /\ Len(Tail(fl)) = Len(fl) - 1 /\ Head(fl) = fl[1]
    OBVIOUS
  <1>2. \A i \in 1 .. Len(Tail(fl)) : Tail(fl)[i] = fl[i + 1] /\ i + 1 \in 1 .. Len(fl)
    BY <1>1
  <1>3. \A i \in 1 .. Len(Tail(fl)) : i + 1 # 1 BY <1>1
  <1>4. NoTwice(Tail(fl))
    <2> SUFFICES ASSUME NEW i \in 1 .. Len(Tail(fl)), NEW j \in 1 .. Len(Tail(fl)),
                        Tail(fl)[i] = Tail(fl)[j]
                 PROVE  i = j
      BY DEF NoTwice
    <2>1. fl[i + 1] = fl[j + 1] BY <1>2
    <2>2. i + 1 = j + 1 BY <2>1, <1>2 DEF NoTwice
    <2> QED BY <2>2, <1>1
  <1>5. ASSUME NEW p \in Page PROVE Listed(Tail(fl), p) <=> Listed(fl, p) /\ p # Head(fl)
    <2>1. ASSUME Listed(Tail(fl), p) PROVE Listed(fl, p) /\ p # Head(fl)
      <3>1. PICK i \in 1 .. Len(Tail(fl)) : Tail(fl)[i] = p BY <2>1 DEF Listed
      <3>2. fl[i + 1] = p /\ i + 1 \in 1 .. Len(fl) /\ i + 1 # 1 /\ 1 \in 1 .. Len(fl)
        BY <3>1, <1>1, <1>2, <1>3
      <3>3. fl[1] # p BY <3>2 DEF NoTwice
      <3> QED BY <3>2, <3>3, <1>1 DEF Listed
    <2>2. ASSUME Listed(fl, p), p # Head(fl) PROVE Listed(Tail(fl), p)
      <3>1. PICK i \in 1 .. Len(fl) : fl[i] = p BY <2>2 DEF Listed
      <3>2. i # 1 BY <3>1, <2>2, <1>1
      <3>3. PICK j \in 1 .. Len(Tail(fl)) : j + 1 = i
        <4>1. i - 1 \in 1 .. Len(Tail(fl)) /\ (i - 1) + 1 = i BY <3>2, <1>1
        <4> QED BY <4>1
      <3> QED BY <3>1, <3>3, <1>2 DEF Listed
    <2> QED BY <2>1, <2>2
  <1> QED BY <1>1, <1>4, <1>5

\* Putting a page in front of a list that does not have it.
LEMMA ListCons ==
  ASSUME NEW fl \in Seq(Page), NEW pp \in Page, NoTwice(fl), ~Listed(fl, pp)
  PROVE  /\ <<pp>> \o fl \in Seq(Page) /\ NoTwice(<<pp>> \o fl)
         /\ Len(<<pp>> \o fl) = Len(fl) + 1
         /\ <<pp>> \o fl # << >> /\ Head(<<pp>> \o fl) = pp /\ Tail(<<pp>> \o fl) = fl
         /\ \A p \in Page : Listed(<<pp>> \o fl, p) <=> Listed(fl, p) \/ p = pp
  <1>0. <<pp>> \o fl \in Seq(Page) OBVIOUS
  <1>1. PICK g \in Seq(Page) : g = <<pp>> \o fl BY <1>0
  <1>2. /\ Len(fl) \in Nat /\ Len(g) = Len(fl) + 1 /\ g[1] = pp
        /\ \A i \in 1 .. Len(g) : i # 1 => g[i] = fl[i - 1] /\ i - 1 \in 1 .. Len(fl)
    BY <1>1
  <1>3. \A i \in 1 .. Len(fl) : g[i + 1] = fl[i] /\ i + 1 \in 1 .. Len(g)
    BY <1>1, <1>2
  <1>4. g # << >> /\ Head(g) = pp BY <1>2
  <1>5. Tail(g) = fl
    <2>1. Tail(g) \in Seq(Page) /\ Len(Tail(g)) = Len(fl) BY <1>2, <1>4
    <2>2. \A i \in 1 .. Len(fl) : Tail(g)[i] = g[i + 1] BY <1>2, <1>4, <2>1
    <2>3. \A i \in 1 .. Len(fl) : Tail(g)[i] = fl[i] BY <2>2, <1>3
    <2> QED BY <2>1, <2>3, SeqEqual
  <1>6. NoTwice(g)
    <2> SUFFICES ASSUME NEW i \in 1 .. Len(g), NEW j \in 1 .. Len(g), g[i] = g[j]
                 PROVE  i = j
      BY DEF NoTwice
    <2>1. CASE i = 1 /\ j = 1 BY <2>1
    <2>2. CASE i # 1 /\ j = 1
      BY <2>2, <1>2 DEF Listed
    <2>3. CASE i = 1 /\ j # 1
      BY <2>3, <1>2 DEF Listed
    <2>4. CASE i # 1 /\ j # 1
      <3>1. i - 1 = j - 1 BY <2>4, <1>2 DEF NoTwice
      <3> QED BY <3>1
    <2> QED BY <2>1, <2>2, <2>3, <2>4
  <1>7. ASSUME NEW p \in Page PROVE Listed(g, p) <=> Listed(fl, p) \/ p = pp
    <2>1. Listed(g, p) => Listed(fl, p) \/ p = pp BY <1>2 DEF Listed
    <2>2. Listed(fl, p) => Listed(g, p) BY <1>3 DEF Listed
    <2>3. p = pp => Listed(g, p)
      <3>1. 1 \in 1 .. Len(g) BY <1>2
      <3> QED BY <3>1, <1>2 DEF Listed
    <2> QED BY <2>1, <2>2, <2>3
  <1> QED BY <1>1, <1>2, <1>4, <1>5, <1>6, <1>7

\* The entries that map a page are finitely many.
LEMMA RefsFinite ==
  ASSUME NEW pte, NEW T \in SUBSET Page, NEW p
  PROVE  /\ IsFiniteSet(Refs(pte, T, p)) /\ Cardinality(Refs(pte, T, p)) \in Nat
         /\ Cardinality(Refs(pte, T, p)) = 0 <=> Refs(pte, T, p) = {}
         /\ Cardinality(Refs(pte, T, p)) <= Cardinality(Page) * NPTE
  <1>1. IsFiniteSet(Ptx) /\ Cardinality(Ptx) = NPTE
    <2>1. 1 \in Int /\ NPTE \in Int /\ NPTE >= 1 BY Consts
    <2>2. IsFiniteSet(1 .. NPTE) /\ Cardinality(1 .. NPTE) = IF 1 > NPTE THEN 0 ELSE NPTE - 1 + 1
      BY <2>1, FS_Interval
    <2> QED BY <2>1, <2>2 DEF Ptx
  <1>2. IsFiniteSet(Page \X Ptx) /\ Cardinality(Page \X Ptx) = Cardinality(Page) * NPTE
    BY <1>1, Consts, FS_Product
  <1>3. Refs(pte, T, p) \subseteq Page \X Ptx BY DEF Refs
  <1>4. IsFiniteSet(Refs(pte, T, p)) /\ Cardinality(Refs(pte, T, p)) <= Cardinality(Page \X Ptx)
    BY <1>2, <1>3, FS_Subset
  <1> QED BY <1>2, <1>4, FS_CardinalityType, FS_EmptySet


LEMMA PteWrite ==
  ASSUME NEW pte \in [Page -> Table], NEW pt \in Page, NEW t \in Ptx, NEW e \in Pte
  PROVE  /\ Put(pte, pt, t, e) \in [Page -> Table]
         /\ \A q \in Page, u \in Ptx :
              Put(pte, pt, t, e)[q][u] = IF q = pt /\ u = t THEN e ELSE pte[q][u]
  <1>1. pte[pt] \in Table /\ DOMAIN pte = Page OBVIOUS
  <1>2. DOMAIN pte[pt] = Ptx BY <1>1 DEF Table
  <1>3. [pte[pt] EXCEPT ![t] = e] \in Table BY <1>1 DEF Table
  <1> QED BY <1>1, <1>2, <1>3 DEF Put

LEMMA NoPteType == NoPte \in Pte /\ NoPte.pp = NULL /\ NoPte.pp \notin Page
  BY Consts DEF NoPte, Pte, PageOrNull

LEMMA ClearPteType ==
  ClearPte \in Table /\ \A t \in Ptx : ClearPte[t] = NoPte
  BY NoPteType DEF ClearPte, Table

LEMMA ClearPdeType ==
  ClearPde \in Directory /\ \A x \in Pdx : ClearPde[x] = NULL
  BY DEF ClearPde, Directory, PageOrNull

\* Clearing an entry takes it from the references to its page.
LEMMA RefsClear ==
  ASSUME NEW pte \in [Page -> Table], NEW T \in SUBSET Page, NEW pt \in T, NEW t \in Ptx,
         NEW p \in Page, NEW q, q = Put(pte, pt, t, NoPte)
  PROVE  /\ Refs(q, T, p) = Refs(pte, T, p) \ {<<pt, t>>}
         /\ Cardinality(Refs(q, T, p)) = IF pte[pt][t].pp = p
                                         THEN Cardinality(Refs(pte, T, p)) - 1
                                         ELSE Cardinality(Refs(pte, T, p))
  <1>1. \A r \in Page, u \in Ptx : q[r][u] = IF r = pt /\ u = t THEN NoPte ELSE pte[r][u]
    BY PteWrite, NoPteType
  <1>2. Refs(q, T, p) = Refs(pte, T, p) \ {<<pt, t>>}
    <2>1. ASSUME NEW s \in T \X Ptx
          PROVE  q[s[1]][s[2]].pp = p <=> pte[s[1]][s[2]].pp = p /\ s # <<pt, t>>
      <3>1. s[1] \in Page /\ s[2] \in Ptx /\ s = <<s[1], s[2]>> OBVIOUS
      <3>2. CASE s = <<pt, t>>
        <4>1. s[1] = pt /\ s[2] = t BY <3>2
        <4> QED BY <4>1, <3>1, <3>2, <1>1, NoPteType
      <3>3. CASE s # <<pt, t>>
        <4>1. ~(s[1] = pt /\ s[2] = t) BY <3>1, <3>3
        <4> QED BY <4>1, <3>1, <3>3, <1>1
      <3> QED BY <3>2, <3>3
    <2> QED BY <2>1 DEF Refs
  <1>3. <<pt, t>> \in Refs(pte, T, p) <=> pte[pt][t].pp = p BY DEF Refs
  <1>4. IsFiniteSet(Refs(pte, T, p)) BY RefsFinite
  <1>5. Cardinality(Refs(pte, T, p) \ {<<pt, t>>}) = IF <<pt, t>> \in Refs(pte, T, p)
                                                     THEN Cardinality(Refs(pte, T, p)) - 1
                                                     ELSE Cardinality(Refs(pte, T, p))
    BY <1>4, FS_RemoveElement
  <1> QED BY <1>2, <1>3, <1>5

\* Filling an empty entry adds it to the references to its page.
LEMMA RefsSet ==
  ASSUME NEW pte \in [Page -> Table], NEW T \in SUBSET Page, NEW pt \in T, NEW t \in Ptx,
         pte[pt][t] = NoPte, NEW e \in Pte,
         NEW p \in Page, NEW q, q = Put(pte, pt, t, e)
  PROVE  /\ e.pp # p => Refs(q, T, p) = Refs(pte, T, p)
         /\ e.pp = p => /\ Refs(q, T, p) = Refs(pte, T, p) \cup {<<pt, t>>}
                        /\ Cardinality(Refs(q, T, p)) = Cardinality(Refs(pte, T, p)) + 1
  <1>1. \A r \in Page, u \in Ptx : q[r][u] = IF r = pt /\ u = t THEN e ELSE pte[r][u]
    BY PteWrite
  <1>2. ASSUME NEW s \in T \X Ptx
        PROVE  q[s[1]][s[2]].pp = p <=> pte[s[1]][s[2]].pp = p \/ (s = <<pt, t>> /\ e.pp = p)
      <3>1. s[1] \in Page /\ s[2] \in Ptx /\ s = <<s[1], s[2]>> OBVIOUS
      <3>2. CASE s = <<pt, t>>
        <4>1. s[1] = pt /\ s[2] = t BY <3>2
        <4> QED BY <4>1, <3>1, <3>2, <1>1, NoPteType
      <3>3. CASE s # <<pt, t>>
        <4>1. ~(s[1] = pt /\ s[2] = t) BY <3>1, <3>3
        <4> QED BY <4>1, <3>1, <3>3, <1>1
      <3> QED BY <3>2, <3>3
  <1>3. <<pt, t>> \notin Refs(pte, T, p)
    <2>1. pte[pt][t].pp # p BY NoPteType
    <2> QED BY <2>1 DEF Refs
  <1>4. IsFiniteSet(Refs(pte, T, p)) BY RefsFinite
  <1>5. e.pp # p => Refs(q, T, p) = Refs(pte, T, p) BY <1>2 DEF Refs
  <1>6. e.pp = p => Refs(q, T, p) = Refs(pte, T, p) \cup {<<pt, t>>} BY <1>2 DEF Refs
  <1> QED BY <1>3, <1>4, <1>5, <1>6, FS_AddElement

\* A page that is not a table may hold anything.
LEMMA RefsOther ==
  ASSUME NEW pte, NEW T, NEW q, \A r \in T : q[r] = pte[r], NEW p
  PROVE  Refs(q, T, p) = Refs(pte, T, p)
  <1>1. \A s \in T \X Ptx : q[s[1]] = pte[s[1]] OBVIOUS
  <1> QED BY <1>1 DEF Refs

\* An empty table adds no reference.
LEMMA RefsEmpty ==
  ASSUME NEW pte \in [Page -> Table], NEW T \in SUBSET Page, NEW pt \in Page,
         \A t \in Ptx : pte[pt][t] = NoPte, NEW p \in Page
  PROVE  Refs(pte, T \cup {pt}, p) = Refs(pte, T, p) /\ Refs(pte, T \ {pt}, p) = Refs(pte, T, p)
  <1>1. \A t \in Ptx : pte[pt][t].pp # p BY NoPteType
  <1>2. \A s \in (T \cup {pt}) \X Ptx : s \in T \X Ptx \/ pte[s[1]][s[2]].pp # p
    BY <1>1
  <1>3. \A s \in T \X Ptx : s \in (T \ {pt}) \X Ptx \/ pte[s[1]][s[2]].pp # p
    BY <1>1
  <1> QED BY <1>2, <1>3 DEF Refs

-----------------------------------------------------------------------------
(***************************************************************************)
(* The fields of the memories that the functions of pmap.c leave           *)
(***************************************************************************)

\* Reading and writing the fields.
LEMMA MemFields ==
  ASSUME NEW fl, NEW ref, NEW pde, NEW pte, NEW b
  PROVE  LET m == Mem(fl, ref, pde, pte, b)
         IN  m.page_free_list = fl /\ m.pp_ref = ref /\ m.pde = pde /\ m.pte = pte /\ m.panic = b
  BY DEF Mem

LEMMA WriteList ==
  ASSUME NEW fl, NEW ref, NEW pde, NEW pte, NEW b, NEW v,
         NEW m, m = Mem(fl, ref, pde, pte, b)
  PROVE  [m EXCEPT !.page_free_list = v] = Mem(v, ref, pde, pte, b)
  BY DEF Mem

LEMMA WriteRef ==
  ASSUME NEW fl, NEW ref, NEW pde, NEW pte, NEW b, NEW v,
         NEW m, m = Mem(fl, ref, pde, pte, b)
  PROVE  [m EXCEPT !.pp_ref = v] = Mem(fl, v, pde, pte, b)
  BY DEF Mem

LEMMA WritePde ==
  ASSUME NEW fl, NEW ref, NEW pde, NEW pte, NEW b, NEW v,
         NEW m, m = Mem(fl, ref, pde, pte, b)
  PROVE  [m EXCEPT !.pde = v] = Mem(fl, ref, v, pte, b)
  BY DEF Mem

LEMMA WritePte ==
  ASSUME NEW fl, NEW ref, NEW pde, NEW pte, NEW b, NEW v,
         NEW m, m = Mem(fl, ref, pde, pte, b)
  PROVE  [m EXCEPT !.pte = v] = Mem(fl, ref, pde, v, b)
  BY DEF Mem

LEMMA AllocFields ==
  ASSUME NEW fl, NEW ref, NEW pde, NEW pte, NEW b, NEW m, m = Mem(fl, ref, pde, pte, b),
         NEW pp, Some(fl), pp = Hd(fl)
  PROVE  /\ Alloc(m) = Pair(pp, Mem(Tl(fl), ref, pde, pte, b))
         /\ AllocZero(m) =
              Pair(pp, Mem(Tl(fl), ref, Upd(pde, pp, ClearPde), Upd(pte, pp, ClearPte), b))
  <1> USE DEF Some, Hd, Tl, Upd, Pair, Alloc, AllocZero
  <1>1. m.page_free_list = fl BY MemFields
  <1>2. [m EXCEPT !.page_free_list = Tail(@)] = Mem(Tail(fl), ref, pde, pte, b)
    <2>1. PICK v : v = Tail(m.page_free_list) OBVIOUS
    <2>2. [m EXCEPT !.page_free_list = v] = Mem(v, ref, pde, pte, b) BY WriteList
    <2> QED BY <1>1, <2>1, <2>2
  <1>3. [[m EXCEPT !.page_free_list = Tail(@)] EXCEPT !.pde[pp] = ClearPde, !.pte[pp] = ClearPte]
          = Mem(Tail(fl), ref, [pde EXCEPT ![pp] = ClearPde], [pte EXCEPT ![pp] = ClearPte], b)
    <2>1. PICK m1 : m1 = [m EXCEPT !.page_free_list = Tail(@)] OBVIOUS
    <2>2. PICK u, v : u = [pde EXCEPT ![pp] = ClearPde] /\ v = [pte EXCEPT ![pp] = ClearPte]
      OBVIOUS
    <2>3. m1.pde = pde /\ m1.pte = pte BY <1>2, <2>1, MemFields
    <2>4. PICK m2 : m2 = [m1 EXCEPT !.pde = u] OBVIOUS
    <2>5. m2 = Mem(Tail(fl), ref, u, pte, b)
      <3>1. PICK tl : tl = Tail(fl) OBVIOUS
      <3>2. m1 = Mem(tl, ref, pde, pte, b) BY <1>2, <2>1, <3>1
      <3>3. [m1 EXCEPT !.pde = u] = Mem(tl, ref, u, pte, b) BY <3>2, WritePde
      <3> QED BY <2>4, <3>1, <3>3
    <2>6. [m2 EXCEPT !.pte = v] = Mem(Tail(fl), ref, u, v, b) BY <2>5, WritePte
    <2>7. [m1 EXCEPT !.pde[pp] = ClearPde, !.pte[pp] = ClearPte] = [[m1 EXCEPT !.pde = u] EXCEPT !.pte = v]
      BY <2>2, <2>3
    <2> QED BY <2>1, <2>2, <2>4, <2>6, <2>7
  <1> QED BY <1>1, <1>2, <1>3 DEF page_alloc

LEMMA FreeFields ==
  ASSUME NEW fl \in Seq(Page), NEW ref, NEW pde, NEW pte, NEW b, NEW m, m = Mem(fl, ref, pde, pte, b),
         NEW pp \in Page, ~Listed(fl, pp), ref[pp] = 0
  PROVE  page_free(m, pp) = Mem(Push(pp, fl), ref, pde, pte, b)
  <1> USE DEF Push
  <1>1. m.page_free_list = fl /\ m.pp_ref = ref BY MemFields
  <1>2. ~Linked(m, pp)
    <2>1. Len(fl) \in Nat OBVIOUS
    <2>2. 1 .. Len(fl) - 1 \subseteq 1 .. Len(fl) BY <2>1
    <2> QED BY <1>1, <2>2 DEF Linked, Listed
  <1>3. page_free(m, pp) = [m EXCEPT !.page_free_list = <<pp>> \o @] BY <1>1, <1>2 DEF page_free
  <1>4. PICK v : v = <<pp>> \o m.page_free_list OBVIOUS
  <1>5. [m EXCEPT !.page_free_list = v] = Mem(v, ref, pde, pte, b) BY WriteList
  <1> QED BY <1>1, <1>3, <1>4, <1>5

LEMMA IncrefFields ==
  ASSUME NEW fl, NEW ref, NEW pde, NEW pte, NEW b, NEW m, m = Mem(fl, ref, pde, pte, b),
         NEW pp, ref[pp] \in Nat, ref[pp] + 1 < RefMod
  PROVE  incref(m, pp) = Mem(fl, Inc(ref, pp), pde, pte, b)
  <1> USE DEF Inc
  <1>1. m.pp_ref = ref BY MemFields
  <1>2. (ref[pp] + 1) % RefMod = ref[pp] + 1
    <2>1. PICK c \in Nat : c = ref[pp] + 1 BY Consts
    <2>2. c % RefMod = c BY <2>1, Consts
    <2> QED BY <2>1, <2>2
  <1>3. incref(m, pp) = Mem(fl, [ref EXCEPT ![pp] = (ref[pp] + 1) % RefMod], pde, pte, b)
    <2>1. PICK v : v = (m.pp_ref[pp] + 1) % RefMod OBVIOUS
    <2>2. PICK r : r = [m.pp_ref EXCEPT ![pp] = v] OBVIOUS
    <2>3. incref(m, pp) = [m EXCEPT !.pp_ref = r] BY <2>1, <2>2 DEF incref
    <2>4. [m EXCEPT !.pp_ref = r] = Mem(fl, r, pde, pte, b) BY WriteRef
    <2> QED BY <1>1, <2>1, <2>2, <2>3, <2>4
  <1> QED BY <1>2, <1>3

\* Taking a reference away; the last one frees the page.
LEMMA DecrefFields ==
  ASSUME NEW fl \in Seq(Page), NEW ref \in [Page -> 0 .. RefMod - 1], NEW pde, NEW pte, NEW b,
         NEW m, m = Mem(fl, ref, pde, pte, b),
         NEW pp \in Page, ~Listed(fl, pp), ref[pp] # 0
  PROVE  /\ ref[pp] = 1 => page_decref(m, pp) = Mem(Push(pp, fl), Dec(ref, pp), pde, pte, b)
         /\ ref[pp] # 1 => page_decref(m, pp) = Mem(fl, Dec(ref, pp), pde, pte, b)
  <1> USE DEF Dec, Push
  <1>1. m.pp_ref = ref BY MemFields
  <1>2. ref[pp] \in 0 .. RefMod - 1 OBVIOUS
  <1>3. (ref[pp] - 1) % RefMod = ref[pp] - 1 /\ ref[pp] - 1 \in 0 .. RefMod - 1
    <2>1. PICK c \in Nat : c = ref[pp] - 1 /\ c < RefMod BY <1>2, Consts
    <2>2. c % RefMod = c BY <2>1, Consts, ModSmall
    <2>3. c \in 0 .. RefMod - 1 BY <2>1, Consts
    <2> QED BY <2>1, <2>2, <2>3
  <1>4. PICK ref1 : ref1 = [ref EXCEPT ![pp] = ref[pp] - 1] OBVIOUS
  <1>5. ref1 \in [Page -> 0 .. RefMod - 1] /\ ref1[pp] = ref[pp] - 1 BY <1>3, <1>4
  <1>6. PICK m1 : m1 = Mem(fl, ref1, pde, pte, b) OBVIOUS
  <1>7. [m EXCEPT !.pp_ref[pp] = (@ - 1) % RefMod] = m1
    <2>1. PICK v : v = (m.pp_ref[pp] - 1) % RefMod OBVIOUS
    <2>2. ref1 = [m.pp_ref EXCEPT ![pp] = v] BY <1>1, <1>3, <1>4, <2>1
    <2>3. [m EXCEPT !.pp_ref[pp] = (@ - 1) % RefMod] = [m EXCEPT !.pp_ref = ref1] BY <2>1, <2>2
    <2>4. [m EXCEPT !.pp_ref = ref1] = Mem(fl, ref1, pde, pte, b) BY WriteRef
    <2> QED BY <1>6, <2>3, <2>4
  <1>8. m1.pp_ref = ref1 BY <1>6, MemFields
  <1>9. page_decref(m, pp) = IF ref1[pp] = 0 THEN page_free(m1, pp) ELSE m1
    BY <1>7, <1>8 DEF page_decref
  <1>10. ref[pp] = 1 <=> ref1[pp] = 0 BY <1>2, <1>5
  <1>11. ref1[pp] = 0 => page_free(m1, pp) = Mem(<<pp>> \o fl, ref1, pde, pte, b)
    BY <1>6, FreeFields
  <1> QED BY <1>4, <1>5, <1>6, <1>9, <1>10, <1>11

-----------------------------------------------------------------------------
(***************************************************************************)
(* The moves of a page from one use to another keep the account            *)
(***************************************************************************)

\* A page of the free list is taken in hand.
LEMMA TakePage ==
  ASSUME NEW fl, NEW ref, NEW pde, NEW pte, NEW D, NEW T, NEW H,
         Acct(fl, ref, pde, pte, D, T, H), Some(fl), NEW pp, pp = Hd(fl)
  PROVE  /\ pp \in Page /\ pp \notin D \cup T \cup H
         /\ Refs(pte, T, pp) = {} /\ ref[pp] = 0
         /\ Len(Tl(fl)) = Len(fl) - 1 /\ Len(fl) \in Nat
         /\ Acct(Tl(fl), ref, pde, pte, D, T, Plus(H, pp))
  <1> USE DEF Some, Hd, Tl, Plus
  <1>1. fl \in Seq(Page) /\ NoTwice(fl) BY DEF Acct, FreeOK
  <1>2. /\ pp \in Page /\ Tail(fl) \in Seq(Page) /\ NoTwice(Tail(fl)) /\ Len(fl) >= 1
        /\ Len(Tail(fl)) = Len(fl) - 1 /\ Len(fl) \in Nat
        /\ \A p \in Page : Listed(Tail(fl), p) <=> Listed(fl, p) /\ p # pp
    BY <1>1, ListTail
  <1>3. Listed(fl, pp)
    <2>1. 1 \in 1 .. Len(fl) /\ fl[1] = pp BY <1>1, <1>2
    <2> QED BY <2>1 DEF Listed
  <1>4. pp \notin D \cup T \cup H /\ Refs(pte, T, pp) = {}
    BY <1>2, <1>3 DEF Acct, FreeOK
  <1>5. T \in SUBSET Page BY DEF Acct, Apart
  <1>6. ref[pp] = 0
    <2>1. ref[pp] = Cardinality(Refs(pte, T, pp)) BY <1>2, <1>4 DEF Acct, CountOK
    <2> QED BY <1>4, <1>5, <2>1, RefsFinite
  <1>7. Apart(D, T, H \cup {pp}) BY <1>2, <1>4 DEF Acct, Apart
  <1>8. Data(pte, D, T, H \cup {pp})
    <2>1. ASSUME NEW pt \in T, NEW t \in Ptx PROVE pte[pt][t].pp # pp
      <3>1. <<pt, t>> \notin Refs(pte, T, pp) BY <1>4
      <3> QED BY <3>1 DEF Refs
    <2> QED BY <2>1 DEF Acct, Data
  <1>9. FreeOK(Tail(fl), pte, D, T, H \cup {pp})
    BY <1>2 DEF Acct, FreeOK
  <1> QED BY <1>2, <1>4, <1>6, <1>7, <1>8, <1>9 DEF Acct

\* What page_free checks of a page in hand, and its way to the free list.
LEMMA GivePage ==
  ASSUME NEW fl, NEW ref, NEW pde, NEW pte, NEW D, NEW T, NEW H,
         Acct(fl, ref, pde, pte, D, T, H), NEW pp \in H
  PROVE  /\ pp \in Page /\ ref[pp] = 0 /\ ~Listed(fl, pp) /\ Len(Push(pp, fl)) = Len(fl) + 1
         /\ Refs(pte, T, pp) = {}
         /\ Acct(Push(pp, fl), ref, pde, pte, D, T, Minus(H, pp))
  <1> USE DEF Push, Minus
  <1>1. fl \in Seq(Page) /\ NoTwice(fl) /\ T \in SUBSET Page BY DEF Acct, FreeOK, Apart
  <1>2. pp \in Page /\ pp \notin D \cup T /\ ~Listed(fl, pp) BY DEF Acct, Apart, FreeOK
  <1>3. Refs(pte, T, pp) = {}
    <2>1. \A pt \in T, t \in Ptx : pte[pt][t].pp # pp BY DEF Acct, Data
    <2> QED BY <2>1 DEF Refs
  <1>4. ref[pp] = 0
    <2>1. ref[pp] = Cardinality(Refs(pte, T, pp)) BY <1>2 DEF Acct, CountOK
    <2> QED BY <1>1, <1>3, <2>1, RefsFinite
  <1>5. /\ <<pp>> \o fl \in Seq(Page) /\ NoTwice(<<pp>> \o fl)
        /\ Len(<<pp>> \o fl) = Len(fl) + 1
        /\ \A p \in Page : Listed(<<pp>> \o fl, p) <=> Listed(fl, p) \/ p = pp
    BY <1>1, <1>2, ListCons
  <1>6. PICK g : g = <<pp>> \o fl OBVIOUS
  <1>7. FreeOK(g, pte, D, T, H \ {pp}) BY <1>2, <1>3, <1>5, <1>6 DEF Acct, FreeOK
  <1>8. Apart(D, T, H \ {pp}) /\ Data(pte, D, T, H \ {pp}) BY DEF Acct, Apart, Data
  <1> QED BY <1>2, <1>3, <1>4, <1>5, <1>6, <1>7, <1>8 DEF Acct

\* Clearing a page in hand.
LEMMA ClearPage ==
  ASSUME NEW fl, NEW ref, NEW pde, NEW pte, NEW D, NEW T, NEW H,
         Acct(fl, ref, pde, pte, D, T, H), NEW pp \in H,
         NEW pde2, pde2 = Upd(pde, pp, ClearPde),
         NEW pte2, pte2 = Upd(pte, pp, ClearPte)
  PROVE  /\ Acct(fl, ref, pde2, pte2, D, T, H)
         /\ \A t \in Ptx : pte2[pp][t] = NoPte
         /\ \A x \in Pdx : pde2[pp][x] = NULL
         /\ \A q \in Page : q # pp => pde2[q] = pde[q] /\ pte2[q] = pte[q]
         /\ \A p \in Page : Refs(pte2, T, p) = Refs(pte, T, p)
  <1>1. pp \in Page /\ pp \notin D \cup T /\ T \in SUBSET Page /\ D \subseteq Page
        /\ pde \in [Page -> Directory] /\ pte \in [Page -> Table] BY DEF Acct, Apart
  <1>2. pde2 \in [Page -> Directory] /\ pte2 \in [Page -> Table]
        /\ pde2[pp] = ClearPde /\ pte2[pp] = ClearPte
        /\ \A q \in Page : q # pp => pde2[q] = pde[q] /\ pte2[q] = pte[q]
    BY <1>1, ClearPdeType, ClearPteType DEF Upd
  <1>4. \A q \in D : q \in Page /\ q # pp BY <1>1
  <1>5. \A q \in T : pte2[q] = pte[q] BY <1>1, <1>2
  <1>3. \A p \in Page : Refs(pte2, T, p) = Refs(pte, T, p) BY <1>5, RefsOther
  <1>6. Tree(pde2, D, T)
    <2>1. \A d \in D : pde2[d] = pde[d] BY <1>2, <1>4
    <2>2. \A d \in D, x \in Pdx : pde2[d][x] = pde[d][x] BY <2>1
    <2>3. Tree(pde, D, T) BY DEF Acct
    <2> QED BY <2>2, <2>3 DEF Tree
  <1>7. Data(pte2, D, T, H)
    BY <1>5 DEF Acct, Data
  <1>8. FreeOK(fl, pte2, D, T, H) BY <1>3 DEF Acct, FreeOK
  <1>9. CountOK(ref, pte2, D, T) BY <1>3 DEF Acct, CountOK
  <1> QED BY <1>2, <1>3, <1>6, <1>7, <1>8, <1>9, ClearPdeType, ClearPteType DEF Acct

\* A cleared page in hand becomes a page table, at an empty entry of a directory.
LEMMA AddTable ==
  ASSUME NEW fl, NEW ref, NEW pde, NEW pte, NEW D, NEW T, NEW H,
         Acct(fl, ref, pde, pte, D, T, H), NEW pt \in H, \A t \in Ptx : pte[pt][t] = NoPte,
         NEW d \in D, NEW x \in Pdx, pde[d][x] = NULL,
         NEW ref2, ref2 = Inc(ref, pt), ref[pt] = 0,
         NEW pde2, pde2 = Put(pde, d, x, pt)
  PROVE  /\ Acct(fl, ref2, pde2, pte, D, Plus(T, pt), Minus(H, pt))
         /\ \A p \in Page : Refs(pte, Plus(T, pt), p) = Refs(pte, T, p)
  <1> USE DEF Plus, Minus, Inc
  <1>1. /\ pt \in Page /\ pt \notin D \cup T /\ T \in SUBSET Page /\ D \subseteq Page
        /\ d \in Page /\ pde[d] \in Directory
        /\ ref \in [Page -> 0 .. RefMod - 1]
        /\ pde \in [Page -> Directory] /\ pte \in [Page -> Table] BY DEF Acct, Apart
  <1>2. \A p \in Page : Refs(pte, T \cup {pt}, p) = Refs(pte, T, p) BY <1>1, RefsEmpty
  <1>3. /\ pde2 \in [Page -> Directory]
        /\ \A e \in Page, y \in Pdx : pde2[e][y] = IF e = d /\ y = x THEN pt ELSE pde[e][y]
    <2>1. [pde[d] EXCEPT ![x] = pt] \in Directory BY <1>1 DEF Directory, PageOrNull
    <2>2. DOMAIN pde[d] = Pdx /\ DOMAIN pde = Page BY <1>1 DEF Directory
    <2> QED BY <1>1, <2>1, <2>2 DEF Put
  <1>4. ref2 \in [Page -> 0 .. RefMod - 1] /\ ref2[pt] = 1
        /\ \A p \in Page : p # pt => ref2[p] = ref[p]
    <2>1. 1 \in 0 .. RefMod - 1 BY Consts
    <2> QED BY <1>1, <2>1
  <1>5. Apart(D, T \cup {pt}, H \ {pt}) BY <1>1 DEF Acct, Apart
  <1>6. Tree(pde2, D, T \cup {pt})
    <2>1. pt # NULL BY <1>1, Consts
    <2>2. \A e \in D, y \in Pdx : pde2[e][y] = IF e = d /\ y = x THEN pt ELSE pde[e][y]
      BY <1>1, <1>3
    <2>3. \A e \in D, y \in Pdx : pde[e][y] # pt BY <1>1 DEF Acct, Tree
    <2>4. ASSUME NEW p \in Page
          PROVE  p \in T \cup {pt} <=> \E e \in D, y \in Pdx : pde2[e][y] = p
      <3>1. p \in T <=> \E e \in D, y \in Pdx : pde[e][y] = p BY DEF Acct, Tree
      <3>2. p # NULL BY Consts
      <3>3. ASSUME p \in T PROVE \E e \in D, y \in Pdx : pde2[e][y] = p
        <4>1. PICK e \in D, y \in Pdx : pde[e][y] = p BY <3>1, <3>3
        <4>2. pde2[e][y] = p BY <2>2, <3>2, <4>1
        <4> QED BY <4>2
      <3>4. pde2[d][x] = pt BY <2>2
      <3> QED BY <2>2, <3>1, <3>3, <3>4
    <2>5. ASSUME NEW e1 \in D, NEW e2 \in D, NEW y1 \in Pdx, NEW y2 \in Pdx,
                 pde2[e1][y1] = pde2[e2][y2], pde2[e1][y1] # NULL
          PROVE  e1 = e2 /\ y1 = y2
      <3>1. CASE pde2[e1][y1] = pt
        <4>1. e1 = d /\ y1 = x BY <2>2, <2>3, <3>1
        <4>2. e2 = d /\ y2 = x BY <2>2, <2>3, <2>5, <3>1
        <4> QED BY <4>1, <4>2
      <3>2. CASE pde2[e1][y1] # pt
        <4>1. pde2[e1][y1] = pde[e1][y1] /\ pde2[e2][y2] = pde[e2][y2] BY <2>2, <2>5, <3>2
        <4>2. pde[e1][y1] = pde[e2][y2] /\ pde[e1][y1] # NULL BY <2>5, <4>1
        <4>3. Tree(pde, D, T) BY DEF Acct
        <4> QED BY <4>2, <4>3 DEF Tree
      <3> QED BY <3>1, <3>2
    <2> QED BY <2>4, <2>5 DEF Tree
  <1>7. Data(pte, D, T \cup {pt}, H \ {pt})
    <2>1. \A q \in T \cup {pt}, t \in Ptx :
            /\ q \in T => pte[q][t].pp \notin D \cup T \cup H
                          /\ (pte[q][t].pp = NULL => pte[q][t] = NoPte)
            /\ q = pt => pte[q][t] = NoPte
      BY DEF Acct, Data
    <2>2. NoPte.pp = NULL /\ NULL \notin D \cup T \cup H BY NoPteType, Consts DEF Acct, Apart
    <2> QED BY <2>1, <2>2 DEF Data
  <1>8. FreeOK(fl, pte, D, T \cup {pt}, H \ {pt}) BY <1>1, <1>2 DEF Acct, FreeOK
  <1>9. CountOK(ref2, pte, D, T \cup {pt})
    <2>1. \A p \in D \cup T : ref2[p] = 1 BY <1>1, <1>4 DEF Acct, CountOK
    <2>2. \A p \in Page \ (D \cup (T \cup {pt})) : ref2[p] = Cardinality(Refs(pte, T, p))
      BY <1>4 DEF Acct, CountOK
    <2> QED BY <1>2, <1>4, <2>1, <2>2 DEF CountOK
  <1> QED BY <1>1, <1>2, <1>3, <1>4, <1>5, <1>6, <1>7, <1>8, <1>9 DEF Acct

\* A cleared page in hand becomes a directory.
LEMMA AddDirectory ==
  ASSUME NEW fl, NEW ref, NEW pde, NEW pte, NEW D, NEW T, NEW H,
         Acct(fl, ref, pde, pte, D, T, H), NEW d \in H, \A x \in Pdx : pde[d][x] = NULL,
         NEW ref2, ref2 = Inc(ref, d), ref[d] = 0
  PROVE  Acct(fl, ref2, pde, pte, Plus(D, d), T, Minus(H, d))
  <1> USE DEF Plus, Minus, Inc
  <1>1. /\ d \in Page /\ d \notin D \cup T /\ T \in SUBSET Page /\ D \subseteq Page
        /\ ref \in [Page -> 0 .. RefMod - 1] BY DEF Acct, Apart
  <1>2. ref2 \in [Page -> 0 .. RefMod - 1] /\ ref2[d] = 1
        /\ \A p \in Page : p # d => ref2[p] = ref[p]
    <2>1. 1 \in 0 .. RefMod - 1 BY Consts
    <2> QED BY <1>1, <2>1
  <1>3. Apart(D \cup {d}, T, H \ {d}) BY <1>1 DEF Acct, Apart
  <1>4. Tree(pde, D \cup {d}, T)
    <2>1. NULL \notin Page BY Consts
    <2>2. \A p \in Page : p \in T <=> \E e \in D \cup {d}, x \in Pdx : pde[e][x] = p
      BY <2>1 DEF Acct, Tree
    <2>3. ASSUME NEW e1 \in D \cup {d}, NEW e2 \in D \cup {d}, NEW y1 \in Pdx, NEW y2 \in Pdx,
                 pde[e1][y1] = pde[e2][y2], pde[e1][y1] # NULL
          PROVE  e1 = e2 /\ y1 = y2
      <3>1. e1 \in D /\ e2 \in D BY <2>3
      <3> QED BY <2>3, <3>1 DEF Acct, Tree
    <2> QED BY <2>2, <2>3 DEF Tree
  <1>5. Data(pte, D \cup {d}, T, H \ {d}) BY DEF Acct, Data
  <1>6. FreeOK(fl, pte, D \cup {d}, T, H \ {d}) BY <1>1 DEF Acct, FreeOK
  <1>7. CountOK(ref2, pte, D \cup {d}, T)
    <2>1. \A p \in D \cup T : ref2[p] = 1 BY <1>1, <1>2 DEF Acct, CountOK
    <2>2. \A p \in Page \ ((D \cup {d}) \cup T) : ref2[p] = Cardinality(Refs(pte, T, p))
      BY <1>2 DEF Acct, CountOK
    <2> QED BY <1>2, <2>1, <2>2 DEF CountOK
  <1> QED BY <1>2, <1>3, <1>4, <1>5, <1>6, <1>7 DEF Acct

\* The page at a filled entry is counted and not free; clearing the entry takes a
\* reference away, the last of which leaves the page in hand.
LEMMA Unmap ==
  ASSUME NEW fl, NEW ref, NEW pde, NEW pte, NEW D, NEW T, NEW H,
         Acct(fl, ref, pde, pte, D, T, H), NEW pt \in T, NEW t \in Ptx,
         NEW pp, pp = pte[pt][t].pp, pp # NULL,
         NEW ref2, ref2 = Dec(ref, pp),
         NEW pte2, pte2 = Put(pte, pt, t, NoPte)
  PROVE  /\ pp \in Page /\ ref[pp] # 0 /\ ~Listed(fl, pp) /\ pp \notin H
         /\ ref[pp] = 1 => /\ Refs(pte2, T, pp) = {}
                           /\ Acct(fl, ref2, pde, pte2, D, T, Plus(H, pp))
         /\ ref[pp] # 1 => /\ Refs(pte2, T, pp) # {}
                           /\ Acct(fl, ref2, pde, pte2, D, T, H)
         /\ \A p \in Page : p # pp => Refs(pte2, T, p) = Refs(pte, T, p)
         /\ \A p \in Page : Cardinality(Refs(pte2, T, p)) <= Cardinality(Refs(pte, T, p))
  <1> USE DEF Plus, Dec
  <1>1. /\ pt \in Page /\ T \in SUBSET Page /\ D \subseteq Page /\ H \subseteq Page
        /\ ref \in [Page -> 0 .. RefMod - 1] /\ pte[pt] \in Table
        /\ pde \in [Page -> Directory] /\ pte \in [Page -> Table] BY DEF Acct, Apart
  <1>2. pp \in Page
    <2>1. pte[pt][t] \in Pte BY <1>1 DEF Table
    <2> QED BY <2>1 DEF Pte, PageOrNull
  <1>3. pp \notin D \cup T \cup H BY DEF Acct, Data
  <1>4. Refs(pte, T, pp) # {}
    <2>1. <<pt, t>> \in Refs(pte, T, pp) BY DEF Refs
    <2> QED BY <2>1
  <1>5. ref[pp] = Cardinality(Refs(pte, T, pp)) BY <1>2, <1>3 DEF Acct, CountOK
  <1>6. ref[pp] # 0 /\ ref[pp] \in Nat BY <1>1, <1>4, <1>5, RefsFinite
  <1>7. ~Listed(fl, pp) BY <1>2, <1>4 DEF Acct, FreeOK
  <1>8. /\ pte2 \in [Page -> Table]
        /\ \A q \in T, u \in Ptx : pte2[q][u] = IF q = pt /\ u = t THEN NoPte ELSE pte[q][u]
    BY <1>1, PteWrite, NoPteType
  <1>9. ASSUME NEW p \in Page
        PROVE  /\ Refs(pte2, T, p) = Refs(pte, T, p) \ {<<pt, t>>}
               /\ p = pp => Cardinality(Refs(pte2, T, p)) = Cardinality(Refs(pte, T, p)) - 1
               /\ p # pp => Cardinality(Refs(pte2, T, p)) = Cardinality(Refs(pte, T, p))
    BY <1>1, RefsClear
  <1>10. ASSUME NEW p \in Page, p # pp PROVE Refs(pte2, T, p) = Refs(pte, T, p)
    <2>1. <<pt, t>> \notin Refs(pte, T, p) BY <1>10 DEF Refs
    <2> QED BY <2>1, <1>9
  <1>11. ASSUME NEW p \in Page PROVE Cardinality(Refs(pte2, T, p)) <= Cardinality(Refs(pte, T, p))
    <2>1. Cardinality(Refs(pte, T, p)) \in Nat BY <1>1, RefsFinite
    <2> QED BY <2>1, <1>9
  <1>12. /\ ref2 \in [Page -> 0 .. RefMod - 1] /\ ref2[pp] = ref[pp] - 1
         /\ \A p \in Page : p # pp => ref2[p] = ref[p]
    <2>1. ref[pp] \in 0 .. RefMod - 1 BY <1>1, <1>2
    <2>2. ref[pp] - 1 \in 0 .. RefMod - 1 BY <2>1, <1>6, Consts
    <2> QED BY <1>1, <1>2, <2>2
  <1>13. ref[pp] = 1 <=> Refs(pte2, T, pp) = {}
    <2>1. Cardinality(Refs(pte2, T, pp)) = ref[pp] - 1 BY <1>2, <1>5, <1>9
    <2>2. Cardinality(Refs(pte2, T, pp)) = 0 <=> Refs(pte2, T, pp) = {} BY <1>1, RefsFinite
    <2>3. ref[pp] = 1 <=> ref[pp] - 1 = 0 BY <1>6
    <2> QED BY <2>1, <2>2, <2>3
  <1>14. CountOK(ref2, pte2, D, T)
    <2>1. \A p \in D \cup T : ref2[p] = 1 BY <1>1, <1>3, <1>12 DEF Acct, CountOK
    <2>2. ASSUME NEW p \in Page \ (D \cup T) PROVE ref2[p] = Cardinality(Refs(pte2, T, p))
      <3>1. ref[p] = Cardinality(Refs(pte, T, p)) BY DEF Acct, CountOK
      <3>2. CASE p = pp BY <3>1, <3>2, <1>9, <1>12
      <3>3. CASE p # pp BY <3>1, <3>3, <1>9, <1>12
      <3> QED BY <3>2, <3>3
    <2> QED BY <2>1, <2>2 DEF CountOK
  <1>15. Data(pte2, D, T, H)
    <2>1. NoPte.pp = NULL /\ NULL \notin D \cup T \cup H BY <1>1, NoPteType, Consts
    <2>2. ASSUME NEW q \in T, NEW u \in Ptx
          PROVE  /\ pte2[q][u].pp \notin D \cup T \cup H
                 /\ pte2[q][u].pp = NULL => pte2[q][u] = NoPte
      <3>1. CASE q = pt /\ u = t BY <1>8, <2>1, <3>1
      <3>2. CASE ~(q = pt /\ u = t)
        <4>1. pte2[q][u] = pte[q][u] BY <1>8, <3>2
        <4> QED BY <4>1 DEF Acct, Data
      <3> QED BY <3>1, <3>2
    <2> QED BY <2>2 DEF Data
  <1>16. ASSUME ref[pp] = 1 PROVE Acct(fl, ref2, pde, pte2, D, T, H \cup {pp})
    <2>1. Apart(D, T, H \cup {pp}) BY <1>2, <1>3 DEF Acct, Apart
    <2>2. Data(pte2, D, T, H \cup {pp})
      <3>1. ASSUME NEW q \in T, NEW u \in Ptx PROVE pte2[q][u].pp # pp
        <4>1. <<q, u>> \notin Refs(pte2, T, pp) BY <1>13, <1>16
        <4> QED BY <4>1 DEF Refs
      <3> QED BY <1>15, <3>1 DEF Data
    <2>3. FreeOK(fl, pte2, D, T, H \cup {pp})
      <3>1. ASSUME NEW p \in Page
            PROVE Listed(fl, p) <=> p \notin D \cup T \cup (H \cup {pp}) /\ Refs(pte2, T, p) = {}
        <4>1. CASE p = pp BY <1>7, <4>1
        <4>2. CASE p # pp BY <1>10, <4>2 DEF Acct, FreeOK
        <4> QED BY <4>1, <4>2
      <3> QED BY <3>1 DEF Acct, FreeOK
    <2> QED BY <1>8, <1>12, <1>14, <2>1, <2>2, <2>3 DEF Acct
  <1>17. ASSUME ref[pp] # 1 PROVE Acct(fl, ref2, pde, pte2, D, T, H)
    <2>1. FreeOK(fl, pte2, D, T, H)
      <3>1. ASSUME NEW p \in Page
            PROVE Listed(fl, p) <=> p \notin D \cup T \cup H /\ Refs(pte2, T, p) = {}
        <4>1. CASE p = pp BY <1>7, <1>13, <1>17, <4>1
        <4>2. CASE p # pp BY <1>10, <4>2 DEF Acct, FreeOK
        <4> QED BY <4>1, <4>2
      <3> QED BY <3>1 DEF Acct, FreeOK
    <2> QED BY <1>8, <1>12, <1>14, <1>15, <2>1 DEF Acct
  <1> QED BY <1>2, <1>3, <1>6, <1>7, <1>10, <1>11, <1>13, <1>16, <1>17

\* A page in hand or mapped elsewhere is mapped at an empty entry.
LEMMA MapPage ==
  ASSUME NEW fl, NEW ref, NEW pde, NEW pte, NEW D, NEW T, NEW H,
         Acct(fl, ref, pde, pte, D, T, H), NEW pt \in T, NEW t \in Ptx, pte[pt][t] = NoPte,
         NEW pp \in Page, pp \in H \/ Refs(pte, T, pp) # {}, NEW e \in Pte, e.pp = pp,
         Cardinality(Refs(pte, T, pp)) + 1 < RefMod,
         NEW ref2, ref2 = Inc(ref, pp),
         NEW pte2, pte2 = Put(pte, pt, t, e)
  PROVE  /\ ref[pp] = Cardinality(Refs(pte, T, pp)) /\ ref[pp] \in Nat
         /\ Acct(fl, ref2, pde, pte2, D, T, Minus(H, pp))
  <1> USE DEF Minus, Inc
  <1>1. /\ pt \in Page /\ T \in SUBSET Page /\ D \subseteq Page /\ H \subseteq Page
        /\ ref \in [Page -> 0 .. RefMod - 1] /\ pte[pt] \in Table
        /\ pde \in [Page -> Directory] /\ pte \in [Page -> Table] BY DEF Acct, Apart
  <1>3. pp # NULL BY Consts
  <1>4. pp \notin D \cup T
    <2>1. CASE pp \in H BY <2>1 DEF Acct, Apart
    <2>2. CASE Refs(pte, T, pp) # {}
      <3>1. PICK s \in T \X Ptx : pte[s[1]][s[2]].pp = pp BY <2>2 DEF Refs
      <3>2. s[1] \in T /\ s[2] \in Ptx OBVIOUS
      <3> QED BY <3>1, <3>2 DEF Acct, Data
    <2> QED BY <2>1, <2>2
  <1>5. ref[pp] = Cardinality(Refs(pte, T, pp)) /\ ref[pp] \in Nat
    BY <1>1, <1>4, RefsFinite DEF Acct, CountOK
  <1>6. /\ pte2 \in [Page -> Table]
        /\ \A q \in T, u \in Ptx : pte2[q][u] = IF q = pt /\ u = t THEN e ELSE pte[q][u]
    BY <1>1, PteWrite
  <1>7. ASSUME NEW p \in Page
        PROVE  /\ p # pp => Refs(pte2, T, p) = Refs(pte, T, p)
               /\ p = pp => /\ Refs(pte2, T, p) # {}
                            /\ Cardinality(Refs(pte2, T, p)) = Cardinality(Refs(pte, T, p)) + 1
    <2>1. /\ e.pp # p => Refs(pte2, T, p) = Refs(pte, T, p)
          /\ e.pp = p => /\ Refs(pte2, T, p) = Refs(pte, T, p) \cup {<<pt, t>>}
                         /\ Cardinality(Refs(pte2, T, p)) = Cardinality(Refs(pte, T, p)) + 1
      BY <1>1, RefsSet
    <2> QED BY <2>1
  <1>8. /\ ref2 \in [Page -> 0 .. RefMod - 1] /\ ref2[pp] = ref[pp] + 1
        /\ \A p \in Page : p # pp => ref2[p] = ref[p]
    <2>1. ref[pp] + 1 \in 0 .. RefMod - 1 BY <1>5, Consts
    <2> QED BY <1>1, <2>1
  <1>9. Apart(D, T, H \ {pp}) BY DEF Acct, Apart
  <1>10. Data(pte2, D, T, H \ {pp})
    <2>1. ASSUME NEW q \in T, NEW u \in Ptx
          PROVE  /\ pte2[q][u].pp \notin D \cup T \cup (H \ {pp})
                 /\ pte2[q][u].pp = NULL => pte2[q][u] = NoPte
      <3>1. CASE q = pt /\ u = t BY <1>3, <1>4, <1>6, <3>1
      <3>2. CASE ~(q = pt /\ u = t)
        <4>1. pte2[q][u] = pte[q][u] BY <1>6, <3>2
        <4> QED BY <4>1 DEF Acct, Data
      <3> QED BY <3>1, <3>2
    <2> QED BY <2>1 DEF Data
  <1>11. FreeOK(fl, pte2, D, T, H \ {pp})
    <2>1. ASSUME NEW p \in Page
          PROVE Listed(fl, p) <=> p \notin D \cup T \cup (H \ {pp}) /\ Refs(pte2, T, p) = {}
      <3>1. CASE p = pp BY <1>7, <3>1 DEF Acct, FreeOK
      <3>2. CASE p # pp BY <1>7, <3>2 DEF Acct, FreeOK
      <3> QED BY <3>1, <3>2
    <2> QED BY <2>1 DEF Acct, FreeOK
  <1>12. CountOK(ref2, pte2, D, T)
    <2>1. \A p \in D \cup T : ref2[p] = 1 BY <1>1, <1>4, <1>8 DEF Acct, CountOK
    <2>2. ASSUME NEW p \in Page \ (D \cup T) PROVE ref2[p] = Cardinality(Refs(pte2, T, p))
      <3>1. ref[p] = Cardinality(Refs(pte, T, p)) BY DEF Acct, CountOK
      <3>2. CASE p = pp BY <3>1, <3>2, <1>7, <1>8
      <3>3. CASE p # pp BY <3>1, <3>3, <1>7, <1>8
      <3> QED BY <3>2, <3>3
    <2> QED BY <2>1, <2>2 DEF CountOK
  <1> QED BY <1>5, <1>6, <1>8, <1>9, <1>10, <1>11, <1>12 DEF Acct

\* An empty table is taken out of its directory; it is in hand then.
LEMMA DropTable ==
  ASSUME NEW fl, NEW ref, NEW pde, NEW pte, NEW D, NEW T, NEW H,
         Acct(fl, ref, pde, pte, D, T, H), NEW d \in D, NEW x \in Pdx,
         NEW pt, pt = pde[d][x], pt # NULL, \A t \in Ptx : pte[pt][t] = NoPte,
         NEW ref2, ref2 = Dec(ref, pt),
         NEW pde2, pde2 = Put(pde, d, x, NULL)
  PROVE  /\ pt \in T /\ ref[pt] = 1 /\ ~Listed(fl, pt)
         /\ Acct(fl, ref2, pde2, pte, D, Minus(T, pt), Plus(H, pt))
         /\ \A e \in D, y \in Pdx : pde2[e][y] = IF e = d /\ y = x THEN NULL ELSE pde[e][y]
  <1> USE DEF Plus, Minus, Dec
  <1>1. /\ T \in SUBSET Page /\ D \subseteq Page /\ H \subseteq Page
        /\ d \in Page /\ pde[d] \in Directory /\ ref \in [Page -> 0 .. RefMod - 1]
        /\ pde \in [Page -> Directory] /\ pte \in [Page -> Table] BY DEF Acct, Apart
  <1>2. pt \in Page /\ pt \in T
    <2>1. pt \in Page BY <1>1 DEF Directory, PageOrNull
    <2> QED BY <2>1 DEF Acct, Tree
  <1>3. pt \notin D \cup H /\ ref[pt] = 1 /\ ~Listed(fl, pt)
    BY <1>2 DEF Acct, Apart, CountOK, FreeOK
  <1>4. \A p \in Page : Refs(pte, T \ {pt}, p) = Refs(pte, T, p) BY <1>1, <1>2, RefsEmpty
  <1>5. /\ pde2 \in [Page -> Directory]
        /\ \A e \in Page, y \in Pdx : pde2[e][y] = IF e = d /\ y = x THEN NULL ELSE pde[e][y]
    <2>1. [pde[d] EXCEPT ![x] = NULL] \in Directory BY <1>1 DEF Directory, PageOrNull
    <2>2. DOMAIN pde[d] = Pdx /\ DOMAIN pde = Page BY <1>1 DEF Directory
    <2> QED BY <1>1, <2>1, <2>2 DEF Put
  <1>6. \A e \in D, y \in Pdx : pde2[e][y] = IF e = d /\ y = x THEN NULL ELSE pde[e][y]
    BY <1>1, <1>5
  <1>7. ref2 \in [Page -> 0 .. RefMod - 1] /\ ref2[pt] = 0
        /\ \A p \in Page : p # pt => ref2[p] = ref[p]
    <2>1. ref[pt] - 1 = 0 /\ 0 \in 0 .. RefMod - 1 BY <1>3, Consts
    <2> QED BY <1>1, <1>2, <2>1
  <1>8. Apart(D, T \ {pt}, H \cup {pt}) BY <1>2, <1>3 DEF Acct, Apart
  <1>9. Tree(pde2, D, T \ {pt})
    <2>0. Tree(pde, D, T) BY DEF Acct
    <2>1. \A e \in D, y \in Pdx : pde[e][y] = pt => e = d /\ y = x BY <2>0 DEF Tree
    <2>2. ASSUME NEW p \in Page
          PROVE  p \in T \ {pt} <=> \E e \in D, y \in Pdx : pde2[e][y] = p
      <3>1. p \in T <=> \E e \in D, y \in Pdx : pde[e][y] = p BY <2>0 DEF Tree
      <3>2. p # NULL BY Consts
      <3>3. ASSUME p \in T \ {pt} PROVE \E e \in D, y \in Pdx : pde2[e][y] = p
        <4>1. PICK e \in D, y \in Pdx : pde[e][y] = p BY <3>1, <3>3
        <4>2. pde2[e][y] = p BY <1>6, <3>3, <4>1
        <4> QED BY <4>2
      <3>4. ASSUME NEW e \in D, NEW y \in Pdx, pde2[e][y] = p PROVE p \in T \ {pt}
        <4>1. pde[e][y] = p /\ ~(e = d /\ y = x) BY <1>6, <3>2, <3>4
        <4> QED BY <4>1, <3>1, <2>1
      <3> QED BY <3>3, <3>4
    <2>3. ASSUME NEW e1 \in D, NEW e2 \in D, NEW y1 \in Pdx, NEW y2 \in Pdx,
                 pde2[e1][y1] = pde2[e2][y2], pde2[e1][y1] # NULL
          PROVE  e1 = e2 /\ y1 = y2
      <3>1. pde2[e1][y1] = pde[e1][y1] /\ pde2[e2][y2] = pde[e2][y2] BY <1>6, <2>3
      <3>2. pde[e1][y1] = pde[e2][y2] /\ pde[e1][y1] # NULL BY <2>3, <3>1
      <3> QED BY <2>0, <3>2 DEF Tree
    <2> QED BY <2>2, <2>3 DEF Tree
  <1>10. Data(pte, D, T \ {pt}, H \cup {pt}) BY <1>2 DEF Acct, Data
  <1>11. FreeOK(fl, pte, D, T \ {pt}, H \cup {pt}) BY <1>2, <1>4 DEF Acct, FreeOK
  <1>12. CountOK(ref2, pte, D, T \ {pt})
    <2>1. \A p \in D \cup (T \ {pt}) : ref2[p] = 1 BY <1>1, <1>3, <1>7 DEF Acct, CountOK
    <2>2. ASSUME NEW p \in Page \ (D \cup (T \ {pt}))
          PROVE  ref2[p] = Cardinality(Refs(pte, T \ {pt}, p))
      <3>1. CASE p = pt
        <4>1. Refs(pte, T, pt) = {}
          <5>1. \A q \in T, t \in Ptx : pte[q][t].pp # pt BY <1>2 DEF Acct, Data
          <5> QED BY <5>1 DEF Refs
        <4>2. Refs(pte, T \ {pt}, p) = {} BY <1>2, <1>4, <3>1, <4>1
        <4> QED BY <1>7, <3>1, <4>2, FS_EmptySet
      <3>2. CASE p # pt BY <1>4, <1>7, <3>2 DEF Acct, CountOK
      <3> QED BY <3>1, <3>2
    <2> QED BY <2>1, <2>2 DEF CountOK
  <1> QED BY <1>2, <1>3, <1>5, <1>6, <1>7, <1>8, <1>9, <1>10, <1>11, <1>12 DEF Acct

\* A directory without tables is given up; it is in hand then.
LEMMA DropDirectory ==
  ASSUME NEW fl, NEW ref, NEW pde, NEW pte, NEW D, NEW T, NEW H,
         Acct(fl, ref, pde, pte, D, T, H), NEW d \in D, \A x \in Pdx : pde[d][x] = NULL,
         NEW ref2, ref2 = Dec(ref, d)
  PROVE  /\ d \in Page /\ ref[d] = 1 /\ ~Listed(fl, d)
         /\ Acct(fl, ref2, pde, pte, Minus(D, d), T, Plus(H, d))
  <1> USE DEF Plus, Minus, Dec
  <1>1. /\ d \in Page /\ d \notin T \cup H /\ T \in SUBSET Page /\ D \subseteq Page
        /\ ref \in [Page -> 0 .. RefMod - 1] BY DEF Acct, Apart
  <1>2. ref[d] = 1 /\ ~Listed(fl, d) BY <1>1 DEF Acct, CountOK, FreeOK
  <1>3. ref2 \in [Page -> 0 .. RefMod - 1] /\ ref2[d] = 0
        /\ \A p \in Page : p # d => ref2[p] = ref[p]
    <2>1. ref[d] - 1 = 0 /\ 0 \in 0 .. RefMod - 1 BY <1>2, Consts
    <2> QED BY <1>1, <2>1
  <1>4. Apart(D \ {d}, T, H \cup {d}) BY <1>1 DEF Acct, Apart
  <1>5. Tree(pde, D \ {d}, T)
    <2>0. Tree(pde, D, T) BY DEF Acct
    <2>1. NULL \notin Page BY Consts
    <2>2. ASSUME NEW p \in Page
          PROVE  p \in T <=> \E e \in D \ {d}, x \in Pdx : pde[e][x] = p
      <3>1. p \in T <=> \E e \in D, x \in Pdx : pde[e][x] = p BY <2>0 DEF Tree
      <3>2. \A x \in Pdx : pde[d][x] # p BY <2>1
      <3> QED BY <3>1, <3>2
    <2> QED BY <2>0, <2>2 DEF Tree
  <1>6. Data(pte, D \ {d}, T, H \cup {d}) BY DEF Acct, Data
  <1>7. FreeOK(fl, pte, D \ {d}, T, H \cup {d}) BY DEF Acct, FreeOK
  <1>8. CountOK(ref2, pte, D \ {d}, T)
    <2>1. \A p \in (D \ {d}) \cup T : ref2[p] = 1 BY <1>1, <1>3 DEF Acct, CountOK
    <2>2. ASSUME NEW p \in Page \ ((D \ {d}) \cup T) PROVE ref2[p] = Cardinality(Refs(pte, T, p))
      <3>1. CASE p = d
        <4>1. Refs(pte, T, d) = {}
          <5>1. \A q \in T, t \in Ptx : pte[q][t].pp # d BY DEF Acct, Data
          <5> QED BY <5>1 DEF Refs
        <4> QED BY <1>1, <1>3, <3>1, <4>1, RefsFinite
      <3>2. CASE p # d BY <1>3, <3>2 DEF Acct, CountOK
      <3> QED BY <3>1, <3>2
    <2> QED BY <2>1, <2>2 DEF CountOK
  <1> QED BY <1>1, <1>2, <1>3, <1>4, <1>5, <1>6, <1>7, <1>8 DEF Acct

-----------------------------------------------------------------------------
(***************************************************************************)
(* The functions of pmap.c keep the account                                *)
(***************************************************************************)

\* The entries in use in the tables T.
Mapped(pte, T) == {pte[s[1]][s[2]] : s \in T \X Ptx} \ {NoPte}

LEMMA MappedIff ==
  ASSUME NEW pte, NEW T, NEW e
  PROVE  e \in Mapped(pte, T) <=> e # NoPte /\ \E pt \in T, t \in Ptx : pte[pt][t] = e
  <1>1. ASSUME NEW pt \in T, NEW t \in Ptx, pte[pt][t] = e, e # NoPte PROVE e \in Mapped(pte, T)
    <2>1. <<pt, t>> \in T \X Ptx /\ <<pt, t>>[1] = pt /\ <<pt, t>>[2] = t OBVIOUS
    <2> QED BY <1>1, <2>1 DEF Mapped
  <1>2. ASSUME e \in Mapped(pte, T) PROVE e # NoPte /\ \E pt \in T, t \in Ptx : pte[pt][t] = e
    <2>1. PICK s \in T \X Ptx : e = pte[s[1]][s[2]] BY <1>2 DEF Mapped
    <2>2. s[1] \in T /\ s[2] \in Ptx OBVIOUS
    <2> QED BY <1>2, <2>1, <2>2 DEF Mapped
  <1> QED BY <1>1, <1>2

LEMMA VaParts == ASSUME NEW va \in Va PROVE PDX(va) \in Pdx /\ PTX(va) \in Ptx /\ va = <<PDX(va), PTX(va)>>
  BY DEF Va, PDX, PTX

LEMMA PairFields == ASSUME NEW p, NEW r PROVE Pair(p, r).pp = p /\ Pair(p, r).m = r
  BY DEF Pair

LEMMA AcctLen ==
  ASSUME NEW fl, NEW ref, NEW pde, NEW pte, NEW D, NEW T, NEW H, Acct(fl, ref, pde, pte, D, T, H)
  PROVE  Len(fl) \in Nat
  <1>1. fl \in Seq(Page) BY DEF Acct
  <1> QED BY <1>1

\* What a directory entry names is a table.
LEMMA EntryIsTable ==
  ASSUME NEW fl, NEW ref, NEW pde, NEW pte, NEW D, NEW T, NEW H, Acct(fl, ref, pde, pte, D, T, H),
         NEW d \in D, NEW x \in Pdx
  PROVE  pde[d][x] # NULL => pde[d][x] \in T
  <1>1. d \in Page /\ pde \in [Page -> Directory] /\ Tree(pde, D, T) BY DEF Acct, Apart
  <1>2. pde[d] \in Directory BY <1>1
  <1>3. pde[d][x] \in PageOrNull BY <1>2 DEF Directory
  <1> QED BY <1>1, <1>3 DEF PageOrNull, Tree

\* pgdir_walk with a table in place, or without memory for one.
LEMMA WalkOld ==
  ASSUME NEW fl, NEW ref, NEW pde, NEW pte, NEW b, NEW m, m = Mem(fl, ref, pde, pte, b),
         NEW d, NEW va, NEW x, x = PDX(va), pde[d][x] # NULL \/ ~Some(fl)
  PROVE  pgdir_walk_create(m, d, va) = m
  <1>1. m.pde = pde /\ m.page_free_list = fl BY MemFields
  <1>2. ASSUME pde[d][x] # NULL PROVE pgdir_walk_create(m, d, va) = m
    BY <1>1, <1>2 DEF pgdir_walk_create
  <1>3. ASSUME ~Some(fl) PROVE pgdir_walk_create(m, d, va) = m
    <2>1. AllocZero(m) = Pair(NULL, m) BY <1>1, <1>3 DEF AllocZero, Pair, Some, page_alloc
    <2>2. AllocZero(m).pp = NULL BY <2>1, PairFields
    <2> QED BY <2>2 DEF AllocZero, pgdir_walk_create
  <1> QED BY <1>2, <1>3

\* pgdir_walk with a new table.
LEMMA WalkNew ==
  ASSUME NEW fl, NEW ref, NEW pde, NEW pte, NEW b, NEW m, m = Mem(fl, ref, pde, pte, b),
         NEW d, NEW va, NEW x, x = PDX(va), pde[d][x] = NULL, Some(fl),
         NEW pp, pp = Hd(fl), pp # NULL, ref[pp] = 0
  PROVE  pgdir_walk_create(m, d, va)
           = Mem(Tl(fl), Inc(ref, pp), Put(Upd(pde, pp, ClearPde), d, x, pp),
                 Upd(pte, pp, ClearPte), b)
  <1>1. m.pde = pde /\ m.page_free_list = fl BY MemFields
  <1>2. PICK fl1, pde1, pte1 : fl1 = Tl(fl) /\ pde1 = Upd(pde, pp, ClearPde)
                               /\ pte1 = Upd(pte, pp, ClearPte)
    OBVIOUS
  <1>3. PICK r : r = Mem(fl1, ref, pde1, pte1, b) OBVIOUS
  <1>4. AllocZero(m) = Pair(pp, r) BY <1>2, <1>3, AllocFields
  <1>5. AllocZero(m).pp = pp /\ AllocZero(m).m = r BY <1>4, PairFields
  <1>6. PICK i : i = incref(r, pp) OBVIOUS
  <1>7. PICK ref1 : ref1 = Inc(ref, pp) OBVIOUS
  <1>8. i = Mem(fl1, ref1, pde1, pte1, b)
    <2>1. ref[pp] \in Nat /\ ref[pp] + 1 < RefMod BY Consts
    <2> QED BY <1>3, <1>6, <1>7, <2>1, IncrefFields
  <1>9. pgdir_walk_create(m, d, va) = [i EXCEPT !.pde[d][x] = pp]
    BY <1>1, <1>5, <1>6 DEF AllocZero, pgdir_walk_create
  <1>10. PICK v : v = Put(pde1, d, x, pp) OBVIOUS
  <1>11. i.pde = pde1 BY <1>8, MemFields
  <1>12. [i EXCEPT !.pde[d][x] = pp] = [i EXCEPT !.pde = v] BY <1>10, <1>11 DEF Put
  <1>13. [i EXCEPT !.pde = v] = Mem(fl1, ref1, v, pte1, b) BY <1>8, WritePde
  <1> QED BY <1>2, <1>7, <1>9, <1>10, <1>12, <1>13

\* pgdir_walk with create keeps the account and maps nothing; the table exists
\* afterwards unless there is no memory.
LEMMA WalkCreate ==
  ASSUME NEW fl, NEW ref, NEW pde, NEW pte, NEW b, NEW m, m = Mem(fl, ref, pde, pte, b),
         NEW D, NEW T, NEW H, Acct(fl, ref, pde, pte, D, T, H),
         NEW d \in D, NEW va, NEW x \in Pdx, x = PDX(va)
  PROVE  \E fl2, ref2, pde2, pte2, T2 :
           /\ pgdir_walk_create(m, d, va) = Mem(fl2, ref2, pde2, pte2, b)
           /\ Acct(fl2, ref2, pde2, pte2, D, T2, H)
           /\ Mapped(pte2, T2) = Mapped(pte, T)
           /\ \A p \in Page : Refs(pte2, T2, p) = Refs(pte, T, p)
           /\ Some(fl) => pde2[d][x] # NULL
           /\ Len(fl2) >= Len(fl) - 1
  <1>0. Len(fl) \in Nat BY AcctLen
  <1>1. CASE pde[d][x] # NULL \/ ~Some(fl)
    <2>1. pgdir_walk_create(m, d, va) = m BY <1>1, WalkOld
    <2>2. Len(fl) >= Len(fl) - 1 BY <1>0
    <2> QED BY <1>1, <2>1, <2>2
  <1>2. CASE pde[d][x] = NULL /\ Some(fl)
    <2>1. PICK pp : pp = Hd(fl) OBVIOUS
    <2>2. /\ pp \in Page /\ pp \notin D \cup T \cup H /\ Refs(pte, T, pp) = {} /\ ref[pp] = 0
          /\ Len(Tl(fl)) = Len(fl) - 1 /\ Len(fl) \in Nat
          /\ Acct(Tl(fl), ref, pde, pte, D, T, Plus(H, pp))
      BY <1>2, <2>1, TakePage
    <2>3. pp \in Plus(H, pp) /\ Minus(Plus(H, pp), pp) = H BY <2>2 DEF Plus, Minus
    <2>4. pp # NULL /\ d # pp /\ d \in Page /\ T \subseteq Page /\ pp \notin T
      BY <2>2, Consts DEF Acct, Apart
    <2>5. PICK fl1, ref1, pde1, pte1 :
            /\ fl1 = Tl(fl) /\ ref1 = Inc(ref, pp)
            /\ pde1 = Upd(pde, pp, ClearPde) /\ pte1 = Upd(pte, pp, ClearPte)
      OBVIOUS
    <2>6. /\ Acct(fl1, ref, pde1, pte1, D, T, Plus(H, pp))
          /\ \A t \in Ptx : pte1[pp][t] = NoPte
          /\ \A y \in Pdx : pde1[pp][y] = NULL
          /\ \A q \in Page : q # pp => pde1[q] = pde[q] /\ pte1[q] = pte[q]
          /\ \A p \in Page : Refs(pte1, T, p) = Refs(pte, T, p)
      BY <2>2, <2>3, <2>5, ClearPage
    <2>7. PICK pde2 : pde2 = Put(pde1, d, x, pp) OBVIOUS
    <2>8. pde1[d][x] = NULL BY <1>2, <2>4, <2>6
    <2>9. /\ Acct(fl1, ref1, pde2, pte1, D, Plus(T, pp), Minus(Plus(H, pp), pp))
          /\ \A p \in Page : Refs(pte1, Plus(T, pp), p) = Refs(pte1, T, p)
      BY <2>2, <2>3, <2>5, <2>6, <2>7, <2>8, AddTable
    <2>10. pgdir_walk_create(m, d, va) = Mem(fl1, ref1, pde2, pte1, b)
      BY <1>2, <2>1, <2>2, <2>4, <2>5, <2>7, WalkNew
    <2>11. pde2[d][x] = pp
      <3>1. pde1 \in [Page -> Directory] BY <2>6 DEF Acct
      <3>2. pde1[d] \in Directory BY <2>4, <3>1
      <3>3. d \in DOMAIN pde1 /\ x \in DOMAIN pde1[d] BY <2>4, <3>1, <3>2 DEF Directory
      <3> QED BY <2>7, <3>3 DEF Put
    <2>12. Mapped(pte1, Plus(T, pp)) = Mapped(pte, T)
      <3>1. \A pt \in T : pte1[pt] = pte[pt] BY <2>4, <2>6
      <3>2. ASSUME NEW e PROVE e \in Mapped(pte1, Plus(T, pp)) <=> e \in Mapped(pte, T)
        <4>1. e \in Mapped(pte1, Plus(T, pp))
                <=> e # NoPte /\ \E pt \in Plus(T, pp), t \in Ptx : pte1[pt][t] = e
          BY MappedIff
        <4>2. e \in Mapped(pte, T) <=> e # NoPte /\ \E pt \in T, t \in Ptx : pte[pt][t] = e
          BY MappedIff
        <4> QED BY <2>6, <3>1, <4>1, <4>2 DEF Plus
      <3>3. PICK A, B : A = Mapped(pte1, Plus(T, pp)) /\ B = Mapped(pte, T) OBVIOUS
      <3>4. A = B BY <3>2, <3>3
      <3> QED BY <3>3, <3>4
    <2>13. Len(fl1) >= Len(fl) - 1 BY <2>2, <2>5
    <2>14. pde2[d][x] # NULL BY <2>4, <2>11
    <2>15. Acct(fl1, ref1, pde2, pte1, D, Plus(T, pp), H) BY <2>3, <2>9
    <2>16. \A p \in Page : Refs(pte1, Plus(T, pp), p) = Refs(pte, T, p) BY <2>6, <2>9
    <2> QED BY <2>10, <2>12, <2>13, <2>14, <2>15, <2>16
  <1> QED BY <1>1, <1>2

\* The entry at va.
LEMMA Lookup ==
  ASSUME NEW fl, NEW ref, NEW pde, NEW pte, NEW b, NEW m, m = Mem(fl, ref, pde, pte, b),
         NEW d, NEW va, NEW x, x = PDX(va), NEW t, t = PTX(va)
  PROVE  /\ pde[d][x] = NULL => page_lookup(m, d, va) = NoPte
         /\ pde[d][x] # NULL => page_lookup(m, d, va) = pte[pde[d][x]][t]
  <1>1. m.pde = pde /\ m.pte = pte BY MemFields
  <1> QED BY <1>1 DEF page_lookup, pgdir_walk

\* page_remove with something mapped at va.
LEMMA RemoveFields ==
  ASSUME NEW fl, NEW ref, NEW pde, NEW pte, NEW b, NEW m, m = Mem(fl, ref, pde, pte, b),
         NEW d, NEW va, NEW x, x = PDX(va), NEW t, t = PTX(va),
         NEW e, e = page_lookup(m, d, va), e # NoPte, NEW fl1, NEW ref1,
         page_decref(m, e.pp) = Mem(fl1, ref1, pde, pte, b)
  PROVE  page_remove(m, d, va) = Mem(fl1, ref1, pde, Put(pte, pde[d][x], t, NoPte), b)
  <1>1. PICK m1 : m1 = page_decref(m, e.pp) OBVIOUS
  <1>2. m1.pde = pde /\ m1.pte = pte BY <1>1, MemFields
  <1>3. PICK pt : pt = pde[d][x] OBVIOUS
  <1>4. pgdir_walk(m1, d, va) = pt BY <1>2, <1>3 DEF pgdir_walk
  <1>5. page_remove(m, d, va) = [m1 EXCEPT !.pte[pt][t] = NoPte] BY <1>1, <1>4 DEF page_remove
  <1>6. PICK v : v = Put(pte, pt, t, NoPte) OBVIOUS
  <1>7. [m1 EXCEPT !.pte[pt][t] = NoPte] = [m1 EXCEPT !.pte = v] BY <1>2, <1>6 DEF Put
  <1>8. [m1 EXCEPT !.pte = v] = Mem(fl1, ref1, pde, v, b) BY <1>1, WritePte
  <1> QED BY <1>3, <1>5, <1>6, <1>7, <1>8

\* What page_remove does to the free list and to the entries.
Removed(fl, pde, pte, fl2, pte2, T, d, x, t) ==
    /\ \A p \in Page : Cardinality(Refs(pte2, T, p)) <= Cardinality(Refs(pte, T, p))
    /\ \A q \in T, u \in Ptx : pte2[q][u] = pte[q][u] \/ pte2[q][u] = NoPte
    /\ pde[d][x] # NULL => pte2[pde[d][x]][t] = NoPte
    /\ \A p \in Page : Refs(pte, T, p) # {} /\ Refs(pte2, T, p) = {}
                         => Some(fl2) /\ Hd(fl2) = p
    /\ Len(fl2) >= Len(fl)

\* page_remove keeps the account: it clears the entry at va and touches no other;
\* a page that loses its last mapping is the new head of the free list.
LEMMA RemoveKeeps ==
  ASSUME NEW fl, NEW ref, NEW pde, NEW pte, NEW b, NEW m, m = Mem(fl, ref, pde, pte, b),
         NEW D, NEW T, NEW H, Acct(fl, ref, pde, pte, D, T, H),
         NEW d \in D, NEW va, NEW x \in Pdx, x = PDX(va), NEW t \in Ptx, t = PTX(va)
  PROVE  \E fl2, ref2, pte2 :
           /\ page_remove(m, d, va) = Mem(fl2, ref2, pde, pte2, b)
           /\ Acct(fl2, ref2, pde, pte2, D, T, H)
           /\ Removed(fl, pde, pte, fl2, pte2, T, d, x, t)
  <1>1. PICK e : e = page_lookup(m, d, va) OBVIOUS
  <1>2. PICK pt : pt = pde[d][x] OBVIOUS
  <1>3. Len(fl) \in Nat /\ T \in SUBSET Page
    <2>1. Len(fl) \in Nat BY AcctLen
    <2>2. T \in SUBSET Page BY DEF Acct, Apart
    <2> QED BY <2>1, <2>2
  <1>4. pt # NULL => pt \in T /\ e = pte[pt][t] BY <1>1, <1>2, EntryIsTable, Lookup
  <1>5. pt = NULL => e = NoPte
    <2>1. pde[d][x] = NULL => page_lookup(m, d, va) = NoPte BY Lookup
    <2> QED BY <1>1, <1>2, <2>1
  <1>6. CASE e = NoPte
    <2>1. page_remove(m, d, va) = m BY <1>1, <1>6 DEF page_remove
    <2>2. PICK fl2, ref2, pte2 : fl2 = fl /\ ref2 = ref /\ pte2 = pte OBVIOUS
    <2>3. \A p \in Page : Cardinality(Refs(pte2, T, p)) <= Cardinality(Refs(pte, T, p))
      <3>1. \A p \in Page : Cardinality(Refs(pte, T, p)) \in Nat BY <1>3, RefsFinite
      <3> QED BY <2>2, <3>1
    <2>4. Len(fl2) >= Len(fl) BY <1>3, <2>2
    <2>5. pde[d][x] # NULL => pte2[pde[d][x]][t] = NoPte BY <1>2, <1>4, <1>6, <2>2
    <2>6. page_remove(m, d, va) = Mem(fl2, ref2, pde, pte2, b) BY <2>1, <2>2
    <2>7. \A q \in T, u \in Ptx : pte2[q][u] = pte[q][u] \/ pte2[q][u] = NoPte BY <2>2
    <2>8. \A p \in Page : Refs(pte, T, p) # {} /\ Refs(pte2, T, p) = {}
                             => Some(fl2) /\ Hd(fl2) = p
      BY <2>2
    <2>9. Acct(fl2, ref2, pde, pte2, D, T, H) BY <2>2
    <2>10. Removed(fl, pde, pte, fl2, pte2, T, d, x, t)
      BY <2>3, <2>4, <2>5, <2>7, <2>8 DEF Removed
    <2> QED BY <2>6, <2>9, <2>10
  <1>7. CASE e # NoPte
    <2>1. pt \in T /\ e = pte[pt][t] /\ pt # NULL BY <1>4, <1>5, <1>7
    <2>2. PICK pp : pp = e.pp OBVIOUS
    <2>3. pp # NULL
      <3>1. Data(pte, D, T, H) BY DEF Acct
      <3> QED BY <1>7, <2>1, <2>2, <3>1 DEF Data
    <2>4. PICK ref2 : ref2 = Dec(ref, pp) OBVIOUS
    <2>5. PICK pte2 : pte2 = Put(pte, pt, t, NoPte) OBVIOUS
    <2>6. pp = pte[pt][t].pp BY <2>1, <2>2
    <2>7. /\ pp \in Page /\ ref[pp] # 0 /\ ~Listed(fl, pp) /\ pp \notin H
          /\ ref[pp] = 1 => /\ Refs(pte2, T, pp) = {}
                            /\ Acct(fl, ref2, pde, pte2, D, T, Plus(H, pp))
          /\ ref[pp] # 1 => /\ Refs(pte2, T, pp) # {}
                            /\ Acct(fl, ref2, pde, pte2, D, T, H)
          /\ \A p \in Page : p # pp => Refs(pte2, T, p) = Refs(pte, T, p)
          /\ \A p \in Page : Cardinality(Refs(pte2, T, p)) <= Cardinality(Refs(pte, T, p))
      BY <2>1, <2>3, <2>4, <2>5, <2>6, Unmap
    <2>8. fl \in Seq(Page) /\ ref \in [Page -> 0 .. RefMod - 1] /\ NoTwice(fl)
          /\ pte \in [Page -> Table] BY DEF Acct, FreeOK
    <2>9. /\ ref[pp] = 1 => page_decref(m, pp) = Mem(Push(pp, fl), ref2, pde, pte, b)
          /\ ref[pp] # 1 => page_decref(m, pp) = Mem(fl, ref2, pde, pte, b)
      BY <2>4, <2>7, <2>8, DecrefFields
    <2>10. \A q \in T, u \in Ptx : pte2[q][u] = IF q = pt /\ u = t THEN NoPte ELSE pte[q][u]
      BY <1>3, <2>1, <2>5, <2>8, PteWrite, NoPteType
    <2>11. /\ \A q \in T, u \in Ptx : pte2[q][u] = pte[q][u] \/ pte2[q][u] = NoPte
           /\ pde[d][x] # NULL => pte2[pde[d][x]][t] = NoPte
      BY <1>2, <2>1, <2>10
    <2>12. CASE ref[pp] = 1
      <3>1. PICK fl2 : fl2 = Push(pp, fl) OBVIOUS
      <3>2. page_decref(m, e.pp) = Mem(fl2, ref2, pde, pte, b) BY <2>2, <2>9, <2>12, <3>1
      <3>3. page_remove(m, d, va) = Mem(fl2, ref2, pde, pte2, b)
        BY <1>1, <1>2, <1>7, <2>5, <3>2, RemoveFields
      <3>4. Acct(fl, ref2, pde, pte2, D, T, Plus(H, pp)) BY <2>7, <2>12
      <3>5. pp \in Plus(H, pp) /\ Minus(Plus(H, pp), pp) = H BY <2>7 DEF Plus, Minus
      <3>6. /\ Acct(fl2, ref2, pde, pte2, D, T, Minus(Plus(H, pp), pp))
            /\ Len(fl2) = Len(fl) + 1
        BY <3>1, <3>4, <3>5, GivePage
      <3>7. Some(fl2) /\ Hd(fl2) = pp BY <2>7, <2>8, <3>1, ListCons DEF Some, Hd, Push
      <3>8. \A p \in Page : Refs(pte, T, p) # {} /\ Refs(pte2, T, p) = {}
                              => Some(fl2) /\ Hd(fl2) = p
        BY <2>7, <3>7
      <3>9. Len(fl2) >= Len(fl) BY <1>3, <3>6
      <3>10. Acct(fl2, ref2, pde, pte2, D, T, H) BY <3>5, <3>6
      <3>11. Removed(fl, pde, pte, fl2, pte2, T, d, x, t)
        BY <2>7, <2>11, <3>8, <3>9 DEF Removed
      <3> QED BY <3>3, <3>10, <3>11
    <2>13. CASE ref[pp] # 1
      <3>1. page_decref(m, e.pp) = Mem(fl, ref2, pde, pte, b) BY <2>2, <2>9, <2>13
      <3>2. page_remove(m, d, va) = Mem(fl, ref2, pde, pte2, b)
        BY <1>1, <1>2, <1>7, <2>5, <3>1, RemoveFields
      <3>3. \A p \in Page : Refs(pte, T, p) # {} /\ Refs(pte2, T, p) = {}
                              => Some(fl) /\ Hd(fl) = p
        BY <2>7, <2>13
      <3>4. Len(fl) >= Len(fl) BY <1>3
      <3>5. Acct(fl, ref2, pde, pte2, D, T, H) BY <2>7, <2>13
      <3>6. Removed(fl, pde, pte, fl, pte2, T, d, x, t)
        BY <2>7, <2>11, <3>3, <3>4 DEF Removed
      <3> QED BY <3>2, <3>5, <3>6
    <2> QED BY <2>12, <2>13
  <1> QED BY <1>6, <1>7

\* Clearing entries maps nothing.
LEMMA MappedLess ==
  ASSUME NEW pte, NEW pte2, NEW T,
         \A q \in T, u \in Ptx : pte2[q][u] = pte[q][u] \/ pte2[q][u] = NoPte
  PROVE  Mapped(pte2, T) \subseteq Mapped(pte, T)
  <1> SUFFICES ASSUME NEW e \in Mapped(pte2, T) PROVE e \in Mapped(pte, T)
    OBVIOUS
  <1>1. e # NoPte /\ \E q \in T, u \in Ptx : pte2[q][u] = e BY MappedIff
  <1>2. PICK q \in T, u \in Ptx : pte2[q][u] = e BY <1>1
  <1>3. pte[q][u] = e BY <1>1, <1>2
  <1> QED BY <1>1, <1>3, MappedIff

\* Filling an entry maps what it is filled with.
LEMMA MappedMore ==
  ASSUME NEW pte \in [Page -> Table], NEW T \in SUBSET Page, NEW pt \in T, NEW t \in Ptx,
         NEW e \in Pte, NEW pte2, pte2 = Put(pte, pt, t, e)
  PROVE  Mapped(pte2, T) \subseteq Plus(Mapped(pte, T), e)
  <1> SUFFICES ASSUME NEW f \in Mapped(pte2, T), f # e PROVE f \in Mapped(pte, T)
    BY DEF Plus
  <1>1. f # NoPte /\ \E q \in T, u \in Ptx : pte2[q][u] = f BY MappedIff
  <1>2. PICK q \in T, u \in Ptx : pte2[q][u] = f BY <1>1
  <1>3. \A r \in Page, v \in Ptx : pte2[r][v] = IF r = pt /\ v = t THEN e ELSE pte[r][v]
    BY PteWrite
  <1>4. q \in Page OBVIOUS
  <1>5. pte[q][u] = f BY <1>2, <1>3, <1>4
  <1> QED BY <1>1, <1>5, MappedIff

\* What page_insert writes and returns.
Ent(pp, w) == [pp |-> pp, w |-> w]
Failed(r) == [ok |-> FALSE, m |-> r]
Done(r) == [ok |-> TRUE, m |-> r]

LEMMA EntType ==
  ASSUME NEW pp \in Page, NEW w \in BOOLEAN
  PROVE  Ent(pp, w) \in Pte /\ Ent(pp, w).pp = pp /\ Ent(pp, w).w = w /\ Ent(pp, w) # NoPte
  BY Consts DEF Ent, Pte, PageOrNull, NoPte

LEMMA DoneFields ==
  ASSUME NEW r PROVE ~Failed(r).ok /\ Failed(r).m = r /\ Done(r).ok /\ Done(r).m = r
  BY DEF Failed, Done

\* page_insert without memory for a page table.
LEMMA InsertFails ==
  ASSUME NEW m, NEW d, NEW pp, NEW va, NEW w, NEW x, x = PDX(va),
         NEW fl, NEW ref, NEW pde, NEW pte, NEW b,
         pgdir_walk_create(m, d, va) = Mem(fl, ref, pde, pte, b), pde[d][x] = NULL
  PROVE  page_insert(m, d, pp, va, w) = Failed(Mem(fl, ref, pde, pte, b))
  <1>1. PICK r : r = pgdir_walk_create(m, d, va) OBVIOUS
  <1>2. r.pde = pde BY <1>1, MemFields
  <1>3. pgdir_walk(r, d, va) = NULL BY <1>2 DEF pgdir_walk
  <1> QED BY <1>1, <1>3 DEF page_insert, Failed

\* The list without pp if that is its head.
Without(fl, pp) == IF Some(fl) /\ Hd(fl) = pp THEN Tl(fl) ELSE fl

\* page_insert with a page table: fl3 is the free list without the page that
\* page_remove has just put there, if it is the one to map.
LEMMA InsertFields ==
  ASSUME NEW m, NEW d, NEW pp, NEW va, NEW w, NEW x, x = PDX(va), NEW t, t = PTX(va),
         NEW fl1, NEW ref1, NEW pde, NEW pte1, NEW b, NEW walked,
         pgdir_walk_create(m, d, va) = walked, walked = Mem(fl1, ref1, pde, pte1, b),
         NEW pt, pt = pde[d][x], pt # NULL,
         NEW fl2, NEW ref2, NEW pte2,
         page_remove(walked, d, va) = Mem(fl2, ref2, pde, pte2, b),
         NEW fl3, fl3 = Without(fl2, pp),
         ref2[pp] \in Nat, ref2[pp] + 1 < RefMod
  PROVE  page_insert(m, d, pp, va, w)
           = Done(Mem(fl3, Inc(ref2, pp), pde, Put(pte2, pt, t, Ent(pp, w)), b))
  <1>1. walked.pde = pde BY MemFields
  <1>2. pgdir_walk(walked, d, va) = pt BY <1>1 DEF pgdir_walk
  <1>3. PICK removed : removed = page_remove(walked, d, va) OBVIOUS
  <1>4. removed.page_free_list = fl2 BY <1>3, MemFields
  <1>5. PICK m1 : m1 = IF removed.page_free_list # << >> /\ Head(removed.page_free_list) = pp
                       THEN page_alloc(removed, FALSE).m ELSE removed
    OBVIOUS
  <1>6. m1 = Mem(fl3, ref2, pde, pte2, b)
    <2>1. CASE Some(fl2) /\ Hd(fl2) = pp
      <3>1. m1 = Alloc(removed).m BY <1>4, <1>5, <2>1 DEF Some, Hd, Alloc
      <3>2. PICK a : a = Mem(fl3, ref2, pde, pte2, b) OBVIOUS
      <3>3. Alloc(removed) = Pair(pp, Mem(Tl(fl2), ref2, pde, pte2, b))
        BY <1>3, <2>1, AllocFields
      <3>4. Alloc(removed) = Pair(pp, a) BY <2>1, <3>2, <3>3 DEF Without
      <3> QED BY <3>1, <3>2, <3>4, PairFields
    <2>2. CASE ~(Some(fl2) /\ Hd(fl2) = pp)
      <3>1. m1 = removed BY <1>4, <1>5, <2>2 DEF Some, Hd
      <3> QED BY <1>3, <2>2, <3>1 DEF Without
    <2> QED BY <2>1, <2>2
  <1>7. PICK i : i = incref(m1, pp) OBVIOUS
  <1>8. PICK ref3 : ref3 = Inc(ref2, pp) OBVIOUS
  <1>9. i = Mem(fl3, ref3, pde, pte2, b) BY <1>6, <1>7, <1>8, IncrefFields
  <1>10. i.pte = pte2 BY <1>9, MemFields
  <1>11. PICK e : e = Ent(pp, w) OBVIOUS
  <1>12. page_insert(m, d, pp, va, w) = Done([i EXCEPT !.pte[pt][t] = e])
    BY <1>2, <1>3, <1>5, <1>7, <1>11 DEF page_insert, Done, Ent
  <1>13. PICK v : v = Put(pte2, pt, t, e) OBVIOUS
  <1>14. [i EXCEPT !.pte[pt][t] = e] = [i EXCEPT !.pte = v] BY <1>10, <1>13 DEF Put
  <1>15. [i EXCEPT !.pte = v] = Mem(fl3, ref3, pde, v, b) BY <1>9, WritePte
  <1> QED BY <1>8, <1>11, <1>12, <1>13, <1>14, <1>15

\* page_insert has left the memory r: the page is mapped, or it stays in hand and
\* there was no memory.  A page that was in hand costs at most a page table.
Inserted(i, r, fl, fl4, H, H4, pp) ==
    /\ \/ i = Done(r) /\ H4 = Minus(H, pp)
       \/ i = Failed(r) /\ H4 = H /\ ~Some(fl)
    /\ pp \in H => Len(fl4) >= Len(fl) - 1

\* Nothing is mapped that was not, but for the entry e.
Gains(pte, T, pte4, T4, e) == Mapped(pte4, T4) \subseteq Plus(Mapped(pte, T), e)

\* page_insert of a page in hand, or of one that is mapped already, keeps the
\* account: with memory for the page table the page is mapped, and it fails
\* only without.  The page to map is taken back from the free list if
\* page_remove has put it there.
LEMMA InsertKeeps ==
  ASSUME NEW fl, NEW ref, NEW pde, NEW pte, NEW b, NEW m, m = Mem(fl, ref, pde, pte, b),
         NEW D, NEW T, NEW H, Acct(fl, ref, pde, pte, D, T, H),
         NEW d \in D, NEW va \in Va, NEW pp \in Page, NEW w \in BOOLEAN,
         pp \in H \/ Refs(pte, T, pp) # {}, Cardinality(Refs(pte, T, pp)) + 1 < RefMod,
         NEW i, i = page_insert(m, d, pp, va, w)
  PROVE  \E fl4, ref4, pde4, pte4, T4, H4 :
           /\ Acct(fl4, ref4, pde4, pte4, D, T4, H4)
           /\ Inserted(i, Mem(fl4, ref4, pde4, pte4, b), fl, fl4, H, H4, pp)
           /\ Gains(pte, T, pte4, T4, Ent(pp, w))
  <1>1. PICK x \in Pdx, t \in Ptx : x = PDX(va) /\ t = PTX(va) BY VaParts
  <1>2. PICK fl1, ref1, pde1, pte1, T1 :
          /\ pgdir_walk_create(m, d, va) = Mem(fl1, ref1, pde1, pte1, b)
          /\ Acct(fl1, ref1, pde1, pte1, D, T1, H)
          /\ Mapped(pte1, T1) = Mapped(pte, T)
          /\ \A p \in Page : Refs(pte1, T1, p) = Refs(pte, T, p)
          /\ Some(fl) => pde1[d][x] # NULL
          /\ Len(fl1) >= Len(fl) - 1
    BY <1>1, WalkCreate
  <1>3. CASE pde1[d][x] = NULL
    <2>1. pgdir_walk_create(m, d, va) = Mem(fl1, ref1, pde1, pte1, b) BY <1>2
    <2>2. page_insert(m, d, pp, va, w) = Failed(Mem(fl1, ref1, pde1, pte1, b))
      BY <1>1, <1>3, <2>1, InsertFails
    <2>3. Inserted(i, Mem(fl1, ref1, pde1, pte1, b), fl, fl1, H, H, pp)
      BY <1>2, <1>3, <2>2 DEF Inserted
    <2>4. Gains(pte, T, pte1, T1, Ent(pp, w)) BY <1>2 DEF Gains, Plus
    <2>5. Acct(fl1, ref1, pde1, pte1, D, T1, H) BY <1>2
    <2> QED BY <2>3, <2>4, <2>5
  <1>4. CASE pde1[d][x] # NULL
    <2>1. PICK walked : walked = Mem(fl1, ref1, pde1, pte1, b) OBVIOUS
    <2>2. PICK pt : pt = pde1[d][x] OBVIOUS
    <2>0. Acct(fl1, ref1, pde1, pte1, D, T1, H) /\ pgdir_walk_create(m, d, va) = walked
      BY <1>2, <2>1
    <2>3. PICK fl2, ref2, pte2 :
            /\ page_remove(walked, d, va) = Mem(fl2, ref2, pde1, pte2, b)
            /\ Acct(fl2, ref2, pde1, pte2, D, T1, H)
            /\ Removed(fl1, pde1, pte1, fl2, pte2, T1, d, x, t)
      BY <1>1, <2>0, <2>1, RemoveKeeps
    <2>4. pt \in T1 /\ pt # NULL /\ pte2[pt][t] = NoPte
      <3>1. pte2[pt][t] = NoPte BY <1>4, <2>2, <2>3 DEF Removed
      <3> QED BY <1>4, <2>0, <2>2, <3>1, EntryIsTable
    <2>5. PICK e : e = Ent(pp, w) OBVIOUS
    <2>6. e \in Pte /\ e.pp = pp BY <2>5, EntType
    <2>7. PICK ref3, pte3 : ref3 = Inc(ref2, pp) /\ pte3 = Put(pte2, pt, t, e) OBVIOUS
    <2>8. T1 \in SUBSET Page /\ pte2 \in [Page -> Table] BY <2>3 DEF Acct, Apart
    <2>9. Cardinality(Refs(pte2, T1, pp)) + 1 < RefMod
      <3>1. /\ Cardinality(Refs(pte2, T1, pp)) \in Nat /\ Cardinality(Refs(pte1, T1, pp)) \in Nat
        BY <2>8, RefsFinite
      <3>2. Cardinality(Refs(pte1, T1, pp)) = Cardinality(Refs(pte, T, pp)) BY <1>2
      <3>3. Cardinality(Refs(pte2, T1, pp)) <= Cardinality(Refs(pte1, T1, pp)) BY <2>3 DEF Removed
      <3> QED BY <3>1, <3>2, <3>3, Consts
    <2>10. Gains(pte, T, pte3, T1, Ent(pp, w))
      <3>1. Mapped(pte2, T1) \subseteq Mapped(pte1, T1) 
        <4>1. \A q \in T1, u \in Ptx : pte2[q][u] = pte1[q][u] \/ pte2[q][u] = NoPte BY <2>3 DEF Removed
        <4> QED BY <4>1, MappedLess
      <3>2. Mapped(pte3, T1) \subseteq Plus(Mapped(pte2, T1), e)
        BY <2>4, <2>6, <2>7, <2>8, MappedMore
      <3> QED BY <1>2, <2>5, <3>1, <3>2 DEF Gains, Plus
    <2>11. page_remove(walked, d, va) = Mem(fl2, ref2, pde1, pte2, b) BY <2>3
    <2>12. CASE Some(fl2) /\ Hd(fl2) = pp
      <3>1. PICK fl3 : fl3 = Tl(fl2) OBVIOUS
      <3>2. pp \notin D \cup T1 \cup H /\ Acct(fl3, ref2, pde1, pte2, D, T1, Plus(H, pp))
        BY <2>3, <2>12, <3>1, TakePage
      <3>3. pp \in Plus(H, pp) /\ Minus(Plus(H, pp), pp) = Minus(H, pp) BY DEF Plus, Minus
      <3>4. /\ ref2[pp] = Cardinality(Refs(pte2, T1, pp)) /\ ref2[pp] \in Nat
            /\ Acct(fl3, ref3, pde1, pte3, D, T1, Minus(Plus(H, pp), pp))
        BY <2>4, <2>6, <2>7, <2>9, <3>2, <3>3, MapPage
      <3>5. page_insert(m, d, pp, va, w)
              = Done(Mem(fl3, Inc(ref2, pp), pde1, Put(pte2, pt, t, Ent(pp, w)), b))
        <4>1. ref2[pp] \in Nat /\ ref2[pp] + 1 < RefMod BY <2>9, <3>4
        <4>2. fl3 = Without(fl2, pp) BY <2>12, <3>1 DEF Without
        <4> QED BY <1>1, <1>4, <2>0, <2>1, <2>2, <2>11, <4>1, <4>2, InsertFields
      <3>6. i = Done(Mem(fl3, ref3, pde1, pte3, b)) BY <2>5, <2>7, <3>5
      <3>7. Acct(fl3, ref3, pde1, pte3, D, T1, Minus(H, pp)) BY <3>3, <3>4
      <3>8. Inserted(i, Mem(fl3, ref3, pde1, pte3, b), fl, fl3, H, Minus(H, pp), pp)
        BY <3>2, <3>6 DEF Inserted
      <3> QED BY <2>10, <3>7, <3>8
    <2>13. CASE ~(Some(fl2) /\ Hd(fl2) = pp)
      <3>1. pp \in H \/ Refs(pte2, T1, pp) # {}
        <4>1. Refs(pte1, T1, pp) = Refs(pte, T, pp) BY <1>2
        <4> QED BY <2>3, <2>13, <4>1 DEF Removed
      <3>2. /\ ref2[pp] = Cardinality(Refs(pte2, T1, pp)) /\ ref2[pp] \in Nat
            /\ Acct(fl2, ref3, pde1, pte3, D, T1, Minus(H, pp))
        BY <2>3, <2>4, <2>6, <2>7, <2>9, <3>1, MapPage
      <3>3. page_insert(m, d, pp, va, w)
              = Done(Mem(fl2, Inc(ref2, pp), pde1, Put(pte2, pt, t, Ent(pp, w)), b))
        <4>1. ref2[pp] \in Nat /\ ref2[pp] + 1 < RefMod BY <2>9, <3>2
        <4>2. fl2 = Without(fl2, pp) BY <2>13 DEF Without
        <4> QED BY <1>1, <1>4, <2>0, <2>1, <2>2, <2>11, <4>1, <4>2, InsertFields
      <3>4. i = Done(Mem(fl2, ref3, pde1, pte3, b)) BY <2>5, <2>7, <3>3
      <3>5. Len(fl2) >= Len(fl) - 1
        <4>1. Len(fl) \in Nat /\ Len(fl1) \in Nat /\ Len(fl2) \in Nat BY <2>0, <2>3, AcctLen
        <4>2. Len(fl2) >= Len(fl1) BY <2>3 DEF Removed
        <4> QED BY <1>2, <4>1, <4>2
      <3>6. Inserted(i, Mem(fl2, ref3, pde1, pte3, b), fl, fl2, H, Minus(H, pp), pp)
        BY <3>4, <3>5 DEF Inserted
      <3> QED BY <2>10, <3>2, <3>6
    <2> QED BY <2>12, <2>13
  <1> QED BY <1>3, <1>4

-----------------------------------------------------------------------------
(***************************************************************************)
(* The same for whole memories                                             *)
(***************************************************************************)

FreeList(m) == m.page_free_list
PteOf(m) == m.pte
PdeOf(m) == m.pde

LEMMA MemParts ==
  ASSUME NEW m, NEW D, NEW T, NEW H, MemOK(m, D, T, H)
  PROVE  \E fl, ref, pde, pte, b :
           /\ m = Mem(fl, ref, pde, pte, b) /\ Calm(b)
           /\ Acct(fl, ref, pde, pte, D, T, H)
           /\ fl = FreeList(m) /\ pde = PdeOf(m) /\ pte = PteOf(m)
  <1>1. PICK fl, ref, pde, pte, b :
          /\ fl = m.page_free_list /\ ref = m.pp_ref /\ pde = m.pde /\ pte = m.pte /\ b = m.panic
    OBVIOUS
  <1>2. m = Mem(fl, ref, pde, pte, b) /\ Calm(b) /\ Acct(fl, ref, pde, pte, D, T, H)
    BY <1>1 DEF MemOK
  <1>3. fl = FreeList(m) /\ pde = PdeOf(m) /\ pte = PteOf(m)
    BY <1>1 DEF FreeList, PdeOf, PteOf
  <1> QED BY <1>2, <1>3

LEMMA MemIntro ==
  ASSUME NEW fl, NEW ref, NEW pde, NEW pte, NEW b, NEW m, m = Mem(fl, ref, pde, pte, b), Calm(b),
         NEW D, NEW T, NEW H, Acct(fl, ref, pde, pte, D, T, H)
  PROVE  MemOK(m, D, T, H) /\ FreeList(m) = fl /\ PdeOf(m) = pde /\ PteOf(m) = pte
  <1>1. /\ m.page_free_list = fl /\ m.pp_ref = ref /\ m.pde = pde /\ m.pte = pte /\ m.panic = b
    BY MemFields
  <1> QED BY <1>1 DEF MemOK, FreeList, PdeOf, PteOf

\* page_alloc without clearing.
LEMMA AllocKeeps ==
  ASSUME NEW m, NEW D, NEW T, NEW H, MemOK(m, D, T, H), Some(FreeList(m)), NEW a, a = Alloc(m)
  PROVE  \E pp, r : /\ a = Pair(pp, r) /\ pp \in Page /\ pp \notin D \cup T \cup H
                    /\ MemOK(r, D, T, Plus(H, pp)) /\ PteOf(r) = PteOf(m)
                    /\ Cardinality(Refs(PteOf(m), T, pp)) = 0
                    /\ Len(FreeList(r)) = Len(FreeList(m)) - 1
  <1>1. PICK fl, ref, pde, pte, b :
           /\ m = Mem(fl, ref, pde, pte, b) /\ Calm(b)
           /\ Acct(fl, ref, pde, pte, D, T, H)
           /\ fl = FreeList(m) /\ pde = PdeOf(m) /\ pte = PteOf(m)
    BY MemParts
  <1>0. m = Mem(fl, ref, pde, pte, b) /\ Calm(b) /\ Acct(fl, ref, pde, pte, D, T, H) /\ Some(fl)
    BY <1>1
  <1>2. PICK pp, fl2 : pp = Hd(fl) /\ fl2 = Tl(fl) OBVIOUS
  <1>3. PICK r : r = Mem(fl2, ref, pde, pte, b) OBVIOUS
  <1>4. a = Pair(pp, r) 
    <2>1. Alloc(m) = Pair(pp, Mem(Tl(fl), ref, pde, pte, b)) BY <1>0, <1>2, AllocFields
    <2> QED BY <1>2, <1>3, <2>1
  <1>5. /\ pp \in Page /\ pp \notin D \cup T \cup H /\ Refs(pte, T, pp) = {}
        /\ Len(fl2) = Len(fl) - 1 /\ Acct(fl2, ref, pde, pte, D, T, Plus(H, pp))
    <2>1. /\ pp \in Page /\ pp \notin D \cup T \cup H /\ Refs(pte, T, pp) = {}
          /\ Len(Tl(fl)) = Len(fl) - 1 /\ Acct(Tl(fl), ref, pde, pte, D, T, Plus(H, pp))
      BY <1>0, <1>2, TakePage
    <2> QED BY <1>2, <2>1
  <1>6. MemOK(r, D, T, Plus(H, pp)) /\ FreeList(r) = fl2 /\ PteOf(r) = pte
    BY <1>0, <1>3, <1>5, MemIntro
  <1>7. Cardinality(Refs(PteOf(m), T, pp)) = 0 BY <1>1, <1>5, FS_EmptySet
  <1>8. PteOf(r) = PteOf(m) /\ Len(FreeList(r)) = Len(FreeList(m)) - 1 BY <1>1, <1>5, <1>6
  <1> QED BY <1>4, <1>5, <1>6, <1>7, <1>8

\* page_free of a page in hand.
LEMMA FreeKeeps ==
  ASSUME NEW m, NEW D, NEW T, NEW H, MemOK(m, D, T, H), NEW pp \in H, NEW r, r = page_free(m, pp)
  PROVE  MemOK(r, D, T, Minus(H, pp)) /\ PteOf(r) = PteOf(m)
  <1>1. PICK fl, ref, pde, pte, b :
           /\ m = Mem(fl, ref, pde, pte, b) /\ Calm(b)
           /\ Acct(fl, ref, pde, pte, D, T, H)
           /\ fl = FreeList(m) /\ pde = PdeOf(m) /\ pte = PteOf(m)
    BY MemParts
  <1>0. m = Mem(fl, ref, pde, pte, b) /\ Calm(b) /\ Acct(fl, ref, pde, pte, D, T, H)
    BY <1>1
  <1>2. PICK fl2 : fl2 = Push(pp, fl) OBVIOUS
  <1>3. /\ pp \in Page /\ ref[pp] = 0 /\ ~Listed(fl, pp)
        /\ Acct(fl2, ref, pde, pte, D, T, Minus(H, pp))
    BY <1>0, <1>2, GivePage
  <1>4. fl \in Seq(Page) BY <1>0 DEF Acct
  <1>5. r = Mem(fl2, ref, pde, pte, b) 
    <2>1. page_free(m, pp) = Mem(Push(pp, fl), ref, pde, pte, b)
      BY <1>0, <1>3, <1>4, FreeFields
    <2> QED BY <1>2, <2>1
  <1> QED BY <1>1, <1>3, <1>5, MemIntro

\* page_insert.
LEMMA InsertOK ==
  ASSUME NEW m, NEW D, NEW T, NEW H, MemOK(m, D, T, H),
         NEW d \in D, NEW va \in Va, NEW pp \in Page, NEW w \in BOOLEAN,
         pp \in H \/ Refs(PteOf(m), T, pp) # {}, Cardinality(Refs(PteOf(m), T, pp)) + 1 < RefMod,
         NEW i, i = page_insert(m, d, pp, va, w)
  PROVE  \E r, T4, H4 :
           /\ MemOK(r, D, T4, H4)
           /\ Inserted(i, r, FreeList(m), FreeList(r), H, H4, pp)
           /\ Gains(PteOf(m), T, PteOf(r), T4, Ent(pp, w))
  <1>1. PICK fl, ref, pde, pte, b :
           /\ m = Mem(fl, ref, pde, pte, b) /\ Calm(b)
           /\ Acct(fl, ref, pde, pte, D, T, H)
           /\ fl = FreeList(m) /\ pde = PdeOf(m) /\ pte = PteOf(m)
    BY MemParts
  <1>2. /\ pp \in H \/ Refs(pte, T, pp) # {}
        /\ Cardinality(Refs(pte, T, pp)) + 1 < RefMod
    BY <1>1
  <1>3. m = Mem(fl, ref, pde, pte, b) /\ Acct(fl, ref, pde, pte, D, T, H) BY <1>1
  <1>4. PICK fl4, ref4, pde4, pte4, T4, H4 :
           /\ Acct(fl4, ref4, pde4, pte4, D, T4, H4)
           /\ Inserted(i, Mem(fl4, ref4, pde4, pte4, b), fl, fl4, H, H4, pp)
           /\ Gains(pte, T, pte4, T4, Ent(pp, w))
    BY <1>2, <1>3, InsertKeeps
  <1>5. PICK r : r = Mem(fl4, ref4, pde4, pte4, b) OBVIOUS
  <1>6. MemOK(r, D, T4, H4) /\ FreeList(r) = fl4 /\ PteOf(r) = pte4
    BY <1>1, <1>4, <1>5, MemIntro
  <1>7. Inserted(i, r, FreeList(m), FreeList(r), H, H4, pp) BY <1>1, <1>4, <1>5, <1>6
  <1>8. Gains(PteOf(m), T, PteOf(r), T4, Ent(pp, w)) BY <1>1, <1>4, <1>6
  <1> QED BY <1>6, <1>7, <1>8

\* Nothing is mapped that was not.
Fewer(pte, T, pte2, T2) == Mapped(pte2, T2) \subseteq Mapped(pte, T)

\* Without memory page_alloc returns NULL and changes nothing.
LEMMA AllocNone ==
  ASSUME NEW m, ~Some(FreeList(m))
  PROVE  Alloc(m) = Pair(NULL, m) /\ AllocZero(m) = Pair(NULL, m)
  BY DEF Some, FreeList, Alloc, AllocZero, Pair, page_alloc

\* env_setup_vm: the new directory is a page that was free.
LEMMA SetupKeeps ==
  ASSUME NEW m, NEW D, NEW T, NEW H, MemOK(m, D, T, H), Some(FreeList(m)),
         NEW s, s = env_setup_vm(m)
  PROVE  \E d, r : /\ s = Pair(d, r) /\ d \in Page /\ d \notin D
                   /\ MemOK(r, Plus(D, d), T, H)
                   /\ Fewer(PteOf(m), T, PteOf(r), T)
                   /\ Len(FreeList(r)) = Len(FreeList(m)) - 1
  <1>1. PICK fl, ref, pde, pte, b :
           /\ m = Mem(fl, ref, pde, pte, b) /\ Calm(b)
           /\ Acct(fl, ref, pde, pte, D, T, H)
           /\ fl = FreeList(m) /\ pde = PdeOf(m) /\ pte = PteOf(m)
    BY MemParts
  <1>2. m = Mem(fl, ref, pde, pte, b) /\ Calm(b) /\ Acct(fl, ref, pde, pte, D, T, H) /\ Some(fl)
    BY <1>1
  <1>3. PICK d : d = Hd(fl) OBVIOUS
  <1>4. /\ d \in Page /\ d \notin D \cup T \cup H /\ Refs(pte, T, d) = {} /\ ref[d] = 0
        /\ Len(Tl(fl)) = Len(fl) - 1 /\ Acct(Tl(fl), ref, pde, pte, D, T, Plus(H, d))
    BY <1>2, <1>3, TakePage
  <1>5. PICK fl1, ref1, pde1, pte1 :
          /\ fl1 = Tl(fl) /\ ref1 = Inc(ref, d)
          /\ pde1 = Upd(pde, d, ClearPde) /\ pte1 = Upd(pte, d, ClearPte)
    OBVIOUS
  <1>6. d \in Plus(H, d) /\ Minus(Plus(H, d), d) = H BY <1>4 DEF Plus, Minus
  <1>7. Acct(fl1, ref, pde, pte, D, T, Plus(H, d)) BY <1>4, <1>5
  <1>8. /\ Acct(fl1, ref, pde1, pte1, D, T, Plus(H, d))
        /\ \A y \in Pdx : pde1[d][y] = NULL
        /\ \A q \in Page : q # d => pde1[q] = pde[q] /\ pte1[q] = pte[q]
    BY <1>5, <1>6, <1>7, ClearPage
  <1>9. Acct(fl1, ref1, pde1, pte1, Plus(D, d), T, Minus(Plus(H, d), d))
    BY <1>4, <1>5, <1>6, <1>8, AddDirectory
  <1>10. Acct(fl1, ref1, pde1, pte1, Plus(D, d), T, H) BY <1>6, <1>9
  <1>11. PICK r1, r : r1 = Mem(fl1, ref, pde1, pte1, b) /\ r = Mem(fl1, ref1, pde1, pte1, b)
    OBVIOUS
  <1>12. s = Pair(d, r)
    <2>1. AllocZero(m)
            = Pair(d, Mem(Tl(fl), ref, Upd(pde, d, ClearPde), Upd(pte, d, ClearPte), b))
      BY <1>2, <1>3, AllocFields
    <2>2. AllocZero(m) = Pair(d, r1) BY <1>5, <1>11, <2>1
    <2>3. AllocZero(m).pp = d /\ AllocZero(m).m = r1 BY <2>2, PairFields
    <2>4. ref[d] \in Nat /\ ref[d] + 1 < RefMod BY <1>4, Consts
    <2>5. incref(r1, d) = Mem(fl1, Inc(ref, d), pde1, pte1, b) BY <1>11, <2>4, IncrefFields
    <2>6. incref(r1, d) = r BY <1>5, <1>11, <2>5
    <2>7. d # NULL BY <1>4, Consts
    <2> QED BY <2>3, <2>6, <2>7 DEF AllocZero, Pair, env_setup_vm
  <1>13. MemOK(r, Plus(D, d), T, H) /\ FreeList(r) = fl1 /\ PteOf(r) = pte1
    BY <1>2, <1>10, <1>11, MemIntro
  <1>14. Fewer(pte, T, pte1, T)
    <2>1. T \subseteq Page BY <1>2 DEF Acct, Apart
    <2>2. \A q \in T, u \in Ptx : pte1[q][u] = pte[q][u] \/ pte1[q][u] = NoPte BY <1>4, <1>8, <2>1
    <2>3. Mapped(pte1, T) \subseteq Mapped(pte, T) BY <2>2, MappedLess
    <2> QED BY <2>3 DEF Fewer
  <1>15. Fewer(PteOf(m), T, PteOf(r), T) BY <1>1, <1>13, <1>14
  <1>16. Len(FreeList(r)) = Len(FreeList(m)) - 1 BY <1>1, <1>4, <1>5, <1>13
  <1>17. d \notin D BY <1>4
  <1> QED BY <1>4, <1>12, <1>13, <1>15, <1>16, <1>17

\* The entries of the tables T are as they were or empty.
Cleared(pte, pte2, T) == \A q \in T, u \in Ptx : pte2[q][u] = pte[q][u] \/ pte2[q][u] = NoPte

\* The entry at <<x, t>> of the space of d is empty.
EmptyAt(pde, pte, d, x, t) == pde[d][x] # NULL => pte[pde[d][x]][t] = NoPte

\* page_remove.
LEMMA RemoveOK ==
  ASSUME NEW m, NEW D, NEW T, NEW H, MemOK(m, D, T, H),
         NEW d \in D, NEW va, NEW x \in Pdx, x = PDX(va), NEW t \in Ptx, t = PTX(va),
         NEW r, r = page_remove(m, d, va)
  PROVE  /\ MemOK(r, D, T, H) /\ PdeOf(r) = PdeOf(m)
         /\ Cleared(PteOf(m), PteOf(r), T)
         /\ EmptyAt(PdeOf(r), PteOf(r), d, x, t)
  <1>1. PICK fl, ref, pde, pte, b :
           /\ m = Mem(fl, ref, pde, pte, b) /\ Calm(b)
           /\ Acct(fl, ref, pde, pte, D, T, H)
           /\ fl = FreeList(m) /\ pde = PdeOf(m) /\ pte = PteOf(m)
    BY MemParts
  <1>2. m = Mem(fl, ref, pde, pte, b) /\ Calm(b) /\ Acct(fl, ref, pde, pte, D, T, H)
    BY <1>1
  <1>3. PICK fl2, ref2, pte2 :
          /\ page_remove(m, d, va) = Mem(fl2, ref2, pde, pte2, b)
          /\ Acct(fl2, ref2, pde, pte2, D, T, H)
          /\ Removed(fl, pde, pte, fl2, pte2, T, d, x, t)
    BY <1>2, RemoveKeeps
  <1>4. r = Mem(fl2, ref2, pde, pte2, b) /\ Acct(fl2, ref2, pde, pte2, D, T, H) BY <1>3
  <1>5. MemOK(r, D, T, H) /\ PdeOf(r) = pde /\ PteOf(r) = pte2 BY <1>2, <1>4, MemIntro
  <1>6. Cleared(pte, pte2, T) /\ EmptyAt(pde, pte2, d, x, t)
    BY <1>3 DEF Removed, Cleared, EmptyAt
  <1> QED BY <1>1, <1>5, <1>6

-----------------------------------------------------------------------------
(***************************************************************************)
(* The loops of env_free                                                   *)
(***************************************************************************)

\* Induction over the natural numbers, for sets.
NatLess == {p \in Nat \X Nat : p[1] < p[2]}

LEMMA NatSetMin ==
  ASSUME NEW T \in SUBSET Nat, T # {}
  PROVE  \E n \in T : \A k \in T : n <= k
  <1>1. IsWellFoundedOn(NatLess, Nat)
    <2>1. OpToRel(<, Nat) = NatLess BY Zenon DEF OpToRel, NatLess
    <2> QED BY <2>1, NatLessThanWellFounded, Zenon
  <1>2. PICK n \in T : \A k \in T : ~(<<k, n>> \in NatLess) BY <1>1, WFMin
  <1>3. ASSUME NEW k \in T PROVE n <= k
    <2>1. ~(<<k, n>> \in NatLess) /\ k \in Nat /\ n \in Nat BY <1>2
    <2>2. ~(k < n) BY <2>1 DEF NatLess
    <2> QED BY <2>1, <2>2
  <1> QED BY <1>3

LEMMA NatSetInduction ==
  ASSUME NEW S, 0 \in S, \A n \in Nat : n \in S => n + 1 \in S
  PROVE  Nat \subseteq S
  <1> SUFFICES ASSUME ~(Nat \subseteq S) PROVE FALSE OBVIOUS
  <1>1. PICK T : T = Nat \ S OBVIOUS
  <1>2. PICK n \in T : \A k \in T : n <= k BY <1>1, NatSetMin
  <1>3. n \in Nat /\ n \notin S /\ n # 0 BY <1>1, <1>2
  <1>4. n - 1 \in Nat /\ ~(n <= n - 1) BY <1>3
  <1>5. n - 1 \in S BY <1>1, <1>2, <1>4
  <1>6. (n - 1) + 1 \in S BY <1>4, <1>5
  <1> QED BY <1>3, <1>6

\* One turn of a loop: of the inner one (k = 0) over the entries of table x, of
\* the outer one over the directory.
Turn(k, a, d, x, t) == IF k = 0 THEN page_remove(a, d, <<x, t>>) ELSE FreePageTable(a, d, t)

\* The memories after 0, 1 ... n turns.
Turns(f, k, n, m, d, x) ==
    f = [t \in 0 .. n |-> IF t = 0 THEN m ELSE Turn(k, f[t - 1], d, x, t)]

LEMMA TurnsExist ==
  ASSUME NEW k, NEW m, NEW d, NEW x, NEW n \in Nat
  PROVE  \E f : Turns(f, k, n, m, d, x)
  <1>1. PICK S : S = {i \in Nat : \E f : Turns(f, k, i, m, d, x)} OBVIOUS
  <1>2. 0 \in S
    <2>1. PICK f : f = [t \in 0 .. 0 |-> m] OBVIOUS
    <2>2. \A t \in 0 .. 0 : t = 0 OBVIOUS
    <2>3. Turns(f, k, 0, m, d, x) BY <2>1, <2>2 DEF Turns
    <2> QED BY <1>1, <2>3
  <1>3. ASSUME NEW i \in Nat, i \in S PROVE i + 1 \in S
    <2>1. PICK f : Turns(f, k, i, m, d, x) BY <1>1, <1>3
    <2>2. PICK last : last = Turn(k, f[i], d, x, i + 1) OBVIOUS
    <2>3. PICK g : g = [t \in 0 .. (i + 1) |-> IF t = i + 1 THEN last ELSE f[t]] OBVIOUS
    <2>4. /\ f[0] = m
          /\ \A t \in 0 .. i : t # 0 => f[t] = Turn(k, f[t - 1], d, x, t)
      BY <2>1 DEF Turns
    <2>5. \A t \in 0 .. (i + 1) : t # 0 => t - 1 \in 0 .. (i + 1) /\ t - 1 # i + 1 OBVIOUS
    <2>6. \A t \in 0 .. (i + 1) : t # 0 => g[t - 1] = f[t - 1] BY <2>3, <2>5
    <2>7. ASSUME NEW t \in 0 .. (i + 1)
          PROVE  g[t] = IF t = 0 THEN m ELSE Turn(k, g[t - 1], d, x, t)
      <3>1. CASE t = 0 BY <2>3, <2>4, <3>1
      <3>2. CASE t = i + 1
        <4>1. t # 0 /\ t - 1 = i BY <3>2
        <4>2. g[t - 1] = f[i] BY <2>6, <4>1
        <4> QED BY <2>2, <2>3, <3>2, <4>1, <4>2
      <3>3. CASE t # 0 /\ t # i + 1
        <4>1. t \in 0 .. i BY <3>3
        <4>2. g[t] = f[t] BY <2>3, <3>3
        <4> QED BY <2>4, <2>6, <3>3, <4>1, <4>2
      <3> QED BY <3>1, <3>2, <3>3
    <2>8. Turns(g, k, i + 1, m, d, x)
      <3>1. PICK h : h = [t \in 0 .. (i + 1) |-> IF t = 0 THEN m ELSE Turn(k, g[t - 1], d, x, t)]
        OBVIOUS
      <3>2. g = h BY <2>3, <2>7, <3>1
      <3> QED BY <3>1, <3>2 DEF Turns
    <2> QED BY <1>1, <2>8
  <1>4. Nat \subseteq S BY <1>2, <1>3, NatSetInduction
  <1> QED BY <1>1, <1>4

LEMMA TurnsAt ==
  ASSUME NEW k, NEW m, NEW d, NEW x, NEW n \in Nat, NEW f, Turns(f, k, n, m, d, x)
  PROVE  f[0] = m /\ \A t \in 1 .. n : f[t] = Turn(k, f[t - 1], d, x, t)
  BY DEF Turns

\* The two loops are their turns.
LEMMA UnmappedTurns ==
  ASSUME NEW m, NEW d, NEW x
  PROVE  \E f : Turns(f, 0, NPTE, m, d, x) /\ Unmapped(m, d, x) = f[NPTE]
  <1>1. \E f : Turns(f, 0, NPTE, m, d, x) BY Consts, TurnsExist
  <1>2. PICK f : f = CHOOSE g : Turns(g, 0, NPTE, m, d, x) OBVIOUS
  <1>3. Turns(f, 0, NPTE, m, d, x) BY <1>1, <1>2, Zenon
  <1>4. \A a, t : Turn(0, a, d, x, t) = page_remove(a, d, <<x, t>>) BY DEF Turn
  <1>5. Unmapped(m, d, x)
          = (CHOOSE g : g = [t \in 0 .. NPTE |-> IF t = 0 THEN m ELSE page_remove(g[t - 1], d, <<x, t>>)])[NPTE]
    BY DEF Unmapped
  <1>6. ASSUME NEW g
        PROVE  Turns(g, 0, NPTE, m, d, x)
                 <=> g = [t \in 0 .. NPTE |-> IF t = 0 THEN m ELSE page_remove(g[t - 1], d, <<x, t>>)]
    BY <1>4 DEF Turns
  <1>7. Unmapped(m, d, x) = f[NPTE] BY <1>2, <1>5, <1>6
  <1> QED BY <1>3, <1>7

LEMMA TablesTurns ==
  ASSUME NEW m, NEW d
  PROVE  \E f : Turns(f, 1, NPDE, m, d, d) /\ TablesFreed(m, d) = f[NPDE]
  <1>1. \E f : Turns(f, 1, NPDE, m, d, d) BY Consts, TurnsExist
  <1>2. PICK f : f = CHOOSE g : Turns(g, 1, NPDE, m, d, d) OBVIOUS
  <1>3. Turns(f, 1, NPDE, m, d, d) BY <1>1, <1>2, Zenon
  <1>4. \A a, t : Turn(1, a, d, d, t) = FreePageTable(a, d, t) BY DEF Turn
  <1>5. TablesFreed(m, d)
          = (CHOOSE g : g = [t \in 0 .. NPDE |-> IF t = 0 THEN m ELSE FreePageTable(g[t - 1], d, t)])[NPDE]
    BY DEF TablesFreed
  <1>6. ASSUME NEW g
        PROVE  Turns(g, 1, NPDE, m, d, d)
                 <=> g = [t \in 0 .. NPDE |-> IF t = 0 THEN m ELSE FreePageTable(g[t - 1], d, t)]
    BY <1>4 DEF Turns
  <1>7. TablesFreed(m, d) = f[NPDE] BY <1>2, <1>5, <1>6
  <1> QED BY <1>3, <1>7

\* After n turns of the inner loop, which began with the memory m.
PartlyUnmapped(a, m, D, T, H, d, x, n) ==
    /\ MemOK(a, D, T, H) /\ PdeOf(a) = PdeOf(m)
    /\ Cleared(PteOf(m), PteOf(a), T)
    /\ \A t \in 1 .. n : EmptyAt(PdeOf(a), PteOf(a), d, x, t)

LEMMA UnmapTurn ==
  ASSUME NEW m, NEW D, NEW T, NEW H, NEW d \in D, NEW x \in Pdx, NEW n \in Nat, NEW a,
         PartlyUnmapped(a, m, D, T, H, d, x, n), n + 1 \in Ptx,
         NEW r, r = Turn(0, a, d, x, n + 1)
  PROVE  PartlyUnmapped(r, m, D, T, H, d, x, n + 1)
  <1>1. PICK t \in Ptx : t = n + 1 OBVIOUS
  <1>2. PICK va : va = <<x, t>> OBVIOUS
  <1>3. x = PDX(va) /\ t = PTX(va) BY <1>2 DEF PDX, PTX
  <1>4. r = page_remove(a, d, va) BY <1>1, <1>2 DEF Turn
  <1>5. MemOK(a, D, T, H) BY DEF PartlyUnmapped
  <1>6. /\ MemOK(r, D, T, H) /\ PdeOf(r) = PdeOf(a)
        /\ Cleared(PteOf(a), PteOf(r), T)
        /\ EmptyAt(PdeOf(r), PteOf(r), d, x, t)
    BY <1>3, <1>4, <1>5, RemoveOK
  <1>7. PdeOf(a)[d][x] # NULL => PdeOf(a)[d][x] \in T
    <2>1. PICK fl, ref, pde, pte, b :
             /\ a = Mem(fl, ref, pde, pte, b) /\ Calm(b)
             /\ Acct(fl, ref, pde, pte, D, T, H)
             /\ fl = FreeList(a) /\ pde = PdeOf(a) /\ pte = PteOf(a)
      BY <1>5, MemParts
    <2>2. Acct(fl, ref, pde, pte, D, T, H) BY <2>1
    <2>3. pde[d][x] # NULL => pde[d][x] \in T BY <2>2, EntryIsTable
    <2> QED BY <2>1, <2>3
  <1>8. PdeOf(r) = PdeOf(m) /\ Cleared(PteOf(m), PteOf(a), T) BY <1>6 DEF PartlyUnmapped
  <1>9. Cleared(PteOf(m), PteOf(r), T) BY <1>6, <1>8 DEF Cleared
  <1>10. ASSUME NEW u \in 1 .. (n + 1) PROVE EmptyAt(PdeOf(r), PteOf(r), d, x, u)
    <2>1. CASE u = n + 1 BY <1>1, <1>6, <2>1
    <2>2. CASE u # n + 1
      <3>1. u \in 1 .. n BY <2>2
      <3>2. EmptyAt(PdeOf(a), PteOf(a), d, x, u) BY <3>1 DEF PartlyUnmapped
      <3>3. u \in Ptx BY <1>1, Consts DEF Ptx
      <3> QED BY <1>6, <1>7, <3>2, <3>3 DEF Cleared, EmptyAt
    <2> QED BY <2>1, <2>2
  <1> QED BY <1>6, <1>8, <1>9, <1>10 DEF PartlyUnmapped

\* The inner loop empties the table and keeps the account.
LEMMA UnmapKeeps ==
  ASSUME NEW m, NEW D, NEW T, NEW H, MemOK(m, D, T, H), NEW d \in D, NEW x \in Pdx,
         NEW r, r = Unmapped(m, d, x)
  PROVE  PartlyUnmapped(r, m, D, T, H, d, x, NPTE)
  <1>1. PICK f : Turns(f, 0, NPTE, m, d, x) /\ r = f[NPTE] BY UnmappedTurns
  <1>2. f[0] = m /\ \A t \in 1 .. NPTE : f[t] = Turn(0, f[t - 1], d, x, t)
    <2>1. NPTE \in Nat BY Consts
    <2> QED BY <1>1, <2>1, TurnsAt
  <1>3. PICK S : S = {n \in Nat : n <= NPTE => PartlyUnmapped(f[n], m, D, T, H, d, x, n)} OBVIOUS
  <1>4. 0 \in S
    <2>1. PartlyUnmapped(m, m, D, T, H, d, x, 0) BY DEF PartlyUnmapped, Cleared
    <2> QED BY <1>2, <1>3, <2>1
  <1>5. ASSUME NEW n \in Nat, n \in S PROVE n + 1 \in S
    <2>1. CASE n + 1 <= NPTE
      <3>1. n + 1 \in 1 .. NPTE /\ n + 1 \in Ptx /\ n <= NPTE /\ (n + 1) - 1 = n
        BY <2>1, Consts DEF Ptx
      <3>2. PICK a, q : a = f[n] /\ q = f[n + 1] OBVIOUS
      <3>3. PartlyUnmapped(a, m, D, T, H, d, x, n) BY <1>3, <1>5, <3>1, <3>2
      <3>4. q = Turn(0, a, d, x, n + 1) BY <1>2, <3>1, <3>2
      <3>5. PartlyUnmapped(q, m, D, T, H, d, x, n + 1) BY <3>1, <3>3, <3>4, UnmapTurn
      <3> QED BY <1>3, <3>2, <3>5
    <2>2. CASE ~(n + 1 <= NPTE) BY <1>3, <2>2
    <2> QED BY <2>1, <2>2
  <1>6. Nat \subseteq S BY <1>4, <1>5, NatSetInduction
  <1>7. NPTE \in Nat /\ NPTE <= NPTE BY Consts
  <1> QED BY <1>1, <1>3, <1>6, <1>7

\* One turn of the outer loop: the table, emptied, goes to the free list.
LEMMA FreeTableKeeps ==
  ASSUME NEW m, NEW D, NEW T, NEW H, MemOK(m, D, T, H), NEW d \in D, NEW x \in Pdx,
         NEW r, r = FreePageTable(m, d, x)
  PROVE  \E T2 : /\ MemOK(r, D, T2, H)
                 /\ Fewer(PteOf(m), T, PteOf(r), T2)
                 /\ PdeOf(r)[d][x] = NULL
                 /\ \A y \in Pdx : PdeOf(m)[d][y] = NULL => PdeOf(r)[d][y] = NULL
  <1>1. PICK pt : pt = PdeOf(m)[d][x] OBVIOUS
  <1>2. CASE pt = NULL
    <2>1. r = m BY <1>1, <1>2 DEF FreePageTable, PdeOf
    <2>2. Fewer(PteOf(m), T, PteOf(m), T) BY DEF Fewer
    <2> QED BY <1>1, <1>2, <2>1, <2>2
  <1>3. CASE pt # NULL
    <2>1. PICK m1 : m1 = Unmapped(m, d, x) OBVIOUS
    <2>2. PartlyUnmapped(m1, m, D, T, H, d, x, NPTE) BY <2>1, UnmapKeeps
    <2>3. MemOK(m1, D, T, H) /\ PdeOf(m1) = PdeOf(m) /\ Cleared(PteOf(m), PteOf(m1), T)
      BY <2>2 DEF PartlyUnmapped
    <2>4. PICK fl, ref, pde, pte, b :
             /\ m1 = Mem(fl, ref, pde, pte, b) /\ Calm(b)
             /\ Acct(fl, ref, pde, pte, D, T, H)
             /\ fl = FreeList(m1) /\ pde = PdeOf(m1) /\ pte = PteOf(m1)
      BY <2>3, MemParts
    <2>5. m1 = Mem(fl, ref, pde, pte, b) /\ Calm(b) /\ Acct(fl, ref, pde, pte, D, T, H)
      BY <2>4
    <2>6. pt = pde[d][x] /\ pde = PdeOf(m) BY <1>1, <2>3, <2>4
    <2>7. \A t \in Ptx : pte[pt][t] = NoPte
      <3>1. \A t \in Ptx : EmptyAt(pde, pte, d, x, t) BY <2>2, <2>4 DEF PartlyUnmapped, Ptx
      <3> QED BY <1>3, <2>6, <3>1 DEF EmptyAt
    <2>8. PICK ref2, pde2 : ref2 = Dec(ref, pt) /\ pde2 = Put(pde, d, x, NULL) OBVIOUS
    <2>9. /\ pt \in T /\ ref[pt] = 1 /\ ~Listed(fl, pt)
          /\ Acct(fl, ref2, pde2, pte, D, Minus(T, pt), Plus(H, pt))
          /\ \A e \in D, y \in Pdx : pde2[e][y] = IF e = d /\ y = x THEN NULL ELSE pde[e][y]
      <3>1. pt = pde[d][x] BY <2>6
      <3> QED BY <1>3, <2>5, <2>7, <2>8, <3>1, DropTable
    <2>10. pt \in Plus(H, pt) /\ Minus(Plus(H, pt), pt) = H
      <3>1. pt \notin H BY <2>5, <2>9 DEF Acct, Apart
      <3> QED BY <3>1 DEF Plus, Minus
    <2>11. PICK fl2 : fl2 = Push(pt, fl) OBVIOUS
    <2>12. Acct(fl2, ref2, pde2, pte, D, Minus(T, pt), Minus(Plus(H, pt), pt))
      BY <2>9, <2>10, <2>11, GivePage
    <2>13. PICK m2 : m2 = [m1 EXCEPT !.pde = pde2] OBVIOUS
    <2>14. m2 = Mem(fl, ref, pde2, pte, b) BY <2>5, <2>13, WritePde
    <2>15. r = page_decref(m2, pt)
      <3>1. m1.pde = pde /\ m.pde[d][x] = pt BY <1>1, <2>4 DEF PdeOf
      <3>2. m2 = [m1 EXCEPT !.pde[d][x] = NULL] BY <2>8, <2>13, <3>1 DEF Put
      <3> QED BY <1>3, <2>1, <3>1, <3>2 DEF FreePageTable
    <2>16. r = Mem(fl2, ref2, pde2, pte, b)
      <3>1. fl \in Seq(Page) /\ ref \in [Page -> 0 .. RefMod - 1] /\ T \subseteq Page
        BY <2>5 DEF Acct, Apart
      <3>2. pt \in Page /\ ref[pt] # 0 BY <2>9, <3>1
      <3>3. ref[pt] = 1 => page_decref(m2, pt) = Mem(Push(pt, fl), Dec(ref, pt), pde2, pte, b)
        BY <2>9, <2>14, <3>1, <3>2, DecrefFields
      <3> QED BY <2>8, <2>9, <2>11, <2>15, <3>3
    <2>17. MemOK(r, D, Minus(T, pt), H) /\ PdeOf(r) = pde2 /\ PteOf(r) = pte
      <3>1. Acct(fl2, ref2, pde2, pte, D, Minus(T, pt), H) BY <2>10, <2>12
      <3> QED BY <2>5, <2>16, <3>1, MemIntro
    <2>18. Fewer(PteOf(m), T, PteOf(r), Minus(T, pt))
      <3>1. Mapped(PteOf(m1), T) \subseteq Mapped(PteOf(m), T)
        <4>1. \A q \in T, u \in Ptx : PteOf(m1)[q][u] = PteOf(m)[q][u] \/ PteOf(m1)[q][u] = NoPte
          BY <2>3 DEF Cleared
        <4> QED BY <4>1, MappedLess
      <3>2. Mapped(pte, Minus(T, pt)) \subseteq Mapped(pte, T) BY DEF Mapped, Minus
      <3> QED BY <2>4, <2>17, <3>1, <3>2 DEF Fewer
    <2>19. PdeOf(r)[d][x] = NULL /\ \A y \in Pdx : PdeOf(m)[d][y] = NULL => PdeOf(r)[d][y] = NULL
      BY <2>6, <2>9, <2>17
    <2> QED BY <2>17, <2>18, <2>19
  <1> QED BY <1>2, <1>3

\* After n turns of the outer loop, which began with the memory m.
PartlyFreed(a, m, D, T, H, d, n) ==
    \E T2 : /\ MemOK(a, D, T2, H)
            /\ Fewer(PteOf(m), T, PteOf(a), T2)
            /\ \A y \in 1 .. n : PdeOf(a)[d][y] = NULL

LEMMA FreeTurn ==
  ASSUME NEW m, NEW D, NEW T, NEW H, NEW d \in D, NEW n \in Nat, NEW a,
         PartlyFreed(a, m, D, T, H, d, n), n + 1 \in Pdx,
         NEW r, r = Turn(1, a, d, d, n + 1)
  PROVE  PartlyFreed(r, m, D, T, H, d, n + 1)
  <1>1. PICK x \in Pdx : x = n + 1 OBVIOUS
  <1>2. r = FreePageTable(a, d, x) BY <1>1 DEF Turn
  <1>3. PICK T1 : /\ MemOK(a, D, T1, H)
                  /\ Fewer(PteOf(m), T, PteOf(a), T1)
                  /\ \A y \in 1 .. n : PdeOf(a)[d][y] = NULL
    BY DEF PartlyFreed
  <1>4. PICK T2 : /\ MemOK(r, D, T2, H)
                  /\ Fewer(PteOf(a), T1, PteOf(r), T2)
                  /\ PdeOf(r)[d][x] = NULL
                  /\ \A y \in Pdx : PdeOf(a)[d][y] = NULL => PdeOf(r)[d][y] = NULL
    BY <1>2, <1>3, FreeTableKeeps
  <1>5. Fewer(PteOf(m), T, PteOf(r), T2) BY <1>3, <1>4 DEF Fewer
  <1>6. ASSUME NEW y \in 1 .. (n + 1) PROVE PdeOf(r)[d][y] = NULL
    <2>1. CASE y = n + 1 BY <1>1, <1>4, <2>1
    <2>2. CASE y # n + 1
      <3>1. y \in 1 .. n BY <2>2
      <3>2. y \in Pdx BY <1>1, Consts DEF Pdx
      <3> QED BY <1>3, <1>4, <3>1, <3>2
    <2> QED BY <2>1, <2>2
  <1> QED BY <1>4, <1>5, <1>6 DEF PartlyFreed

LEMMA TablesKeep ==
  ASSUME NEW m, NEW D, NEW T, NEW H, MemOK(m, D, T, H), NEW d \in D,
         NEW r, r = TablesFreed(m, d)
  PROVE  PartlyFreed(r, m, D, T, H, d, NPDE)
  <1>1. PICK f : Turns(f, 1, NPDE, m, d, d) /\ r = f[NPDE] BY TablesTurns
  <1>2. f[0] = m /\ \A t \in 1 .. NPDE : f[t] = Turn(1, f[t - 1], d, d, t)
    <2>1. NPDE \in Nat BY Consts
    <2> QED BY <1>1, <2>1, TurnsAt
  <1>3. PICK S : S = {n \in Nat : n <= NPDE => PartlyFreed(f[n], m, D, T, H, d, n)} OBVIOUS
  <1>4. 0 \in S
    <2>1. PartlyFreed(m, m, D, T, H, d, 0) BY DEF PartlyFreed, Fewer
    <2> QED BY <1>2, <1>3, <2>1
  <1>5. ASSUME NEW n \in Nat, n \in S PROVE n + 1 \in S
    <2>1. CASE n + 1 <= NPDE
      <3>1. n + 1 \in 1 .. NPDE /\ n + 1 \in Pdx /\ n <= NPDE /\ (n + 1) - 1 = n
        BY <2>1, Consts DEF Pdx
      <3>2. PICK a, q : a = f[n] /\ q = f[n + 1] OBVIOUS
      <3>3. PartlyFreed(a, m, D, T, H, d, n) BY <1>3, <1>5, <3>1, <3>2
      <3>4. q = Turn(1, a, d, d, n + 1) BY <1>2, <3>1, <3>2
      <3>5. PartlyFreed(q, m, D, T, H, d, n + 1) BY <3>1, <3>3, <3>4, FreeTurn
      <3> QED BY <1>3, <3>2, <3>5
    <2>2. CASE ~(n + 1 <= NPDE) BY <1>3, <2>2
    <2> QED BY <2>1, <2>2
  <1>6. Nat \subseteq S BY <1>4, <1>5, NatSetInduction
  <1>7. NPDE \in Nat /\ NPDE <= NPDE BY Consts
  <1> QED BY <1>1, <1>3, <1>6, <1>7

\* env_free keeps the account; the directory goes to the free list too.
LEMMA EnvFreeKeeps ==
  ASSUME NEW m, NEW D, NEW T, NEW H, MemOK(m, D, T, H), NEW d \in D,
         NEW r, r = env_free(m, d)
  PROVE  \E T2 : MemOK(r, Minus(D, d), T2, H) /\ Fewer(PteOf(m), T, PteOf(r), T2)
  <1>1. PICK a : a = TablesFreed(m, d) OBVIOUS
  <1>2. PartlyFreed(a, m, D, T, H, d, NPDE) BY <1>1, TablesKeep
  <1>3. PICK T2 : /\ MemOK(a, D, T2, H)
                  /\ Fewer(PteOf(m), T, PteOf(a), T2)
                  /\ \A y \in Pdx : PdeOf(a)[d][y] = NULL
    BY <1>2 DEF PartlyFreed, Pdx
  <1>4. PICK fl, ref, pde, pte, b :
           /\ a = Mem(fl, ref, pde, pte, b) /\ Calm(b)
           /\ Acct(fl, ref, pde, pte, D, T2, H)
           /\ fl = FreeList(a) /\ pde = PdeOf(a) /\ pte = PteOf(a)
    BY <1>3, MemParts
  <1>5. a = Mem(fl, ref, pde, pte, b) /\ Calm(b) /\ Acct(fl, ref, pde, pte, D, T2, H)
    BY <1>4
  <1>6. \A y \in Pdx : pde[d][y] = NULL BY <1>3, <1>4
  <1>7. PICK ref2 : ref2 = Dec(ref, d) OBVIOUS
  <1>8. /\ d \in Page /\ ref[d] = 1 /\ ~Listed(fl, d)
        /\ Acct(fl, ref2, pde, pte, Minus(D, d), T2, Plus(H, d))
    BY <1>5, <1>6, <1>7, DropDirectory
  <1>9. d \in Plus(H, d) /\ Minus(Plus(H, d), d) = H
    <2>1. d \notin H BY <1>5 DEF Acct, Apart
    <2> QED BY <2>1 DEF Plus, Minus
  <1>10. PICK fl2 : fl2 = Push(d, fl) OBVIOUS
  <1>11. Acct(fl2, ref2, pde, pte, Minus(D, d), T2, Minus(Plus(H, d), d))
    BY <1>8, <1>9, <1>10, GivePage
  <1>12. r = Mem(fl2, ref2, pde, pte, b)
    <2>1. fl \in Seq(Page) /\ ref \in [Page -> 0 .. RefMod - 1] /\ ref[d] # 0
      BY <1>5, <1>8 DEF Acct
    <2>2. ref[d] = 1 => page_decref(a, d) = Mem(Push(d, fl), Dec(ref, d), pde, pte, b)
      BY <1>5, <1>8, <2>1, DecrefFields
    <2> QED BY <1>1, <1>7, <1>8, <1>10, <2>2 DEF env_free
  <1>13. Acct(fl2, ref2, pde, pte, Minus(D, d), T2, H) BY <1>9, <1>11
  <1>14. MemOK(r, Minus(D, d), T2, H) /\ PteOf(r) = pte BY <1>5, <1>12, <1>13, MemIntro
  <1> QED BY <1>3, <1>4, <1>14

-----------------------------------------------------------------------------
(***************************************************************************)
(* The system calls keep the account; between them no page is in hand      *)
(***************************************************************************)

Nothing == {}

\* A writable entry of pte2 names a page that was writable, or not mapped at all.
NoGain(pte, T, pte2, T2) ==
    \A f \in Mapped(pte2, T2) :
        f.w => \/ \E g \in Mapped(pte, T) : g.pp = f.pp /\ g.w
               \/ \A g \in Mapped(pte, T) : g.pp # f.pp

LEMMA FewerNoGain ==
  ASSUME NEW pte, NEW T, NEW pte2, NEW T2, Fewer(pte, T, pte2, T2)
  PROVE  NoGain(pte, T, pte2, T2)
  BY DEF Fewer, NoGain

LEMMA GainsNoGain ==
  ASSUME NEW pte, NEW T, NEW pte2, NEW T2, NEW e, Gains(pte, T, pte2, T2, e),
         e.w => \/ \E g \in Mapped(pte, T) : g.pp = e.pp /\ g.w
                \/ \A g \in Mapped(pte, T) : g.pp # e.pp
  PROVE  NoGain(pte, T, pte2, T2)
  BY DEF Gains, NoGain, Plus

\* The page of an entry in use is a page, and has references.
LEMMA MappedRefs ==
  ASSUME NEW m, NEW D, NEW T, NEW H, MemOK(m, D, T, H), NEW e \in Mapped(PteOf(m), T)
  PROVE  e.pp \in Page /\ e.w \in BOOLEAN /\ e \in Pte /\ Refs(PteOf(m), T, e.pp) # {}
  <1>1. PICK fl, ref, pde, pte, b :
           /\ m = Mem(fl, ref, pde, pte, b) /\ Calm(b)
           /\ Acct(fl, ref, pde, pte, D, T, H)
           /\ fl = FreeList(m) /\ pde = PdeOf(m) /\ pte = PteOf(m)
    BY MemParts
  <1>2. Data(pte, D, T, H) /\ pte \in [Page -> Table] /\ T \subseteq Page BY <1>1 DEF Acct, Apart
  <1>3. e \in Mapped(pte, T) BY <1>1
  <1>4. e # NoPte /\ \E pt \in T, t \in Ptx : pte[pt][t] = e BY <1>3, MappedIff
  <1>5. PICK pt \in T, t \in Ptx : pte[pt][t] = e BY <1>4
  <1>6. e \in Pte
    <2>1. pte[pt] \in Table BY <1>2
    <2> QED BY <1>5, <2>1 DEF Table
  <1>7. e.pp # NULL BY <1>2, <1>4, <1>5 DEF Data
  <1>8. e.pp \in Page /\ e.w \in BOOLEAN BY <1>6, <1>7 DEF Pte, PageOrNull
  <1>9. Refs(pte, T, e.pp) # {}
    <2>1. <<pt, t>> \in Refs(pte, T, e.pp) BY <1>5 DEF Refs
    <2> QED BY <2>1
  <1> QED BY <1>1, <1>6, <1>8, <1>9

\* sys_page_alloc with memory for the page.
LEMMA AllocCall ==
  ASSUME NEW m, NEW D, NEW T, MemOK(m, D, T, Nothing), NEW d \in D, NEW va \in Va,
         NEW w \in BOOLEAN, Some(FreeList(m)), NEW a, a = Alloc(m),
         NEW i, i = page_insert(a.m, d, a.pp, va, w),
         NEW r, r = IF i.ok THEN i.m ELSE page_free(i.m, a.pp)
  PROVE  \E T2 : MemOK(r, D, T2, Nothing) /\ NoGain(PteOf(m), T, PteOf(r), T2)
  <1>1. PICK pp, m1 : /\ a = Pair(pp, m1) /\ pp \in Page /\ pp \notin D \cup T \cup Nothing
                      /\ MemOK(m1, D, T, Plus(Nothing, pp)) /\ PteOf(m1) = PteOf(m)
                      /\ Cardinality(Refs(PteOf(m), T, pp)) = 0
                      /\ Len(FreeList(m1)) = Len(FreeList(m)) - 1
    BY AllocKeeps
  <1>2. a.pp = pp /\ a.m = m1
    <2>1. Pair(pp, m1).pp = pp /\ Pair(pp, m1).m = m1 BY PairFields
    <2> QED BY <1>1, <2>1
  <1>3. i = page_insert(m1, d, pp, va, w) BY <1>2
  <1>4. pp \in Plus(Nothing, pp) /\ Minus(Plus(Nothing, pp), pp) = Nothing
    BY DEF Plus, Minus, Nothing
  <1>5. Cardinality(Refs(PteOf(m1), T, pp)) + 1 < RefMod BY <1>1, Consts
  <1>6. PICK q, T4, H4 :
           /\ MemOK(q, D, T4, H4)
           /\ Inserted(i, q, FreeList(m1), FreeList(q), Plus(Nothing, pp), H4, pp)
           /\ Gains(PteOf(m1), T, PteOf(q), T4, Ent(pp, w))
    <2>1. MemOK(m1, D, T, Plus(Nothing, pp)) /\ pp \in Page BY <1>1
    <2> QED BY <1>3, <1>4, <1>5, <2>1, InsertOK
  <1>7. NoGain(PteOf(m), T, PteOf(q), T4)
    <2>1. Ent(pp, w).pp = pp BY <1>1, EntType
    <2>2. ASSUME NEW g \in Mapped(PteOf(m), T) PROVE g.pp # pp
      <3>1. Refs(PteOf(m), T, g.pp) # {} /\ g.pp \in Page BY MappedRefs
      <3>2. T \in SUBSET Page BY <1>1 DEF MemOK, Acct, Apart
      <3>3. Cardinality(Refs(PteOf(m), T, pp)) = 0 <=> Refs(PteOf(m), T, pp) = {}
        BY <3>2, RefsFinite
      <3> QED BY <1>1, <3>1, <3>3
    <2>3. PICK e : e = Ent(pp, w) OBVIOUS
    <2>4. Gains(PteOf(m), T, PteOf(q), T4, e) /\ e.pp = pp BY <1>1, <1>6, <2>1, <2>3
    <2> QED BY <2>2, <2>4, GainsNoGain
  <1>8. CASE i = Done(q) /\ H4 = Minus(Plus(Nothing, pp), pp)
    <2>1. i.ok /\ i.m = q BY <1>8, DoneFields
    <2>2. r = q /\ MemOK(q, D, T4, Nothing) BY <1>4, <1>6, <1>8, <2>1
    <2> QED BY <1>7, <2>2
  <1>9. CASE i = Failed(q) /\ H4 = Plus(Nothing, pp)
    <2>1. ~i.ok /\ i.m = q BY <1>9, DoneFields
    <2>2. r = page_free(q, pp) /\ MemOK(q, D, T4, Plus(Nothing, pp)) BY <1>2, <1>6, <1>9, <2>1
    <2>3. MemOK(r, D, T4, Minus(Plus(Nothing, pp), pp)) /\ PteOf(r) = PteOf(q)
      BY <1>4, <2>2, FreeKeeps
    <2> QED BY <1>4, <1>7, <2>3
  <1> QED BY <1>6, <1>8, <1>9 DEF Inserted

\* sys_page_map, and the transfer of a page by sys_ipc_try_send.
LEMMA MapCall ==
  ASSUME NEW m, NEW D, NEW T, MemOK(m, D, T, Nothing), NEW d \in D, NEW va \in Va,
         NEW w \in BOOLEAN, NEW e \in Mapped(PteOf(m), T), w => e.w,
         Cardinality(Refs(PteOf(m), T, e.pp)) + 1 < RefMod,
         NEW i, i = page_insert(m, d, e.pp, va, w), NEW r, r = i.m
  PROVE  \E T2 : MemOK(r, D, T2, Nothing) /\ NoGain(PteOf(m), T, PteOf(r), T2)
  <1>1. PICK pp : pp = e.pp OBVIOUS
  <1>2. pp \in Page /\ Refs(PteOf(m), T, pp) # {} BY <1>1, MappedRefs
  <1>3. Cardinality(Refs(PteOf(m), T, pp)) + 1 < RefMod /\ i = page_insert(m, d, pp, va, w)
    BY <1>1
  <1>4. PICK q, T4, H4 :
           /\ MemOK(q, D, T4, H4)
           /\ Inserted(i, q, FreeList(m), FreeList(q), Nothing, H4, pp)
           /\ Gains(PteOf(m), T, PteOf(q), T4, Ent(pp, w))
    BY <1>2, <1>3, InsertOK
  <1>5. r = q /\ H4 = Nothing
    <2>1. Minus(Nothing, pp) = Nothing BY DEF Minus, Nothing
    <2>2. Done(q).m = q /\ Failed(q).m = q BY DoneFields
    <2> QED BY <1>4, <2>1, <2>2 DEF Inserted
  <1>6. NoGain(PteOf(m), T, PteOf(q), T4)
    <2>1. PICK f : f = Ent(pp, w) OBVIOUS
    <2>2. f.pp = pp /\ f.w = w BY <1>2, <2>1, EntType
    <2>3. Gains(PteOf(m), T, PteOf(q), T4, f) BY <1>4, <2>1
    <2>4. f.w => \E g \in Mapped(PteOf(m), T) : g.pp = f.pp /\ g.w BY <1>1, <2>2
    <2> QED BY <2>3, <2>4, GainsNoGain
  <1> QED BY <1>4, <1>5, <1>6

-----------------------------------------------------------------------------
(***************************************************************************)
(* The first environment                                                   *)
(***************************************************************************)

\* The list that page_init builds names every page once.
LEMMA BootList ==
  ASSUME NEW list \in SetToSeqs(Page)
  PROVE  /\ list \in Seq(Page) /\ Len(list) = Cardinality(Page) /\ NoTwice(list)
         /\ \A p \in Page : Listed(list, p)
  <1>1. PICK N \in Nat : N = Cardinality(Page) BY Consts
  <1>2. list \in [1 .. N -> Page] /\ \A i, j \in 1 .. N : i # j => list[i] # list[j]
    BY <1>1 DEF SetToSeqs
  <1>3. list \in Seq(Page) /\ Len(list) = N BY <1>1, <1>2
  <1>4. NoTwice(list) BY <1>2, <1>3 DEF NoTwice
  <1>5. list \in Injection(1 .. N, Page) BY <1>2 DEF Injection, IsInjective
  <1>6. Cardinality(1 .. N) = N
    <2>1. 1 \in Int /\ N \in Int OBVIOUS
    <2>2. Cardinality(1 .. N) = IF 1 > N THEN 0 ELSE N - 1 + 1 BY <2>1, FS_Interval
    <2> QED BY <1>1, <2>2
  <1>7. list \in Surjection(1 .. N, Page) BY <1>1, <1>5, <1>6, Consts, FS_Injection
  <1>8. \A p \in Page : \E i \in 1 .. N : list[i] = p BY <1>7 DEF Surjection
  <1> QED BY <1>1, <1>3, <1>4, <1>8 DEF Listed

LEMMA BootOK ==
  ASSUME NEW list \in SetToSeqs(Page), NEW m, m = BootMem(list)
  PROVE  MemOK(m, Nothing, Nothing, Nothing) /\ Len(FreeList(m)) >= 5
  <1>1. PICK ref, pde, pte, b :
          /\ ref = [p \in Page |-> 0] /\ pde = [p \in Page |-> ClearPde]
          /\ pte = [p \in Page |-> ClearPte] /\ b = FALSE
    OBVIOUS
  <1>2. m = Mem(list, ref, pde, pte, b) /\ Calm(b) BY <1>1 DEF BootMem, Mem, Calm
  <1>3. /\ list \in Seq(Page) /\ Len(list) = Cardinality(Page) /\ NoTwice(list)
        /\ \A p \in Page : Listed(list, p)
    BY BootList
  <1>4. ref \in [Page -> 0 .. RefMod - 1]
    <2>1. 0 \in 0 .. RefMod - 1 BY Consts
    <2> QED BY <1>1, <2>1
  <1>5. pde \in [Page -> Directory] /\ pte \in [Page -> Table]
    BY <1>1, ClearPdeType, ClearPteType
  <1>6. \A p : Refs(pte, Nothing, p) = {} BY DEF Refs, Nothing
  <1>7. Apart(Nothing, Nothing, Nothing) /\ Tree(pde, Nothing, Nothing)
        /\ Data(pte, Nothing, Nothing, Nothing)
    BY DEF Apart, Tree, Data, Nothing
  <1>8. FreeOK(list, pte, Nothing, Nothing, Nothing) BY <1>3, <1>6 DEF FreeOK, Nothing
  <1>9. CountOK(ref, pte, Nothing, Nothing)
    <2>1. \A p \in Page : ref[p] = 0 BY <1>1
    <2>2. \A p \in Page : Cardinality(Refs(pte, Nothing, p)) = 0 BY <1>6, FS_EmptySet
    <2> QED BY <2>1, <2>2 DEF CountOK, Nothing
  <1>10. Acct(list, ref, pde, pte, Nothing, Nothing, Nothing)
    BY <1>3, <1>4, <1>5, <1>7, <1>8, <1>9 DEF Acct
  <1>11. MemOK(m, Nothing, Nothing, Nothing) /\ FreeList(m) = list
    BY <1>2, <1>10, MemIntro
  <1> QED BY <1>3, <1>11, Consts

LEMMA OkLen ==
  ASSUME NEW m, NEW D, NEW T, NEW H, MemOK(m, D, T, H)
  PROVE  Len(FreeList(m)) \in Nat /\ (Len(FreeList(m)) >= 1 => Some(FreeList(m)))
  <1>1. PICK fl : fl = FreeList(m) OBVIOUS
  <1>2. fl \in Seq(Page) BY <1>1 DEF MemOK, Acct, FreeList
  <1>3. Len(fl) \in Nat /\ (Len(fl) >= 1 => fl # << >>) BY <1>2
  <1> QED BY <1>1, <1>3 DEF Some

\* region_alloc with two free pages maps one and uses at most both.
LEMMA RegionKeeps ==
  ASSUME NEW m, NEW D, NEW T, MemOK(m, D, T, Nothing), Len(FreeList(m)) >= 2,
         NEW d \in D, NEW va \in Va, NEW r, r = region_alloc(m, d, va)
  PROVE  \E T2 : MemOK(r, D, T2, Nothing) /\ Len(FreeList(r)) >= Len(FreeList(m)) - 2
  <1>1. Len(FreeList(m)) \in Nat /\ Some(FreeList(m)) BY OkLen
  <1>2. PICK a : a = Alloc(m) OBVIOUS
  <1>3. PICK pp, m1 : /\ a = Pair(pp, m1) /\ pp \in Page /\ pp \notin D \cup T \cup Nothing
                      /\ MemOK(m1, D, T, Plus(Nothing, pp)) /\ PteOf(m1) = PteOf(m)
                      /\ Cardinality(Refs(PteOf(m), T, pp)) = 0
                      /\ Len(FreeList(m1)) = Len(FreeList(m)) - 1
    BY <1>1, <1>2, AllocKeeps
  <1>4. Alloc(m).pp = pp /\ Alloc(m).m = m1 BY <1>2, <1>3, PairFields
  <1>5. PICK w \in BOOLEAN : w = TRUE OBVIOUS
  <1>6. PICK i : i = page_insert(m1, d, pp, va, w) OBVIOUS
  <1>7. r = i.m
    <2>1. region_alloc(m, d, va) = page_insert(Alloc(m).m, d, Alloc(m).pp, va, w).m
      BY <1>5 DEF region_alloc, Alloc
    <2> QED BY <1>4, <1>6, <2>1
  <1>8. pp \in Plus(Nothing, pp) /\ Minus(Plus(Nothing, pp), pp) = Nothing
    BY DEF Plus, Minus, Nothing
  <1>9. Cardinality(Refs(PteOf(m1), T, pp)) + 1 < RefMod BY <1>3, Consts
  <1>10. MemOK(m1, D, T, Plus(Nothing, pp)) /\ pp \in Page BY <1>3
  <1>11. PICK q, T4, H4 :
           /\ MemOK(q, D, T4, H4)
           /\ Inserted(i, q, FreeList(m1), FreeList(q), Plus(Nothing, pp), H4, pp)
           /\ Gains(PteOf(m1), T, PteOf(q), T4, Ent(pp, w))
    BY <1>6, <1>8, <1>9, <1>10, InsertOK
  <1>12. Len(FreeList(m1)) \in Nat /\ (Len(FreeList(m1)) >= 1 => Some(FreeList(m1)))
    BY <1>10, OkLen
  <1>13. Some(FreeList(m1)) BY <1>1, <1>3, <1>12
  <1>14. /\ i = Done(q) /\ H4 = Nothing /\ Len(FreeList(q)) >= Len(FreeList(m1)) - 1
    BY <1>8, <1>11, <1>13 DEF Inserted
  <1>15. r = q BY <1>7, <1>14, DoneFields
  <1>16. Len(FreeList(q)) \in Nat BY <1>11, OkLen
  <1>17. Len(FreeList(q)) >= Len(FreeList(m)) - 2 BY <1>1, <1>3, <1>12, <1>14, <1>16
  <1> QED BY <1>11, <1>14, <1>15, <1>17

\* env_create: the boot memory with one address space.
LEMMA CreateKeeps ==
  ASSUME NEW list \in SetToSeqs(Page), NEW c, c = env_create(BootMem(list))
  PROVE  \E d, T2 : c.pgdir = d /\ d \in Page /\ MemOK(c.m, Plus(Nothing, d), T2, Nothing)
  <1>1. PICK m : m = BootMem(list) OBVIOUS
  <1>2. MemOK(m, Nothing, Nothing, Nothing) /\ Len(FreeList(m)) >= 5 BY <1>1, BootOK
  <1>3. Len(FreeList(m)) \in Nat /\ Some(FreeList(m)) BY <1>2, OkLen
  <1>4. PICK s : s = env_setup_vm(m) OBVIOUS
  <1>5. PICK d, m1 : /\ s = Pair(d, m1) /\ d \in Page /\ d \notin Nothing
                     /\ MemOK(m1, Plus(Nothing, d), Nothing, Nothing)
                     /\ Fewer(PteOf(m), Nothing, PteOf(m1), Nothing)
                     /\ Len(FreeList(m1)) = Len(FreeList(m)) - 1
    BY <1>2, <1>3, <1>4, SetupKeeps
  <1>6. PICK D : D = Plus(Nothing, d) OBVIOUS
  <1>7. d \in D /\ MemOK(m1, D, Nothing, Nothing) BY <1>5, <1>6 DEF Plus
  <1>8. Len(FreeList(m1)) \in Nat /\ Len(FreeList(m1)) >= 4 BY <1>2, <1>3, <1>5
  <1>9. PICK v1, v2 : v1 = <<1, 1>> /\ v2 = <<NPDE, NPTE>> OBVIOUS
  <1>10. v1 \in Va /\ v2 \in Va BY <1>9, Consts DEF Va, Pdx, Ptx
  <1>11. PICK m2 : m2 = region_alloc(m1, d, v1) OBVIOUS
  <1>12. Len(FreeList(m1)) >= 2 BY <1>8
  <1>13. PICK T2 : MemOK(m2, D, T2, Nothing) /\ Len(FreeList(m2)) >= Len(FreeList(m1)) - 2
    BY <1>7, <1>10, <1>11, <1>12, RegionKeeps
  <1>14. Len(FreeList(m2)) >= 2
    <2>1. Len(FreeList(m2)) \in Nat BY <1>13, OkLen
    <2> QED BY <1>8, <1>13, <2>1
  <1>15. PICK m3 : m3 = region_alloc(m2, d, v2) OBVIOUS
  <1>16. PICK T3 : MemOK(m3, D, T3, Nothing) /\ Len(FreeList(m3)) >= Len(FreeList(m2)) - 2
    BY <1>7, <1>10, <1>13, <1>14, <1>15, RegionKeeps
  <1>17. s.pp = d /\ s.m = m1 BY <1>5, PairFields
  <1>18. c.pgdir = d /\ c.m = m3
    <2>1. c = [pgdir |-> s.pp, m |-> load_icode(s.m, s.pp)] BY <1>1, <1>4 DEF env_create
    <2>2. load_icode(m1, d) = m3 BY <1>9, <1>11, <1>15 DEF load_icode
    <2> QED BY <1>17, <2>1, <2>2
  <1> QED BY <1>5, <1>6, <1>16, <1>18

-----------------------------------------------------------------------------
(***************************************************************************)
(* The inductive invariant                                                 *)
(***************************************************************************)

PmapInv ==
    /\ MemOK(mem, Dirs, Tables, Nothing)
    /\ env_pgdir \in [Envs -> PageOrNull]
    /\ \A e, f \in Envs : env_pgdir[e] = env_pgdir[f] /\ env_pgdir[e] # NULL => e = f
    /\ env_ipc_dstva \in [Envs -> Va \cup {UTOP, NotReceiving}]

\* No counter is about to wrap around: each page has fewer than RefMod - 1 pointers,
\* 2^16 - 1 in the code.  Nothing in the code enforces it.
NoWrap == \A p \in Page : Pointers(p) + 1 < RefMod

DirsOf(pg) == {pg[e] : e \in {f \in Envs : pg[f] # NULL}}
TablesOf(pde, D) == {pde[s[1]][s[2]] : s \in {u \in D \X Pdx : pde[u[1]][u[2]] # NULL}}

LEMMA DirsAre ==
  /\ Dirs = DirsOf(env_pgdir)
  /\ \A p : p \in Dirs <=> p # NULL /\ \E e \in Envs : env_pgdir[e] = p
  BY DEF Dirs, DirsOf, Alive

\* The tables are those that the directories name.
LEMMA TablesAre ==
  ASSUME NEW m, NEW D, NEW T, NEW H, MemOK(m, D, T, H)
  PROVE  T = TablesOf(PdeOf(m), D)
  <1>1. PICK fl, ref, pde, pte, b :
           /\ m = Mem(fl, ref, pde, pte, b) /\ Calm(b)
           /\ Acct(fl, ref, pde, pte, D, T, H)
           /\ fl = FreeList(m) /\ pde = PdeOf(m) /\ pte = PteOf(m)
    BY MemParts
  <1>2. Acct(fl, ref, pde, pte, D, T, H) BY <1>1
  <1>3. Tree(pde, D, T) /\ T \subseteq Page BY <1>2 DEF Acct, Apart
  <1>4. ASSUME NEW p \in T PROVE p \in TablesOf(pde, D)
    <2>1. PICK d \in D, x \in Pdx : pde[d][x] = p BY <1>3 DEF Tree
    <2>2. PICK s \in D \X Pdx : s[1] = d /\ s[2] = x
      <3>1. <<d, x>> \in D \X Pdx /\ <<d, x>>[1] = d /\ <<d, x>>[2] = x OBVIOUS
      <3> QED BY <3>1
    <2>3. pde[s[1]][s[2]] = p /\ p # NULL BY <1>3, <2>1, <2>2, Consts
    <2> QED BY <2>3 DEF TablesOf
  <1>5. ASSUME NEW p \in TablesOf(pde, D) PROVE p \in T
    <2>1. PICK s \in D \X Pdx : pde[s[1]][s[2]] # NULL /\ p = pde[s[1]][s[2]]
      BY DEF TablesOf
    <2>2. s[1] \in D /\ s[2] \in Pdx OBVIOUS
    <2> QED BY <1>2, <2>1, <2>2, EntryIsTable
  <1> QED BY <1>1, <1>4, <1>5

LEMMA TablesState == Tables = TablesOf(PdeOf(mem), Dirs)
  BY DEF Tables, TableSlots, TablesOf, PdeOf

\* pp_ref counts the pointers.
LEMMA CountsExact ==
  ASSUME PmapInv PROVE RefCountsExact
  <1> SUFFICES ASSUME NEW p \in Page PROVE mem.pp_ref[p] = Pointers(p)
    BY DEF RefCountsExact
  <1>1. PICK m, D, T : m = mem /\ D = Dirs /\ T = Tables OBVIOUS
  <1>2. MemOK(m, D, T, Nothing) BY <1>1 DEF PmapInv
  <1>3. PICK fl, ref, pde, pte :
          /\ fl = m.page_free_list /\ ref = m.pp_ref /\ pde = m.pde /\ pte = m.pte
    OBVIOUS
  <1>4. Acct(fl, ref, pde, pte, D, T, Nothing) BY <1>2, <1>3 DEF MemOK
  <1>5. /\ Tree(pde, D, T) /\ Data(pte, D, T, Nothing) /\ CountOK(ref, pte, D, T)
        /\ D \subseteq Page /\ T \subseteq Page /\ D \cap T = {}
    BY <1>4 DEF Acct, Apart
  <1>6. PICK A1, A2, A3 :
          /\ A1 = {e \in Envs : env_pgdir[e] = p}
          /\ A2 = {s \in TableSlots : mem.pde[s[1]][s[2]] = p}
          /\ A3 = {s \in Entries : mem.pte[s[1]][s[2]].pp = p}
    OBVIOUS
  <1>7. Pointers(p) = Cardinality(A1) + Cardinality(A2) + Cardinality(A3) BY <1>6 DEF Pointers
  <1>8. p # NULL BY Consts
  <1>9. Cardinality(A1) = IF p \in D THEN 1 ELSE 0
    <2>1. CASE p \in D
      <3>1. PICK e \in Envs : env_pgdir[e] = p BY <1>1, <2>1, DirsAre
      <3>2. \A f \in Envs : env_pgdir[f] = p => f = e BY <1>8, <3>1 DEF PmapInv
      <3>3. A1 = {e} BY <1>6, <3>1, <3>2
      <3> QED BY <2>1, <3>3, FS_Singleton
    <2>2. CASE p \notin D
      <3>1. A1 = {} BY <1>1, <1>6, <1>8, <2>2, DirsAre
      <3> QED BY <2>2, <3>1, FS_EmptySet
    <2> QED BY <2>1, <2>2
  <1>10. A2 = {s \in D \X Pdx : pde[s[1]][s[2]] = p}
    BY <1>1, <1>3, <1>6, <1>8 DEF TableSlots
  <1>11. Cardinality(A2) = IF p \in T THEN 1 ELSE 0
    <2>1. CASE p \in T
      <3>1. PICK d \in D, x \in Pdx : pde[d][x] = p BY <1>5, <2>1 DEF Tree
      <3>2. ASSUME NEW s \in D \X Pdx, pde[s[1]][s[2]] = p PROVE s = <<d, x>>
        <4>1. s[1] \in D /\ s[2] \in Pdx /\ s = <<s[1], s[2]>> OBVIOUS
        <4>2. s[1] = d /\ s[2] = x BY <1>5, <1>8, <3>1, <3>2, <4>1 DEF Tree
        <4> QED BY <4>1, <4>2
      <3>3. <<d, x>> \in A2 BY <1>10, <3>1
      <3>4. PICK s : s = <<d, x>> OBVIOUS
      <3>5. A2 = {s} BY <1>10, <3>2, <3>3, <3>4
      <3> QED BY <2>1, <3>5, FS_Singleton
    <2>2. CASE p \notin T
      <3>1. \A d \in D, x \in Pdx : pde[d][x] # p BY <1>5, <2>2 DEF Tree
      <3>2. \A s \in D \X Pdx : s[1] \in D /\ s[2] \in Pdx OBVIOUS
      <3>3. A2 = {} BY <1>10, <3>1, <3>2
      <3> QED BY <2>2, <3>3, FS_EmptySet
    <2> QED BY <2>1, <2>2
  <1>12. A3 = Refs(pte, T, p)
    <2>1. \A s \in T \X Ptx : pte[s[1]][s[2]].pp = p => pte[s[1]][s[2]] # NoPte BY <1>8, NoPteType
    <2> QED BY <1>1, <1>3, <1>6, <2>1 DEF Entries, Refs
  <1>13. p \in D \cup T => Refs(pte, T, p) = {}
    <2>1. \A q \in T, t \in Ptx : pte[q][t].pp \notin D \cup T BY <1>5 DEF Data
    <2>2. \A s \in T \X Ptx : s[1] \in T /\ s[2] \in Ptx OBVIOUS
    <2> QED BY <2>1, <2>2 DEF Refs
  <1>14. T \in SUBSET Page BY <1>5
  <1>15. Cardinality(Refs(pte, T, p)) \in Nat BY <1>14, RefsFinite
  <1>16. CASE p \in D
    <2>1. p \notin T /\ Cardinality(A3) = 0 BY <1>5, <1>12, <1>13, <1>16, FS_EmptySet
    <2>2. ref[p] = 1 BY <1>5, <1>16 DEF CountOK
    <2>3. Pointers(p) = 1 BY <1>7, <1>9, <1>11, <1>16, <2>1
    <2> QED BY <1>1, <1>3, <2>2, <2>3
  <1>17. CASE p \in T
    <2>1. p \notin D /\ Cardinality(A3) = 0 BY <1>5, <1>12, <1>13, <1>17, FS_EmptySet
    <2>2. ref[p] = 1 BY <1>5, <1>17 DEF CountOK
    <2>3. Pointers(p) = 1 BY <1>7, <1>9, <1>11, <1>17, <2>1
    <2> QED BY <1>1, <1>3, <2>2, <2>3
  <1>18. CASE p \notin D \cup T
    <2>1. ref[p] = Cardinality(A3) BY <1>5, <1>12, <1>18 DEF CountOK
    <2>2. Pointers(p) = Cardinality(A3) BY <1>7, <1>9, <1>11, <1>12, <1>15, <1>18
    <2> QED BY <1>1, <1>3, <2>1, <2>2
  <1> QED BY <1>16, <1>17, <1>18

\* No counter of a mapped page is at its limit.
LEMMA CountSmall ==
  ASSUME PmapInv, NoWrap, NEW p \in Page
  PROVE  Cardinality(Refs(PteOf(mem), Tables, p)) + 1 < RefMod
  <1>1. PICK m, D, T : m = mem /\ D = Dirs /\ T = Tables OBVIOUS
  <1>2. MemOK(m, D, T, Nothing) BY <1>1 DEF PmapInv
  <1>3. PICK fl, ref, pde, pte :
          /\ fl = m.page_free_list /\ ref = m.pp_ref /\ pde = m.pde /\ pte = m.pte
    OBVIOUS
  <1>4. Acct(fl, ref, pde, pte, D, T, Nothing) BY <1>2, <1>3 DEF MemOK
  <1>5. Data(pte, D, T, Nothing) /\ CountOK(ref, pte, D, T) BY <1>4 DEF Acct
  <1>6. PteOf(m) = pte BY <1>3 DEF PteOf
  <1>7. CASE p \in D \cup T
    <2>1. \A q \in T, t \in Ptx : pte[q][t].pp # p BY <1>5, <1>7 DEF Data
    <2>2. \A s \in T \X Ptx : s[1] \in T /\ s[2] \in Ptx OBVIOUS
    <2>3. Refs(pte, T, p) = {} BY <2>1, <2>2 DEF Refs
    <2>4. Cardinality(Refs(pte, T, p)) = 0 BY <2>3, FS_EmptySet
    <2> QED BY <1>1, <1>6, <2>4, Consts
  <1>8. CASE p \notin D \cup T
    <2>1. ref[p] = Cardinality(Refs(pte, T, p)) BY <1>5, <1>8 DEF CountOK
    <2>2. ref[p] = Pointers(p) BY <1>1, <1>3, CountsExact DEF RefCountsExact
    <2>3. Pointers(p) + 1 < RefMod BY DEF NoWrap
    <2> QED BY <1>1, <1>6, <2>1, <2>2, <2>3
  <1> QED BY <1>7, <1>8

\* The account as a fact about the state.
LEMMA StateParts ==
  ASSUME PmapInv
  PROVE  /\ Acct(mem.page_free_list, mem.pp_ref, mem.pde, mem.pte, Dirs, Tables, Nothing)
         /\ mem.panic = FALSE
  BY DEF PmapInv, MemOK, Calm

\* The pages that entries map.
LEMMA UserPagesAre ==
  ASSUME PmapInv, NEW p \in Page
  PROVE  /\ p \in UserPages <=> Refs(mem.pte, Tables, p) # {}
         /\ UserPages \subseteq Page
  <1>1. PICK pte, T : pte = mem.pte /\ T = Tables OBVIOUS
  <1>2. Data(pte, Dirs, T, Nothing) /\ pte \in [Page -> Table] /\ T \subseteq Page
    BY <1>1, StateParts DEF Acct, Apart
  <1>3. \A s \in T \X Ptx : s[1] \in T /\ s[2] \in Ptx OBVIOUS
  <1>4. UserPages = {pte[s[1]][s[2]].pp : s \in {u \in T \X Ptx : pte[u[1]][u[2]] # NoPte}}
    BY <1>1 DEF UserPages, Entries
  <1>5. ASSUME NEW s \in T \X Ptx, pte[s[1]][s[2]] # NoPte PROVE pte[s[1]][s[2]].pp \in Page
    <2>1. pte[s[1]] \in Table BY <1>2, <1>3
    <2>2. pte[s[1]][s[2]] \in Pte BY <1>3, <2>1 DEF Table
    <2>3. pte[s[1]][s[2]].pp # NULL BY <1>2, <1>3, <1>5 DEF Data
    <2> QED BY <2>2, <2>3 DEF Pte, PageOrNull
  <1>6. UserPages \subseteq Page BY <1>4, <1>5
  <1>7. \A s \in T \X Ptx : pte[s[1]][s[2]].pp = p => pte[s[1]][s[2]] # NoPte BY NoPteType
  <1>8. p \in UserPages <=> \E s \in T \X Ptx : pte[s[1]][s[2]].pp = p BY <1>4, <1>7
  <1>9. Refs(pte, T, p) # {} <=> \E s \in T \X Ptx : pte[s[1]][s[2]].pp = p BY DEF Refs
  <1> QED BY <1>1, <1>6, <1>8, <1>9

\* The free list is what is in no use.
LEMMA FreeExact ==
  ASSUME PmapInv PROVE FreeIffUnused
  <1>1. PICK fl, pte, D, T : fl = mem.page_free_list /\ pte = mem.pte /\ D = Dirs /\ T = Tables
    OBVIOUS
  <1>2. fl \in Seq(Page) /\ FreeOK(fl, pte, D, T, Nothing) BY <1>1, StateParts DEF Acct
  <1>3. Len(fl) \in Nat /\ DOMAIN fl = 1 .. Len(fl) /\ \A i \in 1 .. Len(fl) : fl[i] \in Page
    BY <1>2
  <1>4. PICK F : F = Free OBVIOUS
  <1>5. F = {fl[i] : i \in 1 .. Len(fl)} BY <1>1, <1>3, <1>4 DEF Free, Range
  <1>6. \A p \in Page : p \in F <=> Listed(fl, p) BY <1>5 DEF Listed
  <1>7. F \subseteq Page BY <1>3, <1>5
  <1>8. \A p \in Page : p \in F <=> p \notin D \cup T /\ p \notin UserPages
    <2>1. \A p \in Page : Listed(fl, p) <=> p \notin D \cup T \cup Nothing /\ Refs(pte, T, p) = {}
      BY <1>2 DEF FreeOK
    <2>2. \A p \in Page : p \in UserPages <=> Refs(pte, T, p) # {} BY <1>1, UserPagesAre
    <2> QED BY <1>6, <2>1, <2>2 DEF Nothing
  <1>9. Free = Page \ (Dirs \cup Tables \cup UserPages) BY <1>1, <1>4, <1>7, <1>8
  <1>10. Len(fl) = Cardinality(F)
    <2>1. fl \in [1 .. Len(fl) -> F] BY <1>2, <1>3, <1>5
    <2>2. fl \in Surjection(1 .. Len(fl), F) BY <1>5, <2>1 DEF Surjection
    <2>3. fl \in Injection(1 .. Len(fl), F) BY <1>2, <2>1 DEF FreeOK, NoTwice, Injection, IsInjective
    <2>4. IsFiniteSet(1 .. Len(fl)) /\ Cardinality(1 .. Len(fl)) = Len(fl)
      <3>1. 1 \in Int /\ Len(fl) \in Int BY <1>3
      <3>2. /\ IsFiniteSet(1 .. Len(fl))
            /\ Cardinality(1 .. Len(fl)) = IF 1 > Len(fl) THEN 0 ELSE Len(fl) - 1 + 1
        BY <3>1, FS_Interval
      <3> QED BY <1>3, <3>2
    <2>5. Cardinality(F) = Cardinality(1 .. Len(fl)) BY <2>2, <2>3, <2>4, FS_Surjection
    <2> QED BY <2>4, <2>5
  <1> QED BY <1>1, <1>4, <1>9, <1>10, StateParts DEF FreeIffUnused

\* Directories and tables are in one place and not user memory.
LEMMA PrivateExact ==
  ASSUME PmapInv PROVE TablesPrivate
  <1>1. PICK pde, pte, D, T : pde = mem.pde /\ pte = mem.pte /\ D = Dirs /\ T = Tables
    OBVIOUS
  <1>2. Tree(pde, D, T) /\ Data(pte, D, T, Nothing) /\ Apart(D, T, Nothing)
    BY <1>1, StateParts DEF Acct
  <1>3. ASSUME NEW s \in TableSlots, NEW u \in TableSlots,
               mem.pde[s[1]][s[2]] = mem.pde[u[1]][u[2]]
        PROVE  s = u
    <2>1. s \in D \X Pdx /\ u \in D \X Pdx /\ pde[s[1]][s[2]] # NULL BY <1>1 DEF TableSlots
    <2>2. s[1] \in D /\ s[2] \in Pdx /\ s = <<s[1], s[2]>> BY <2>1
    <2>3. u[1] \in D /\ u[2] \in Pdx /\ u = <<u[1], u[2]>> BY <2>1
    <2>4. s[1] = u[1] /\ s[2] = u[2] BY <1>1, <1>2, <1>3, <2>1, <2>2, <2>3 DEF Tree
    <2> QED BY <2>2, <2>3, <2>4
  <1>4. Dirs \cap Tables = {} BY <1>1, <1>2 DEF Apart
  <1>5. (Dirs \cup Tables) \cap UserPages = {}
    <2>1. \A s \in T \X Ptx : s[1] \in T /\ s[2] \in Ptx OBVIOUS
    <2>2. \A s \in T \X Ptx : pte[s[1]][s[2]].pp \notin D \cup T BY <1>2, <2>1 DEF Data
    <2>3. ASSUME NEW p \in UserPages PROVE p \notin D \cup T
      <3>1. PICK s \in T \X Ptx : p = pte[s[1]][s[2]].pp BY <1>1 DEF UserPages, Entries
      <3> QED BY <2>2, <3>1
    <2> QED BY <1>1, <2>3
  <1> QED BY <1>3, <1>4, <1>5 DEF TablesPrivate

-----------------------------------------------------------------------------
(***************************************************************************)
(* Every step keeps the invariant and gains no write access                *)
(***************************************************************************)

LEMMA LookupMapped ==
  ASSUME NEW m, NEW D, NEW T, NEW H, MemOK(m, D, T, H), NEW d \in D, NEW va \in Va,
         NEW e, e = page_lookup(m, d, va), e # NoPte
  PROVE  e \in Mapped(PteOf(m), T)
  <1>1. PICK fl, ref, pde, pte, b :
           /\ m = Mem(fl, ref, pde, pte, b) /\ Calm(b)
           /\ Acct(fl, ref, pde, pte, D, T, H)
           /\ fl = FreeList(m) /\ pde = PdeOf(m) /\ pte = PteOf(m)
    BY MemParts
  <1>2. m = Mem(fl, ref, pde, pte, b) /\ Acct(fl, ref, pde, pte, D, T, H) BY <1>1
  <1>3. PICK x \in Pdx, t \in Ptx : x = PDX(va) /\ t = PTX(va) BY VaParts
  <1>4. /\ pde[d][x] = NULL => page_lookup(m, d, va) = NoPte
        /\ pde[d][x] # NULL => page_lookup(m, d, va) = pte[pde[d][x]][t]
    BY <1>2, <1>3, Lookup
  <1>5. pde[d][x] # NULL /\ e = pte[pde[d][x]][t] BY <1>4
  <1>6. pde[d][x] \in T BY <1>2, <1>5, EntryIsTable
  <1>7. PICK pt \in T : pte[pt][t] = e BY <1>5, <1>6
  <1>8. e \in Mapped(pte, T) BY <1>7, MappedIff
  <1> QED BY <1>1, <1>8

LEMMA DirIn == ASSUME NEW t \in Envs, Alive(t) PROVE env_pgdir[t] \in Dirs
  BY DEF Alive, Dirs

LEMMA SameDirs == ASSUME UNCHANGED env_pgdir PROVE Dirs' = Dirs
  BY DEF Dirs, Alive

LEMMA PageAllocStep ==
  ASSUME PmapInv, NEW e \in Envs, NEW t \in Envs, NEW va \in Va, NEW w \in BOOLEAN,
         sys_page_alloc(e, t, va, w)
  PROVE  \E T2 : MemOK(mem', Dirs', T2, Nothing) /\ NoGain(PteOf(mem), Tables, PteOf(mem'), T2)
  <1>1. PICK m, D, T, d, r : m = mem /\ D = Dirs /\ T = Tables /\ d = env_pgdir[t] /\ r = mem'
    OBVIOUS
  <1>2. MemOK(m, D, T, Nothing) BY <1>1 DEF PmapInv
  <1>3. d \in D BY <1>1, DirIn DEF sys_page_alloc, MayChange
  <1>4. PICK a : a = Alloc(m) OBVIOUS
  <1>5. PICK i : i = page_insert(a.m, d, a.pp, va, w) OBVIOUS
  <1>6. a.pp # NULL /\ r = IF i.ok THEN i.m ELSE page_free(i.m, a.pp)
    BY <1>1, <1>4, <1>5 DEF sys_page_alloc, Alloc
  <1>7. Some(FreeList(m))
    <2>1. ~Some(FreeList(m)) => Alloc(m) = Pair(NULL, m) BY AllocNone
    <2>2. Pair(NULL, m).pp = NULL BY PairFields
    <2> QED BY <1>4, <1>6, <2>1, <2>2
  <1>8. \E T2 : MemOK(r, D, T2, Nothing) /\ NoGain(PteOf(m), T, PteOf(r), T2)
    BY <1>2, <1>3, <1>4, <1>5, <1>6, <1>7, AllocCall
  <1>9. Dirs' = Dirs BY SameDirs DEF sys_page_alloc
  <1> QED BY <1>1, <1>8, <1>9

LEMMA PageMapStep ==
  ASSUME PmapInv, NoWrap, NEW e \in Envs, NEW src \in Envs, NEW dst \in Envs,
         NEW srcva \in Va, NEW dstva \in Va, NEW w \in BOOLEAN,
         sys_page_map(e, src, srcva, dst, dstva, w)
  PROVE  \E T2 : MemOK(mem', Dirs', T2, Nothing) /\ NoGain(PteOf(mem), Tables, PteOf(mem'), T2)
  <1>1. PICK m, D, T, d1, d2, r :
          /\ m = mem /\ D = Dirs /\ T = Tables /\ d1 = env_pgdir[src] /\ d2 = env_pgdir[dst]
          /\ r = mem'
    OBVIOUS
  <1>2. MemOK(m, D, T, Nothing) BY <1>1 DEF PmapInv
  <1>3. d1 \in D /\ d2 \in D BY <1>1, DirIn DEF sys_page_map, MayChange
  <1>4. PICK entry : entry = page_lookup(m, d1, srcva) OBVIOUS
  <1>5. PICK i : i = page_insert(m, d2, entry.pp, dstva, w) OBVIOUS
  <1>6. entry # NoPte /\ (w => entry.w) /\ r = i.m BY <1>1, <1>4, <1>5 DEF sys_page_map
  <1>7. entry \in Mapped(PteOf(m), T) BY <1>2, <1>3, <1>4, <1>6, LookupMapped
  <1>8. entry.pp \in Page BY <1>2, <1>7, MappedRefs
  <1>9. Cardinality(Refs(PteOf(m), T, entry.pp)) + 1 < RefMod BY <1>1, <1>8, CountSmall
  <1>10. \E T2 : MemOK(r, D, T2, Nothing) /\ NoGain(PteOf(m), T, PteOf(r), T2)
    BY <1>2, <1>3, <1>5, <1>6, <1>7, <1>9, MapCall
  <1>11. Dirs' = Dirs BY SameDirs DEF sys_page_map
  <1> QED BY <1>1, <1>10, <1>11

LEMMA PageUnmapStep ==
  ASSUME PmapInv, NEW e \in Envs, NEW t \in Envs, NEW va \in Va, sys_page_unmap(e, t, va)
  PROVE  \E T2 : MemOK(mem', Dirs', T2, Nothing) /\ NoGain(PteOf(mem), Tables, PteOf(mem'), T2)
  <1>1. PICK m, D, T, d, r : m = mem /\ D = Dirs /\ T = Tables /\ d = env_pgdir[t] /\ r = mem'
    OBVIOUS
  <1>2. MemOK(m, D, T, Nothing) BY <1>1 DEF PmapInv
  <1>3. d \in D BY <1>1, DirIn DEF sys_page_unmap, MayChange
  <1>4. r = page_remove(m, d, va) BY <1>1 DEF sys_page_unmap
  <1>5. PICK x \in Pdx, u \in Ptx : x = PDX(va) /\ u = PTX(va) BY VaParts
  <1>6. MemOK(r, D, T, Nothing) /\ Cleared(PteOf(m), PteOf(r), T)
    BY <1>2, <1>3, <1>4, <1>5, RemoveOK
  <1>7. NoGain(PteOf(m), T, PteOf(r), T)
    <2>1. PICK p1, p2 : p1 = PteOf(m) /\ p2 = PteOf(r) OBVIOUS
    <2>2. \A q \in T, u1 \in Ptx : p2[q][u1] = p1[q][u1] \/ p2[q][u1] = NoPte
      BY <1>6, <2>1 DEF Cleared
    <2>3. Fewer(p1, T, p2, T) BY <2>2, MappedLess DEF Fewer
    <2> QED BY <2>1, <2>3, FewerNoGain
  <1>8. Dirs' = Dirs BY SameDirs DEF sys_page_unmap
  <1> QED BY <1>1, <1>6, <1>7, <1>8

LEMMA ExoforkStep ==
  ASSUME PmapInv, NEW e \in Envs, NEW child \in Envs, sys_exofork(e, child)
  PROVE  /\ \E T2 : MemOK(mem', Dirs', T2, Nothing)
                    /\ NoGain(PteOf(mem), Tables, PteOf(mem'), T2)
         /\ env_pgdir'[child] \in Page /\ env_pgdir'[child] \notin Dirs
  <1>1. PICK m, D, T, r : m = mem /\ D = Dirs /\ T = Tables /\ r = mem' OBVIOUS
  <1>2. MemOK(m, D, T, Nothing) BY <1>1 DEF PmapInv
  <1>3. PICK s : s = env_setup_vm(m) OBVIOUS
  <1>4. s.pp # NULL /\ r = s.m BY <1>1, <1>3 DEF sys_exofork
  <1>5. env_pgdir' = [env_pgdir EXCEPT ![child] = s.pp] /\ env_pgdir[child] = NULL
    BY <1>1, <1>3 DEF sys_exofork, Alive
  <1>6. Some(FreeList(m))
    <2>1. ~Some(FreeList(m)) => AllocZero(m) = Pair(NULL, m) BY AllocNone
    <2>2. Pair(NULL, m).pp = NULL BY PairFields
    <2>3. AllocZero(m).pp = NULL => s.pp = NULL BY <1>3 DEF env_setup_vm, AllocZero
    <2> QED BY <1>4, <2>1, <2>2, <2>3
  <1>7. PICK d, q : /\ s = Pair(d, q) /\ d \in Page /\ d \notin D
                    /\ MemOK(q, Plus(D, d), T, Nothing)
                    /\ Fewer(PteOf(m), T, PteOf(q), T)
                    /\ Len(FreeList(q)) = Len(FreeList(m)) - 1
    BY <1>2, <1>3, <1>6, SetupKeeps
  <1>8. s.pp = d /\ s.m = q BY <1>7, PairFields
  <1>9. NoGain(PteOf(m), T, PteOf(q), T) BY <1>7, FewerNoGain
  <1>10. env_pgdir'[child] = d /\ \A c \in Envs : c # child => env_pgdir'[c] = env_pgdir[c]
    <2>1. env_pgdir \in [Envs -> PageOrNull] BY DEF PmapInv
    <2> QED BY <1>5, <1>8, <2>1
  <1>11. Dirs' = Plus(D, d)
    <2>1. d # NULL BY <1>7, Consts
    <2>2. Dirs' = {env_pgdir'[c] : c \in {f \in Envs : env_pgdir'[f] # NULL}} BY DEF Dirs, Alive
    <2>3. D = {env_pgdir[c] : c \in {f \in Envs : env_pgdir[f] # NULL}} BY <1>1 DEF Dirs, Alive
    <2>4. PICK D2 : D2 = Dirs' OBVIOUS
    <2>5. \A p : p \in D2 <=> \E c \in Envs : env_pgdir'[c] # NULL /\ p = env_pgdir'[c]
      BY <2>2, <2>4
    <2>6. \A p : p \in D <=> \E c \in Envs : env_pgdir[c] # NULL /\ p = env_pgdir[c]
      BY <2>3
    <2>7. \A p : p \in D2 <=> p \in D \/ p = d BY <1>5, <1>10, <2>1, <2>5, <2>6
    <2> QED BY <2>4, <2>7 DEF Plus
  <1> QED BY <1>1, <1>4, <1>7, <1>8, <1>9, <1>10, <1>11

LEMMA DestroyStep ==
  ASSUME PmapInv, NEW e \in Envs, NEW t \in Envs, env_destroy(e, t)
  PROVE  \E T2 : MemOK(mem', Dirs', T2, Nothing) /\ NoGain(PteOf(mem), Tables, PteOf(mem'), T2)
  <1>1. PICK m, D, T, d, r : m = mem /\ D = Dirs /\ T = Tables /\ d = env_pgdir[t] /\ r = mem'
    OBVIOUS
  <1>2. MemOK(m, D, T, Nothing) BY <1>1 DEF PmapInv
  <1>3. d \in D /\ d # NULL BY <1>1, DirIn DEF env_destroy, MayChange, Alive
  <1>4. r = env_free(m, d) BY <1>1 DEF env_destroy
  <1>5. PICK T2 : MemOK(r, Minus(D, d), T2, Nothing) /\ Fewer(PteOf(m), T, PteOf(r), T2)
    BY <1>2, <1>3, <1>4, EnvFreeKeeps
  <1>6. NoGain(PteOf(m), T, PteOf(r), T2) BY <1>5, FewerNoGain
  <1>7. Dirs' = Minus(D, d)
    <2>1. env_pgdir \in [Envs -> PageOrNull] /\ env_pgdir' = [env_pgdir EXCEPT ![t] = NULL]
      BY DEF PmapInv, env_destroy
    <2>2. env_pgdir'[t] = NULL /\ \A c \in Envs : c # t => env_pgdir'[c] = env_pgdir[c] BY <2>1
    <2>3. PICK D2 : D2 = Dirs' OBVIOUS
    <2>4. Dirs' = {env_pgdir'[c] : c \in {f \in Envs : env_pgdir'[f] # NULL}} BY DEF Dirs, Alive
    <2>5. D = {env_pgdir[c] : c \in {f \in Envs : env_pgdir[f] # NULL}} BY <1>1 DEF Dirs, Alive
    <2>6. \A p : p \in D2 <=> \E c \in Envs : env_pgdir'[c] # NULL /\ p = env_pgdir'[c]
      BY <2>3, <2>4
    <2>7. \A p : p \in D <=> \E c \in Envs : env_pgdir[c] # NULL /\ p = env_pgdir[c]
      BY <2>5
    <2>8. \A c \in Envs : env_pgdir[c] = d => c = t BY <1>1, <1>3 DEF PmapInv
    <2>9. \A p : p \in D2 <=> p \in D /\ p # d BY <1>1, <2>2, <2>6, <2>7, <2>8
    <2> QED BY <2>3, <2>9 DEF Minus
  <1> QED BY <1>1, <1>5, <1>6, <1>7

LEMMA TrySendStep ==
  ASSUME PmapInv, NoWrap, NEW e \in Envs, NEW t \in Envs, NEW srcva \in Va \cup {UTOP},
         NEW w \in BOOLEAN, sys_ipc_try_send(e, t, srcva, w)
  PROVE  \E T2 : MemOK(mem', Dirs', T2, Nothing) /\ NoGain(PteOf(mem), Tables, PteOf(mem'), T2)
  <1>1. PICK m, D, T, d1, d2, r, dstva :
          /\ m = mem /\ D = Dirs /\ T = Tables /\ d1 = env_pgdir[e] /\ d2 = env_pgdir[t]
          /\ r = mem' /\ dstva = env_ipc_dstva[t]
    OBVIOUS
  <1>2. MemOK(m, D, T, Nothing) BY <1>1 DEF PmapInv
  <1>3. d1 \in D /\ d2 \in D BY <1>1, DirIn DEF sys_ipc_try_send, Calls
  <1>4. dstva \in Va \cup {UTOP, NotReceiving} /\ dstva # NotReceiving
    BY <1>1 DEF PmapInv, sys_ipc_try_send
  <1>5. Dirs' = Dirs BY SameDirs DEF sys_ipc_try_send
  <1>6. CASE srcva # UTOP /\ dstva # UTOP
    <2>1. srcva \in Va /\ dstva \in Va BY <1>4, <1>6
    <2>2. PICK entry : entry = page_lookup(m, d1, srcva) OBVIOUS
    <2>3. PICK i : i = page_insert(m, d2, entry.pp, dstva, w) OBVIOUS
    <2>4. entry # NoPte /\ (w => entry.w) /\ r = i.m
      BY <1>1, <1>6, <2>2, <2>3 DEF sys_ipc_try_send
    <2>5. entry \in Mapped(PteOf(m), T) BY <1>2, <1>3, <2>1, <2>2, <2>4, LookupMapped
    <2>6. entry.pp \in Page BY <1>2, <2>5, MappedRefs
    <2>7. Cardinality(Refs(PteOf(m), T, entry.pp)) + 1 < RefMod BY <1>1, <2>6, CountSmall
    <2>8. \E T2 : MemOK(r, D, T2, Nothing) /\ NoGain(PteOf(m), T, PteOf(r), T2)
      BY <1>2, <1>3, <2>1, <2>3, <2>4, <2>5, <2>7, MapCall
    <2> QED BY <1>1, <1>5, <2>8
  <1>7. CASE ~(srcva # UTOP /\ dstva # UTOP)
    <2>1. r = m BY <1>1, <1>7 DEF sys_ipc_try_send
    <2>2. NoGain(PteOf(m), T, PteOf(m), T) BY DEF NoGain
    <2> QED BY <1>1, <1>2, <1>5, <2>1, <2>2
  <1> QED BY <1>6, <1>7

\* sys_ipc_recv changes no memory.
LEMMA RecvStep ==
  ASSUME PmapInv, UNCHANGED <<mem, env_pgdir>>
  PROVE  \E T2 : MemOK(mem', Dirs', T2, Nothing) /\ NoGain(PteOf(mem), Tables, PteOf(mem'), T2)
  <1>1. PICK m, D, T, r : m = mem /\ D = Dirs /\ T = Tables /\ r = mem' OBVIOUS
  <1>2. MemOK(m, D, T, Nothing) BY <1>1 DEF PmapInv
  <1>3. r = m BY <1>1
  <1>4. NoGain(PteOf(m), T, PteOf(m), T) BY DEF NoGain
  <1>5. Dirs' = Dirs BY SameDirs
  <1> QED BY <1>1, <1>2, <1>3, <1>4, <1>5

\* The page directories after a step: their type, and no two environments share one.
DirsApart(pg) ==
    /\ pg \in [Envs -> PageOrNull]
    /\ \A e, f \in Envs : pg[e] = pg[f] /\ pg[e] # NULL => e = f

DstvaType(dst) == dst \in [Envs -> Va \cup {UTOP, NotReceiving}]

LEMMA InvIs ==
  PmapInv <=> MemOK(mem, Dirs, Tables, Nothing) /\ DirsApart(env_pgdir) /\ DstvaType(env_ipc_dstva)
  BY DEF PmapInv, DirsApart, DstvaType

LEMMA DstvaSet ==
  ASSUME NEW dst, DstvaType(dst), NEW e \in Envs, NEW v \in Va \cup {UTOP, NotReceiving}
  PROVE  DstvaType([dst EXCEPT ![e] = v])
  BY DEF DstvaType

LEMMA DirSet ==
  ASSUME NEW pg, DirsApart(pg), NEW e \in Envs, NEW d \in PageOrNull,
         d # NULL => \A f \in Envs : pg[f] # d
  PROVE  DirsApart([pg EXCEPT ![e] = d])
  <1>1. PICK q : q = [pg EXCEPT ![e] = d] OBVIOUS
  <1>2. q \in [Envs -> PageOrNull] /\ q[e] = d /\ \A f \in Envs : f # e => q[f] = pg[f]
    BY <1>1 DEF DirsApart
  <1> QED BY <1>1, <1>2 DEF DirsApart

\* The part of a step that is not about memory.
LEMMA EnvStep ==
  ASSUME PmapInv, Next
  PROVE  DirsApart(env_pgdir') /\ DstvaType(env_ipc_dstva')
  <1>1. PICK pg, dst : pg = env_pgdir /\ dst = env_ipc_dstva OBVIOUS
  <1>2. DirsApart(pg) /\ DstvaType(dst) BY <1>1, InvIs
  <1>3. PICK e \in Envs :
          \/ \E t \in Envs, va \in Va, w \in BOOLEAN : sys_page_alloc(e, t, va, w)
          \/ \E src, dst1 \in Envs, srcva, dstva \in Va, w \in BOOLEAN :
               sys_page_map(e, src, srcva, dst1, dstva, w)
          \/ \E t \in Envs, va \in Va : sys_page_unmap(e, t, va)
          \/ \E child \in Envs : sys_exofork(e, child)
          \/ \E t \in Envs : env_destroy(e, t)
          \/ \E va \in Va \cup {UTOP} : sys_ipc_recv(e, va)
          \/ \E t \in Envs, va \in Va \cup {UTOP}, w \in BOOLEAN :
               sys_ipc_try_send(e, t, va, w)
    BY Zenon DEF Next
  <1>4. NotReceiving \in Va \cup {UTOP, NotReceiving} OBVIOUS
  <1>5. CASE UNCHANGED <<env_pgdir, env_ipc_dstva>> BY <1>1, <1>2, <1>5
  <1>6. ASSUME NEW t \in Envs, NEW va \in Va, NEW w \in BOOLEAN, sys_page_alloc(e, t, va, w)
        PROVE  UNCHANGED <<env_pgdir, env_ipc_dstva>>
    BY <1>6 DEF sys_page_alloc
  <1>7. ASSUME NEW src \in Envs, NEW dst1 \in Envs, NEW srcva \in Va, NEW dstva \in Va,
               NEW w \in BOOLEAN, sys_page_map(e, src, srcva, dst1, dstva, w)
        PROVE  UNCHANGED <<env_pgdir, env_ipc_dstva>>
    BY <1>7 DEF sys_page_map
  <1>8. ASSUME NEW t \in Envs, NEW va \in Va, sys_page_unmap(e, t, va)
        PROVE  UNCHANGED <<env_pgdir, env_ipc_dstva>>
    BY <1>8 DEF sys_page_unmap
  <1>9. ASSUME NEW child \in Envs, sys_exofork(e, child)
        PROVE  DirsApart(env_pgdir') /\ DstvaType(env_ipc_dstva')
    <2>1. env_pgdir'[child] \in Page /\ env_pgdir'[child] \notin Dirs BY <1>9, ExoforkStep
    <2>2. PICK d : /\ env_pgdir' = [pg EXCEPT ![child] = d]
                   /\ env_ipc_dstva' = [dst EXCEPT ![child] = NotReceiving]
      BY <1>1, <1>9 DEF sys_exofork
    <2>3. env_pgdir'[child] = d BY <1>2, <2>2 DEF DirsApart
    <2>4. d \in PageOrNull /\ \A f \in Envs : pg[f] # d
      <3>1. d \in Page /\ d \notin Dirs /\ d # NULL BY <2>1, <2>3, Consts
      <3>2. \A f \in Envs : env_pgdir[f] # d BY <3>1, DirsAre
      <3> QED BY <1>1, <3>1, <3>2 DEF PageOrNull
    <2>5. DirsApart([pg EXCEPT ![child] = d]) BY <1>2, <2>4, DirSet
    <2>6. DstvaType([dst EXCEPT ![child] = NotReceiving]) BY <1>2, <1>4, DstvaSet
    <2> QED BY <2>2, <2>5, <2>6
  <1>10. ASSUME NEW t \in Envs, env_destroy(e, t)
         PROVE  DirsApart(env_pgdir') /\ DstvaType(env_ipc_dstva')
    <2>1. /\ env_pgdir' = [pg EXCEPT ![t] = NULL]
          /\ env_ipc_dstva' = [dst EXCEPT ![t] = NotReceiving]
      BY <1>1, <1>10 DEF env_destroy
    <2>2. NULL \in PageOrNull BY DEF PageOrNull
    <2>3. DirsApart([pg EXCEPT ![t] = NULL]) BY <1>2, <2>2, DirSet
    <2>4. DstvaType([dst EXCEPT ![t] = NotReceiving]) BY <1>2, <1>4, DstvaSet
    <2> QED BY <2>1, <2>3, <2>4
  <1>11. ASSUME NEW va \in Va \cup {UTOP}, sys_ipc_recv(e, va)
         PROVE  DirsApart(env_pgdir') /\ DstvaType(env_ipc_dstva')
    <2>1. env_pgdir' = pg /\ env_ipc_dstva' = [dst EXCEPT ![e] = va]
      BY <1>1, <1>11 DEF sys_ipc_recv
    <2>2. va \in Va \cup {UTOP, NotReceiving} OBVIOUS
    <2>3. DstvaType([dst EXCEPT ![e] = va]) BY <1>2, <2>2, DstvaSet
    <2> QED BY <1>2, <2>1, <2>3
  <1>12. ASSUME NEW t \in Envs, NEW va \in Va \cup {UTOP}, NEW w \in BOOLEAN,
                sys_ipc_try_send(e, t, va, w)
         PROVE  DirsApart(env_pgdir') /\ DstvaType(env_ipc_dstva')
    <2>1. /\ env_pgdir' = pg
          /\ env_ipc_dstva' = [dst EXCEPT ![t] = NotReceiving] \/ env_ipc_dstva' = dst
      BY <1>1, <1>12 DEF sys_ipc_try_send
    <2>2. DstvaType([dst EXCEPT ![t] = NotReceiving]) BY <1>2, <1>4, DstvaSet
    <2> QED BY <1>2, <2>1, <2>2
  <1> QED BY <1>3, <1>5, <1>6, <1>7, <1>8, <1>9, <1>10, <1>11, <1>12

\* The part of a step that is about memory.
LEMMA MemStep ==
  ASSUME PmapInv, NoWrap, Next
  PROVE  \E T2 : MemOK(mem', Dirs', T2, Nothing) /\ NoGain(PteOf(mem), Tables, PteOf(mem'), T2)
  <1>1. PICK e \in Envs :
          \/ \E t \in Envs, va \in Va, w \in BOOLEAN : sys_page_alloc(e, t, va, w)
          \/ \E src, dst \in Envs, srcva, dstva \in Va, w \in BOOLEAN :
               sys_page_map(e, src, srcva, dst, dstva, w)
          \/ \E t \in Envs, va \in Va : sys_page_unmap(e, t, va)
          \/ \E child \in Envs : sys_exofork(e, child)
          \/ \E t \in Envs : env_destroy(e, t)
          \/ \E va \in Va \cup {UTOP} : sys_ipc_recv(e, va)
          \/ \E t \in Envs, va \in Va \cup {UTOP}, w \in BOOLEAN :
               sys_ipc_try_send(e, t, va, w)
    BY Zenon DEF Next
  <1>2. CASE \E t \in Envs, va \in Va, w \in BOOLEAN : sys_page_alloc(e, t, va, w)
    BY <1>2, PageAllocStep
  <1>3. CASE \E src, dst \in Envs, srcva, dstva \in Va, w \in BOOLEAN :
               sys_page_map(e, src, srcva, dst, dstva, w)
    BY <1>3, PageMapStep
  <1>4. CASE \E t \in Envs, va \in Va : sys_page_unmap(e, t, va) BY <1>4, PageUnmapStep
  <1>5. CASE \E child \in Envs : sys_exofork(e, child) BY <1>5, ExoforkStep
  <1>6. CASE \E t \in Envs : env_destroy(e, t) BY <1>6, DestroyStep
  <1>7. CASE \E va \in Va \cup {UTOP} : sys_ipc_recv(e, va)
    <2>1. UNCHANGED <<mem, env_pgdir>> BY <1>7 DEF sys_ipc_recv
    <2> QED BY <2>1, RecvStep
  <1>8. CASE \E t \in Envs, va \in Va \cup {UTOP}, w \in BOOLEAN : sys_ipc_try_send(e, t, va, w)
    BY <1>8, TrySendStep
  <1> QED BY <1>1, <1>2, <1>3, <1>4, <1>5, <1>6, <1>7, <1>8

LEMMA InvStep ==
  ASSUME PmapInv, NoWrap, [Next]_vars
  PROVE  PmapInv' /\ NoGain(PteOf(mem), Tables, PteOf(mem'), Tables')
  <1>1. \E T2 : MemOK(mem', Dirs', T2, Nothing) /\ NoGain(PteOf(mem), Tables, PteOf(mem'), T2)
    <2>1. CASE Next BY <2>1, MemStep
    <2>2. CASE UNCHANGED vars
      <3>1. UNCHANGED <<mem, env_pgdir>> BY <2>2 DEF vars
      <3> QED BY <3>1, RecvStep
    <2> QED BY <2>1, <2>2
  <1>2. DirsApart(env_pgdir') /\ DstvaType(env_ipc_dstva')
    <2>1. CASE Next BY <2>1, EnvStep
    <2>2. CASE UNCHANGED vars
      <3>1. env_pgdir' = env_pgdir /\ env_ipc_dstva' = env_ipc_dstva BY <2>2 DEF vars
      <3> QED BY <3>1, InvIs
    <2> QED BY <2>1, <2>2
  <1>3. PICK r, D2, S, T2 :
          /\ r = mem' /\ D2 = Dirs' /\ S = Tables'
          /\ MemOK(r, D2, T2, Nothing) /\ NoGain(PteOf(mem), Tables, PteOf(r), T2)
    BY <1>1
  <1>4. T2 = TablesOf(PdeOf(r), D2) BY <1>3, TablesAre
  <1>5. Tables' = TablesOf(PdeOf(mem'), Dirs')
    BY DEF Tables, TableSlots, TablesOf, PdeOf
  <1>6. S = T2 BY <1>3, <1>4, <1>5
  <1>7. PmapInv' <=> /\ MemOK(mem', Dirs', Tables', Nothing) /\ DirsApart(env_pgdir')
                     /\ DstvaType(env_ipc_dstva')
    BY DEF PmapInv, DirsApart, DstvaType
  <1> QED BY <1>2, <1>3, <1>6, <1>7

\* i386_init creates the first environment.
LEMMA InvInit ==
  ASSUME Init PROVE PmapInv
  <1>1. PICK list, new :
          /\ list \in SetToSeqs(Page) /\ new = env_create(BootMem(list)) /\ mem = new.m
          /\ env_pgdir = [e \in Envs |-> IF e = 1 THEN new.pgdir ELSE NULL]
          /\ env_ipc_dstva = [e \in Envs |-> NotReceiving]
    BY DEF Init
  <1>2. PICK d, T2 : new.pgdir = d /\ d \in Page /\ MemOK(new.m, Plus(Nothing, d), T2, Nothing)
    BY <1>1, CreateKeeps
  <1>3. 1 \in Envs BY Consts DEF Envs
  <1>4. d # NULL BY <1>2, Consts
  <1>5. \A e \in Envs : env_pgdir[e] = IF e = 1 THEN d ELSE NULL BY <1>1, <1>2
  <1>6. Dirs = Plus(Nothing, d)
    <2>1. \A p : p \in Dirs <=> p = d BY <1>3, <1>4, <1>5, DirsAre
    <2> QED BY <2>1 DEF Plus, Nothing
  <1>7. PICK m, D, S : m = mem /\ D = Dirs /\ S = Tables OBVIOUS
  <1>8. MemOK(m, D, T2, Nothing) BY <1>1, <1>2, <1>6, <1>7
  <1>9. S = T2 BY <1>7, <1>8, TablesAre, TablesState
  <1>10. DirsApart(env_pgdir)
    <2>1. env_pgdir \in [Envs -> PageOrNull] BY <1>1, <1>2 DEF PageOrNull
    <2> QED BY <1>5, <2>1 DEF DirsApart
  <1>11. DstvaType(env_ipc_dstva) BY <1>1 DEF DstvaType
  <1> QED BY <1>7, <1>8, <1>9, <1>10, <1>11, InvIs

-----------------------------------------------------------------------------
(***************************************************************************)
(* The theorems                                                            *)
(***************************************************************************)

\* As long as no counter is about to wrap around, the memory is in order after every
\* system call: the tree of directories and tables, the entries, the free list and the
\* counters agree, and no call, completed, refused or undone for lack of memory,
\* leaves a page on its own.
THEOREM PmapInvariant == Spec /\ []NoWrap => []PmapInv
  <1>1. Init => PmapInv BY InvInit
  <1>2. PmapInv /\ NoWrap /\ [Next]_vars => PmapInv' BY InvStep
  <1> QED BY <1>1, <1>2, PTL DEF Spec

\* pp_ref of every page counts the Envs, directory entries and table entries that point
\* to it, whatever sequence of page_insert, page_remove, env_free and failures made them.
THEOREM PmapRefCountsExact == Spec /\ []NoWrap => []RefCountsExact
  <1>1. PmapInv => RefCountsExact BY CountsExact
  <1> QED BY <1>1, PmapInvariant, PTL

\* A page is on the free list, once, exactly when nothing points to it: page_alloc hands
\* out no page in use, no failing call leaks one, and page_free never panics.
THEOREM PmapFreeIffUnused == Spec /\ []NoWrap => []FreeIffUnused
  <1>1. PmapInv => FreeIffUnused BY FreeExact
  <1> QED BY <1>1, PmapInvariant, PTL

\* A page directory or page table is in one place of one address space and never mapped
\* as user memory, though pgdir_walk and page_alloc reuse pages that were.
THEOREM PmapTablesPrivate == Spec /\ []NoWrap => []TablesPrivate
  <1>1. PmapInv => TablesPrivate BY PrivateExact
  <1> QED BY <1>1, PmapInvariant, PTL

\* The pages that are writable somewhere, and those that are mapped, by the entries.
WritableOf(pte, T) ==
    {pte[s[1]][s[2]].pp : s \in {u \in {v \in T \X Ptx : pte[v[1]][v[2]] # NoPte} :
                                   pte[u[1]][u[2]].w}}
MappedPages(pte, T) == {pte[s[1]][s[2]].pp : s \in {v \in T \X Ptx : pte[v[1]][v[2]] # NoPte}}

LEMMA WritableIff ==
  ASSUME NEW pte, NEW T, NEW p
  PROVE  /\ p \in WritableOf(pte, T) <=> \E f \in Mapped(pte, T) : f.w /\ f.pp = p
         /\ p \in MappedPages(pte, T) <=> \E f \in Mapped(pte, T) : f.pp = p
  BY DEF WritableOf, MappedPages, Mapped

LEMMA NoGainWritable ==
  ASSUME NEW pte, NEW T, NEW pte2, NEW T2, NoGain(pte, T, pte2, T2),
         NEW p \in MappedPages(pte, T), p \notin WritableOf(pte, T)
  PROVE  p \notin WritableOf(pte2, T2)
  <1> SUFFICES ASSUME p \in WritableOf(pte2, T2) PROVE FALSE OBVIOUS
  <1>1. PICK f \in Mapped(pte2, T2) : f.w /\ f.pp = p BY WritableIff
  <1>2. PICK h \in Mapped(pte, T) : h.pp = p BY WritableIff
  <1>3. \A g \in Mapped(pte, T) : ~(g.w /\ g.pp = p) BY WritableIff
  <1> QED BY <1>1, <1>2, <1>3 DEF NoGain

\* No chain of sys_page_map and sys_ipc_try_send makes a page writable that is mapped
\* and writable nowhere.
THEOREM PmapNoWriteEscalation == Spec /\ []NoWrap => NoWriteEscalation
  <1>1. ASSUME PmapInv, NoWrap, [Next]_vars
        PROVE  \A p \in UserPages : p \notin Writable => p \notin Writable'
    <2>1. NoGain(PteOf(mem), Tables, PteOf(mem'), Tables') BY <1>1, InvStep
    <2>2. /\ UserPages = MappedPages(PteOf(mem), Tables)
          /\ Writable = WritableOf(PteOf(mem), Tables)
          /\ Writable' = WritableOf(PteOf(mem'), Tables')
      BY DEF UserPages, Writable, Entries, MappedPages, WritableOf, PteOf
    <2> QED BY <2>1, <2>2, NoGainWritable
  <1>2. PmapInv /\ NoWrap /\ [Next]_vars
        => [\A p \in UserPages : p \notin Writable => p \notin Writable']_vars
    BY <1>1
  <1> QED BY <1>2, PmapInvariant, PTL DEF Spec, NoWriteEscalation

=============================================================================
