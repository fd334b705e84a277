-------------------------------- MODULE Pmap --------------------------------
(***************************************************************************)
(* Physical pages and address spaces of JOS: the page allocator and page   *)
(* tables of kern/pmap.c, the memory system calls and the page transfer of *)
(* sys_ipc_try_send in kern/syscall.c, and the address space part of       *)
(* env_alloc and env_free in kern/env.c.                                   *)
(*                                                                         *)
(* The kernel runs these under the big kernel lock, so each system call is *)
(* one step; the functions of pmap.c are operators from a memory m to the  *)
(* memory they leave.  A physical page is used as a page directory (pde),  *)
(* as a page table (pte) or as user data; the same page may be each of     *)
(* them in turn, so what it held before is still there when it is reused   *)
(* unless the code clears it.                                              *)
(***************************************************************************)
EXTENDS Integers, Sequences, FiniteSets, SequencesExt

CONSTANTS
    Page,       \* the physical pages that page_init finds free
    NULL,       \* no page, no environment
    NENV,       \* environment slots
    NPDE,       \* page directory entries below UTOP
    NPTE,       \* entries of a page table
    RefMod      \* pp_ref counts modulo this (2^16 in the code)

ASSUME PmapAssumption ==
    /\ IsFiniteSet(Page) /\ Cardinality(Page) >= 5    \* enough for env_create
    /\ NULL \notin Page
    /\ NENV \in Nat \ {0}
    /\ NPDE \in Nat \ {0}
    /\ NPTE \in Nat \ {0}
    /\ RefMod \in Nat /\ RefMod >= 2

Envs == 1 .. NENV
Pdx == 1 .. NPDE
Ptx == 1 .. NPTE

\* A user page address: directory index and table index.  An address inside
\* the page stands for the page, as in PDX and PTX.
Va == Pdx \X Ptx
PDX(va) == va[1]
PTX(va) == va[2]

\* Any address from UTOP up, and the mark of an environment that does not
\* receive.
UTOP == <<NPDE + 1, 1>>
NotReceiving == <<0, 0>>

\* A page table entry [pp, w] maps page pp, writable or not; PTE_P and PTE_U are set in
\* every entry below UTOP that is not zero, and PTE_AVAIL does not matter here.
NoPte == [pp |-> NULL, w |-> FALSE]

VARIABLES
    mem,            \* the memory, see Init for its fields
    env_pgdir,      \* page directory of each environment, NULL for a free slot
    env_parent,     \* the environment that created this one, while both live
    env_ipc_dstva   \* where a receiver wants a page, UTOP if it wants none,
                    \* NotReceiving if env_ipc_recving is not set

vars == <<mem, env_pgdir, env_parent, env_ipc_dstva>>

-----------------------------------------------------------------------------
(***************************************************************************)
(* kern/pmap.c                                                             *)
(***************************************************************************)

ClearPde == [x \in Pdx |-> NULL]
ClearPte == [t \in Ptx |-> NoPte]

\* The head of the free list, cleared if asked for; pp is NULL without memory.
page_alloc(m, zero) ==
    LET pp == Head(m.page_free_list)
        m1 == [m EXCEPT !.page_free_list = Tail(@)]
    IN  IF m.page_free_list = << >> THEN [pp |-> NULL, m |-> m]
        ELSE IF zero
        THEN [pp |-> pp, m |-> [m1 EXCEPT !.pde[pp] = ClearPde, !.pte[pp] = ClearPte]]
        ELSE [pp |-> pp, m |-> m1]

\* pp_link is set for every page on the list but the last.
Linked(m, pp) ==
    \E i \in 1 .. Len(m.page_free_list) - 1 : m.page_free_list[i] = pp

page_free(m, pp) ==
    IF Linked(m, pp) \/ m.pp_ref[pp] # 0
    THEN [m EXCEPT !.panic = TRUE]
    ELSE [m EXCEPT !.page_free_list = <<pp>> \o @]

incref(m, pp) == [m EXCEPT !.pp_ref[pp] = (@ + 1) % RefMod]

page_decref(m, pp) ==
    LET m1 == [m EXCEPT !.pp_ref[pp] = (@ - 1) % RefMod]
    IN  IF m1.pp_ref[pp] = 0 THEN page_free(m1, pp) ELSE m1

\* pgdir_walk with create: the memory after it.  The entry exists then unless
\* there was no page for the page table.
pgdir_walk_create(m, pgdir, va) ==
    LET a == page_alloc(m, TRUE)
    IN  IF m.pde[pgdir][PDX(va)] # NULL \/ a.pp = NULL THEN m
        ELSE [incref(a.m, a.pp) EXCEPT !.pde[pgdir][PDX(va)] = a.pp]

\* pgdir_walk without create: the page table that holds the entry, or NULL.
pgdir_walk(m, pgdir, va) == m.pde[pgdir][PDX(va)]

\* The entry at va, NoPte if nothing is mapped there.
page_lookup(m, pgdir, va) ==
    LET pt == pgdir_walk(m, pgdir, va)
    IN  IF pt = NULL THEN NoPte ELSE m.pte[pt][PTX(va)]

\* Unmap what is at va.
page_remove(m, pgdir, va) ==
    LET entry == page_lookup(m, pgdir, va)
        m1    == page_decref(m, entry.pp)
    IN  IF entry = NoPte THEN m
        ELSE [m1 EXCEPT !.pte[pgdir_walk(m1, pgdir, va)][PTX(va)] = NoPte]

\* Mutant: the page that page_remove has just freed is not taken back.
MutInsertFreed(m, pgdir, pp, va, w) ==
    LET walked  == pgdir_walk_create(m, pgdir, va)
        pt      == pgdir_walk(walked, pgdir, va)
        removed == page_remove(walked, pgdir, va)
    IN  IF pt = NULL THEN [ok |-> FALSE, m |-> walked]
        ELSE [ok |-> TRUE,
              m  |-> [incref(removed, pp) EXCEPT !.pte[pt][PTX(va)] = [pp |-> pp, w |-> w]]]

\* Map pp at va, unmapping what was there.  When pp itself was there and had no
\* other mapping, page_remove has put it at the head of the free list, from
\* where it is allocated again.
page_insert(m, pgdir, pp, va, w) ==
    LET walked  == pgdir_walk_create(m, pgdir, va)
        pt      == pgdir_walk(walked, pgdir, va)
        removed == page_remove(walked, pgdir, va)
        again   == removed.page_free_list # << >> /\ Head(removed.page_free_list) = pp
        m1      == IF again THEN page_alloc(removed, FALSE).m ELSE removed
    IN  IF pt = NULL THEN [ok |-> FALSE, m |-> walked]
        ELSE [ok |-> TRUE,
              m  |-> [incref(m1, pp) EXCEPT !.pte[pt][PTX(va)] = [pp |-> pp, w |-> w]]]

-----------------------------------------------------------------------------
(***************************************************************************)
(* kern/env.c                                                              *)
(***************************************************************************)

\* A page directory for a new environment; pp is NULL without memory.
env_setup_vm(m) ==
    LET a == page_alloc(m, TRUE)
    IN  IF a.pp = NULL THEN a
        ELSE [pp |-> a.pp, m |-> incref(a.m, a.pp)]

\* The two loops of env_free, as functions of the number of turns taken: all
\* entries of one page table are unmapped, and the tables of all directory
\* entries given back.
Unmapped(m, pgdir, x) ==
    LET after[t \in 0 .. NPTE] ==
          IF t = 0 THEN m ELSE page_remove(after[t - 1], pgdir, <<x, t>>)
    IN  after[NPTE]

\* Unmap the table of one directory entry and give the table back.
FreePageTable(m, pgdir, x) ==
    LET pt == m.pde[pgdir][x]
        m1 == Unmapped(m, pgdir, x)
    IN  IF pt = NULL THEN m
        ELSE page_decref([m1 EXCEPT !.pde[pgdir][x] = NULL], pt)

TablesFreed(m, pgdir) ==
    LET after[x \in 0 .. NPDE] ==
          IF x = 0 THEN m ELSE FreePageTable(after[x - 1], pgdir, x)
    IN  after[NPDE]

\* Mutant: the pages are unmapped but the page tables are not given back.
MutEnvFreeKeepsTables(m, pgdir) ==
    LET after[x \in 0 .. NPDE] ==
          IF x = 0 THEN m ELSE Unmapped(after[x - 1], pgdir, x)
    IN  page_decref(after[NPDE], pgdir)

\* The memory after env_free of the environment with this page directory.
env_free(m, pgdir) == page_decref(TablesFreed(m, pgdir), pgdir)

-----------------------------------------------------------------------------
(***************************************************************************)
(* page_init links all free pages, in an order that means nothing to the   *)
(* rest of the kernel; i386_init then creates the first environment.       *)
(***************************************************************************)
BootMem(list) ==
    [page_free_list |-> list,
     pp_ref |-> [p \in Page |-> 0],
     pde    |-> [p \in Page |-> ClearPde],
     pte    |-> [p \in Page |-> ClearPte],
     panic  |-> FALSE]      \* page_free panicked

\* One page of region_alloc, which panics without memory.
region_alloc(m, pgdir, va) ==
    LET a == page_alloc(m, FALSE)
    IN  page_insert(a.m, pgdir, a.pp, va, TRUE).m

\* The image of the program at its first address, its stack at the last one.
load_icode(m, pgdir) ==
    region_alloc(region_alloc(m, pgdir, <<1, 1>>), pgdir, <<NPDE, NPTE>>)

env_create(m) ==
    LET s == env_setup_vm(m)
    IN  [pgdir |-> s.pp, m |-> load_icode(s.m, s.pp)]

Init ==
    \E list \in SetToSeqs(Page) :
        LET new == env_create(BootMem(list))
        IN  /\ mem = new.m
            /\ env_pgdir = [e \in Envs |-> IF e = 1 THEN new.pgdir ELSE NULL]
            /\ env_parent = [e \in Envs |-> NULL]
            /\ env_ipc_dstva = [e \in Envs |-> NotReceiving]

-----------------------------------------------------------------------------
(***************************************************************************)
(* kern/syscall.c                                                          *)
(***************************************************************************)

Alive(e) == env_pgdir[e] # NULL

\* e makes a system call: it is not blocked in sys_ipc_recv.
Calls(e) == Alive(e) /\ env_ipc_dstva[e] = NotReceiving

\* envid2env with checkperm accepts t.
MayChange(e, t) == Alive(t) /\ (t = e \/ env_parent[t] = e)

\* Map a new page at va of t.  perm is one of those the comment of the call
\* allows, so that only PTE_W varies.  A call refused by envid2env, for its va
\* or perm, or for lack of memory for the page changes nothing; if there is no
\* memory for the page table, the page is given back.
sys_page_alloc(e, t, va, w) ==
    LET a == page_alloc(mem, FALSE)
        i == page_insert(a.m, env_pgdir[t], a.pp, va, w)
    IN  /\ Calls(e)
        /\ MayChange(e, t)
        /\ a.pp # NULL
        /\ mem' = IF i.ok THEN i.m ELSE page_free(i.m, a.pp)
        /\ UNCHANGED <<env_pgdir, env_parent, env_ipc_dstva>>

\* Mutant: a read-only page may be mapped writable.
MutMapEscalates(e, src, srcva, dst, dstva, w) ==
    LET entry == page_lookup(mem, env_pgdir[src], srcva)
    IN  /\ Calls(e)
        /\ MayChange(e, src)
        /\ MayChange(e, dst)
        /\ entry # NoPte
        /\ mem' = page_insert(mem, env_pgdir[dst], entry.pp, dstva, w).m
        /\ UNCHANGED <<env_pgdir, env_parent, env_ipc_dstva>>

\* Map the page at srcva of src also at dstva of dst, writable only if it is
\* writable at srcva.
sys_page_map(e, src, srcva, dst, dstva, w) ==
    LET entry == page_lookup(mem, env_pgdir[src], srcva)
    IN  /\ Calls(e)
        /\ MayChange(e, src)
        /\ MayChange(e, dst)
        /\ entry # NoPte
        /\ w => entry.w
        /\ mem' = page_insert(mem, env_pgdir[dst], entry.pp, dstva, w).m
        /\ UNCHANGED <<env_pgdir, env_parent, env_ipc_dstva>>

sys_page_unmap(e, t, va) ==
    /\ Calls(e)
    /\ MayChange(e, t)
    /\ mem' = page_remove(mem, env_pgdir[t], va)
    /\ UNCHANGED <<env_pgdir, env_parent, env_ipc_dstva>>

\* A new environment with nothing mapped below UTOP.
sys_exofork(e, child) ==
    LET s == env_setup_vm(mem)
    IN  /\ Calls(e)
        /\ ~Alive(child)
        /\ s.pp # NULL
        /\ mem' = s.m
        /\ env_pgdir' = [env_pgdir EXCEPT ![child] = s.pp]
        /\ env_parent' = [env_parent EXCEPT ![child] = e]
        /\ env_ipc_dstva' = [env_ipc_dstva EXCEPT ![child] = NotReceiving]

\* Destruction of t, by itself, by its parent or after a fault.
env_destroy(e, t) ==
    /\ Calls(e)
    /\ MayChange(e, t)
    /\ mem' = env_free(mem, env_pgdir[t])
    /\ env_pgdir' = [env_pgdir EXCEPT ![t] = NULL]
    /\ env_parent' = [c \in Envs |-> IF c = t \/ env_parent[c] = t THEN NULL ELSE env_parent[c]]
    /\ env_ipc_dstva' = [env_ipc_dstva EXCEPT ![t] = NotReceiving]

sys_ipc_recv(e, dstva) ==
    /\ Calls(e)
    /\ env_ipc_dstva' = [env_ipc_dstva EXCEPT ![e] = dstva]
    /\ UNCHANGED <<mem, env_pgdir, env_parent>>

\* A page moves only when both sides name an address below UTOP.  A send that
\* fails (srcva unmapped or read-only, or no memory for the receiver's page
\* table) leaves the receiver waiting.
sys_ipc_try_send(e, t, srcva, w) ==
    LET page  == srcva # UTOP /\ env_ipc_dstva[t] # UTOP
        entry == page_lookup(mem, env_pgdir[e], srcva)
        i     == page_insert(mem, env_pgdir[t], entry.pp, env_ipc_dstva[t], w)
    IN  /\ Calls(e)
        /\ Alive(t)
        /\ env_ipc_dstva[t] # NotReceiving
        /\ page => entry # NoPte /\ (w => entry.w)
        /\ mem' = IF page THEN i.m ELSE mem
        /\ env_ipc_dstva' = IF page => i.ok
                            THEN [env_ipc_dstva EXCEPT ![t] = NotReceiving]
                            ELSE env_ipc_dstva
        /\ UNCHANGED <<env_pgdir, env_parent>>

Next ==
    \E e \in Envs :
        \/ \E t \in Envs, va \in Va, w \in BOOLEAN : sys_page_alloc(e, t, va, w)
        \/ \E src, dst \in Envs, srcva, dstva \in Va, w \in BOOLEAN :
             sys_page_map(e, src, srcva, dst, dstva, w)
        \/ \E t \in Envs, va \in Va : sys_page_unmap(e, t, va)
        \/ \E child \in Envs : sys_exofork(e, child)
        \/ \E t \in Envs : env_destroy(e, t)
        \/ \E va \in Va \cup {UTOP} : sys_ipc_recv(e, va)
        \/ \E t \in Envs, va \in Va \cup {UTOP}, w \in BOOLEAN :
             sys_ipc_try_send(e, t, va, w)

Spec == Init /\ [][Next]_vars

-----------------------------------------------------------------------------
(***************************************************************************)
(* Properties                                                              *)
(***************************************************************************)

\* The page directories in use, the page tables they point to, and the
\* entries of these tables, as <<page table, index>>.
Dirs == {env_pgdir[e] : e \in {f \in Envs : Alive(f)}}
TableSlots == {s \in Dirs \X Pdx : mem.pde[s[1]][s[2]] # NULL}
Tables == {mem.pde[s[1]][s[2]] : s \in TableSlots}
Entries == {s \in Tables \X Ptx : mem.pte[s[1]][s[2]] # NoPte}
UserPages == {mem.pte[s[1]][s[2]].pp : s \in Entries}
Free == Range(mem.page_free_list)

\* The number of pointers to page p: from an Env, a directory entry or a table
\* entry.
Pointers(p) ==
    Cardinality({e \in Envs : env_pgdir[e] = p})
    + Cardinality({s \in TableSlots : mem.pde[s[1]][s[2]] = p})
    + Cardinality({s \in Entries : mem.pte[s[1]][s[2]].pp = p})

\* pp_ref of every page is the number of pointers to it, through any sequence
\* of mapping, remapping, sharing, transfer, failure and destruction.
RefCountsExact == \A p \in Page : mem.pp_ref[p] = Pointers(p)

\* A page is on the free list, once, exactly when nothing points to it: no page
\* in use is handed out again, no failing call leaks one, and the double-free
\* checks of page_free never fire.
FreeIffUnused ==
    /\ Free = Page \ (Dirs \cup Tables \cup UserPages)
    /\ Len(mem.page_free_list) = Cardinality(Free)
    /\ ~mem.panic

\* Page directories and page tables belong to one address space and are never
\* mapped as user memory: no environment can edit another's mappings.
TablesPrivate ==
    /\ \A s, u \in TableSlots : mem.pde[s[1]][s[2]] = mem.pde[u[1]][u[2]] => s = u
    /\ Dirs \cap Tables = {}
    /\ (Dirs \cup Tables) \cap UserPages = {}

Writable == {mem.pte[s[1]][s[2]].pp : s \in {u \in Entries : mem.pte[u[1]][u[2]].w}}

\* A page that is mapped, but writable nowhere, stays read-only for as long as
\* it is mapped: no chain of sys_page_map and page transfers between
\* environments gains write access.
NoWriteEscalation ==
    [][\A p \in UserPages : p \notin Writable => p \notin Writable']_vars

=============================================================================
