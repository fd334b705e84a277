------------------------------- MODULE MemInit -------------------------------
(***************************************************************************)
(* How memory is laid out before the first environment runs: the segments  *)
(* that boot/main.c loads, the entry page tables of kern/entrypgdir.c, and *)
(* mem_init of kern/pmap.c with its boot allocator, its first free list    *)
(* and the fixed mappings.  Addresses are page numbers unless they are     *)
(* called bytes; a mapping is a record of its first virtual page, its      *)
(* length, its first physical page and who may use it.                     *)
(***************************************************************************)
EXTENDS Integers, FiniteSets, FiniteSetsExt, SequencesExt

PGSIZE     == 4096
PTSIZE     == 1024
KERNBASE   == 983040        \* 0xF0000000
KSTACKTOP  == KERNBASE
KSTKSIZE   == 8
KSTKGAP    == 8
MMIOLIM    == KSTACKTOP - PTSIZE
ULIM       == MMIOLIM - PTSIZE
UVPT       == ULIM - PTSIZE
UPAGES     == UVPT - PTSIZE
UENVS      == UPAGES - PTSIZE
IOPHYSMEM  == 160
EXTPHYSMEM == 256
MPENTRY    == 7             \* the page of MPENTRY_PADDR
NCPU       == 8
NENV       == 1024
SizeofEnv  == 124
SizeofPageInfo == 8

PDX(va) == va \div PTSIZE

\* ROUNDUP to pages.
Pages(bytes) == (bytes + PGSIZE - 1) \div PGSIZE

(***************************************************************************)
(* entry_pgdir: one table, at virtual 0 and at KERNBASE.                   *)
(***************************************************************************)
entry_pgtable == [k \in 0 .. PTSIZE - 1 |-> k]

entry_pgdir == [d \in {0, PDX(KERNBASE)} |-> entry_pgtable]

\* The kernel reaches a physical page through the entry tables.
EntryReaches(pa) ==
    LET va == KERNBASE + pa
    IN  PDX(va) \in DOMAIN entry_pgdir /\ entry_pgdir[PDX(va)][va % PTSIZE] = pa

(***************************************************************************)
(* mem_init, for a machine: its base and extended memory in kilobytes, and *)
(* the page where the kernel image ends.                                   *)
(***************************************************************************)
npages_basemem(mc) == mc.base \div 4

\* i386_detect_memory
npages(mc) ==
    IF mc.ext \div 4 > 0 THEN EXTPHYSMEM + mc.ext \div 4 ELSE npages_basemem(mc)

\* boot_alloc three times: the directory, pages[] and envs[].
kern_pgdir(mc) == mc.end
pages(mc)      == kern_pgdir(mc) + Pages(PGSIZE)
envs(mc)       == pages(mc) + Pages(npages(mc) * SizeofPageInfo)
nextfree(mc)   == envs(mc) + Pages(NENV * SizeofEnv)

\* page_init starts the free extended memory at envs + NENV*sizeof(struct
\* Env), which as pointer arithmetic is sizeof(struct Env) times too far.
low(mc) == envs(mc) + Pages(NENV * SizeofEnv * SizeofEnv)

FreeBase(mc) == (1 .. npages_basemem(mc) - 1) \ {MPENTRY}

FreeExt(mc) == low(mc) .. npages(mc) - 1

\* check_page_free_list(1) moves the pages that the entry tables map to the
\* front; each part stays in the order of the list, highest page first.
Highest(n, S) ==
    {p \in S : Cardinality({q \in S : q > p}) < n}

Low4M(S) == {p \in S : PDX(p) < 1}

\* Mutant: the list is used in the order in which page_init built it.
MutListOrder(mc, n) ==
    LET ext == Max({npages(mc) - n, low(mc)}) .. npages(mc) - 1
    IN  ext \cup Highest(n - Cardinality(ext), FreeBase(mc))

FirstFree(mc, n) ==
    LET lows == FreeBase(mc) \cup Low4M(FreeExt(mc))
        more == n - Cardinality(lows)
    IN  IF more <= 0 THEN Highest(n, lows)
        ELSE lows \cup (Max({npages(mc) - more, low(mc)}) .. npages(mc) - 1)

Map(va, n, pa, user) == [va |-> va, n |-> n, pa |-> pa, user |-> user]

\* boot_map_region for pages, envs, the boot stack and all of memory, and in
\* mem_init_mp for the stacks, the first of which takes the boot stack's
\* place.  bootstack and percpu_kstacks are somewhere in the kernel image.
Regions(mc) ==
    <<Map(UPAGES, Pages(npages(mc) * SizeofPageInfo), pages(mc), TRUE),
      Map(UENVS, Pages(NENV * SizeofEnv), envs(mc), TRUE),
      Map(KSTACKTOP - KSTKSIZE, KSTKSIZE, mc.bootstack, FALSE),
      Map(KERNBASE, 65536, 0, FALSE)>>
    \o [i \in 1 .. NCPU |->
          Map(KSTACKTOP - KSTKSIZE - (i - 1) * (KSTKSIZE + KSTKGAP), KSTKSIZE,
              mc.percpu_kstacks + (i - 1) * KSTKSIZE, FALSE)]

\* pgdir_walk allocates a table for each directory entry it meets first.
PdesOf(r) == PDX(r.va) .. PDX(r.va + r.n - 1)

EarlyTables(mc) ==
    FirstFree(mc, Cardinality(UNION {PdesOf(Regions(mc)[k]) :
                                        k \in DOMAIN Regions(mc)}))

(***************************************************************************)
(* The boot loader.  The memory is a function from byte addresses to disk  *)
(* offsets; the kernel image starts at sector 1, its header is read to     *)
(* ELFHDR first.  A segment is loaded with p_memsz bytes, in whole sectors *)
(* from the one that holds its first byte on.                              *)
(***************************************************************************)
\* Mutant: the address is not rounded down to its sector.
MutNoRounding(mem, pa, memsz, offset, SECTSIZE) ==
    LET count == (memsz + SECTSIZE - 1) \div SECTSIZE
        shift == (offset \div SECTSIZE + 1) * SECTSIZE - pa
    IN  [a \in DOMAIN mem |->
           IF a \in pa .. pa + count * SECTSIZE - 1 THEN a + shift ELSE mem[a]]

readseg(mem, pa, memsz, offset, SECTSIZE) ==
    LET first == pa - (pa % SECTSIZE)
        count == (pa + memsz - first + SECTSIZE - 1) \div SECTSIZE
        shift == (offset \div SECTSIZE + 1) * SECTSIZE - first
    IN  [a \in DOMAIN mem |->
           IF a \in first .. first + count * SECTSIZE - 1 THEN a + shift
           ELSE mem[a]]

\* img is the ELF header: whether its magic number is right, and its program
\* headers.  A bad image is not entered.
bootmain(mem, img, ELFHDR, SECTSIZE) ==
    LET hdr == readseg(mem, ELFHDR, 8 * SECTSIZE, 0, SECTSIZE)
        all == FoldLeft(LAMBDA m, ph : readseg(m, ph.pa, ph.memsz, ph.offset, SECTSIZE),
                        hdr, img.phs)
    IN  IF img.magic THEN [mem |-> all, entered |-> TRUE]
        ELSE [mem |-> hdr, entered |-> FALSE]
=============================================================================
