-------------------------------- MODULE Fork --------------------------------
(***************************************************************************)
(* Creating environments from user space: the copy-on-write fork of        *)
(* lib/fork.c with its page fault handler, set_pgfault_handler of          *)
(* lib/pgfault.c, and the eager dumbfork of user/dumbfork.c.               *)
(*                                                                         *)
(* All of it is user code: between any two of its system calls other       *)
(* environments run, and the code itself stores into pages it is about to  *)
(* share.  In particular every call pushes onto the stack, so the stack    *)
(* page must be writable (or be made so by a page fault) before the call.  *)
(* What is pushed lies below the frames that the child returns through and *)
(* has no value here; that the page is written does matter.                *)
(*                                                                         *)
(* The kernel's side is module Pmap; here a system call that needs memory  *)
(* may fail at any time, since page tables and directories take pages too. *)
(***************************************************************************)
EXTENDS Integers, Sequences, FiniteSets

CONSTANTS
    Env,        \* environment slots
    First,      \* the environment loaded by the kernel
    NPAGE,      \* physical pages for user memory
    Value,      \* what a page can hold, as far as the program can tell
    Image,      \* the value that the pages of a program have when it is loaded
    Junk,       \* what is in a page before it is first written
    NoEnv

ASSUME ForkAssumption ==
    /\ First \in Env /\ NoEnv \notin Env
    /\ Image \in Value /\ Junk \notin Value
    /\ NPAGE \in Nat /\ NPAGE >= 3

\* The user pages that fork copies, in the order of its walk over uvpt; every
\* one stands for any number of pages of its kind.  The handler pointer and
\* thisenv are in the data page.
Walk == <<"text", "data", "stack">>
Location == {Walk[i] : i \in DOMAIN Walk}

\* All pages: also the exception stack, and PFTEMP or UTEMP.
Va == Location \cup {"xstack", "temp"}

\* A page table entry: its environment and its address.
Slot == Env \X Va

\* Permission r is PTE_P|PTE_U, w has PTE_W besides and cow has PTE_COW besides.
Perm == {"none", "r", "w", "cow"}

NoFault == [va |-> "none", at |-> "none"]

VARIABLES
    program,    \* the fork that the program uses: "fork" or "dumbfork"
    pp,         \* the physical page of each entry.  Its address does not matter,
                \* and it is named by the set of entries that map it
    perm,       \* permissions of each entry
    content,    \* what the page of each entry holds
    status,     \* free, new (ENV_NOT_RUNNABLE), run, or panic: in the int3
                \* loop at the end of panic()
    parent,     \* env_parent_id
    upcall,     \* is env_pgfault_upcall set?
    handler,    \* is _pgfault_handler set?
    thisenv,
    pc,         \* the step of fork the environment is at, or "user"
    kid,        \* pid in fork: the child being built
    pos,        \* position in Walk
    fault       \* the page fault being handled, and the step of pgfault

memVars == <<pp, perm, content>>
envVars == <<status, parent, upcall>>
libVars == <<handler, thisenv>>
ctlVars == <<pc, kid, pos>>
vars == <<program, memVars, envVars, libVars, ctlVars, fault>>

-----------------------------------------------------------------------------
(***************************************************************************)
(* The system calls fork uses, as the page tables they leave.              *)
(***************************************************************************)
Unmap(page, s) == [t \in Slot |-> IF t = s THEN {} ELSE page[t] \ {s}]

PagesInUse == {pp[s] : s \in Slot} \ {{}}

\* sys_page_alloc: writable, and not zeroed.
sys_page_alloc(s) ==
    /\ Cardinality(PagesInUse) < NPAGE
    /\ pp' = [Unmap(pp, s) EXCEPT ![s] = {s}]
    /\ perm' = [perm EXCEPT ![s] = "w"]
    /\ content' = [content EXCEPT ![s] = Junk]

\* sys_page_map of the page at src also at dst.
sys_page_map(src, dst, pm) ==
    LET page == Unmap(pp, dst)
        all  == page[src] \cup {dst}
    IN  /\ pp' = [t \in Slot |-> IF t \in all THEN all ELSE page[t]]
        /\ perm' = [perm EXCEPT ![dst] = pm]
        /\ content' = [content EXCEPT ![dst] = content[src]]

sys_page_unmap(s) ==
    /\ pp' = Unmap(pp, s)
    /\ perm' = [perm EXCEPT ![s] = "none"]
    /\ content' = [content EXCEPT ![s] = Junk]

\* Write v through entry s: all that map the page see it.
Write(s, v) ==
    /\ content' = [t \in Slot |-> IF t \in pp[s] THEN v ELSE content[t]]
    /\ UNCHANGED <<pp, perm>>

\* memmove of a whole page.
memmove(dst, src) == Write(dst, content[src])

-----------------------------------------------------------------------------
Init ==
    /\ program \in {"fork", "dumbfork"}
    /\ LET loaded == {First} \X Location
       IN  /\ pp = [s \in Slot |-> IF s \in loaded THEN {s} ELSE {}]
           /\ perm = [s \in Slot |-> IF s \notin loaded THEN "none"
                                     ELSE IF s[2] = "text" THEN "r" ELSE "w"]
           /\ content = [s \in Slot |-> IF s \in loaded THEN Image ELSE Junk]
    /\ status = [e \in Env |-> IF e = First THEN "run" ELSE "free"]
    /\ parent = [e \in Env |-> NoEnv]
    /\ upcall = [e \in Env |-> FALSE]
    /\ handler = [e \in Env |-> FALSE]
    /\ thisenv = [e \in Env |-> e]
    /\ pc = [e \in Env |-> "user"]
    /\ kid = [e \in Env |-> NoEnv]
    /\ pos = [e \in Env |-> 1]
    /\ fault = [e \in Env |-> NoFault]

-----------------------------------------------------------------------------
(***************************************************************************)
(* Running, and page faults.                                               *)
(***************************************************************************)
Writable(e, va) == perm[<<e, va>>] = "w"

\* The environment runs, and no page fault is being handled.
Running(e) == status[e] = "run" /\ fault[e] = NoFault

\* The pages that the code at pc[e] stores to: its calls push on the stack,
\* set_pgfault_handler stores _pgfault_handler and the child stores thisenv.
Touches(e) ==
    CASE pc[e] = "user"              -> {}
      [] pc[e] \in {"set", "child"}  -> {"stack", "data"}
      [] OTHER                       -> {"stack"}

\* e is at step s of fork and its stores succeed.
At(e, s) == Running(e) /\ pc[e] = s /\ \A va \in Touches(e) : Writable(e, va)

Goto(e, s) == pc' = [pc EXCEPT ![e] = s]

\* panic() in user space: the environment does nothing any more.
panic(e) ==
    /\ status' = [status EXCEPT ![e] = "panic"]
    /\ UNCHANGED <<program, memVars, parent, upcall, libVars, ctlVars, fault>>

\* The kernel destroys e, at its own request or because of a fault.
Destroy(e) ==
    /\ pp' = [s \in Slot |-> IF s[1] = e THEN {} ELSE pp[s] \ ({e} \X Va)]
    /\ perm' = [s \in Slot |-> IF s[1] = e THEN "none" ELSE perm[s]]
    /\ content' = [s \in Slot |-> IF s[1] = e THEN Junk ELSE content[s]]
    /\ status' = [status EXCEPT ![e] = "free"]
    /\ parent' = [parent EXCEPT ![e] = NoEnv]
    /\ upcall' = [upcall EXCEPT ![e] = FALSE]
    /\ handler' = [handler EXCEPT ![e] = FALSE]
    /\ thisenv' = [thisenv EXCEPT ![e] = e]
    /\ pc' = [pc EXCEPT ![e] = "user"]
    /\ kid' = [kid EXCEPT ![e] = NoEnv]
    /\ pos' = [pos EXCEPT ![e] = 1]
    /\ fault' = [fault EXCEPT ![e] = NoFault]
    /\ UNCHANGED program

exit(e) == Running(e) /\ pc[e] = "user" /\ Destroy(e)

\* The program stores v into one of its pages.
Store(e, va, v) ==
    /\ Running(e)
    /\ pc[e] = "user"
    /\ Writable(e, va)
    /\ Write(<<e, va>>, v)
    /\ UNCHANGED <<program, envVars, libVars, ctlVars, fault>>

\* A store into a page that is not writable: without an upcall and an
\* exception stack the kernel destroys the environment, otherwise pgfault
\* starts; it panics if the page is not copy-on-write.
PageFault(e, va) ==
    /\ Running(e)
    /\ va \in IF pc[e] = "user" THEN Location ELSE Touches(e)
    /\ ~Writable(e, va)
    /\ \/ ~(upcall[e] /\ Writable(e, "xstack")) /\ Destroy(e)
       \/ /\ upcall[e] /\ Writable(e, "xstack")
          /\ perm[<<e, va>>] # "cow"
          /\ panic(e)
       \/ /\ upcall[e] /\ Writable(e, "xstack")
          /\ perm[<<e, va>>] = "cow"
          /\ fault' = [fault EXCEPT ![e] = [va |-> va, at |-> "alloc"]]
          /\ UNCHANGED <<program, memVars, envVars, libVars, ctlVars>>

\* The rest of pgfault runs on the exception stack.  Its results are ignored:
\* without a page at PFTEMP, memmove faults again and that fault panics.
Handling(e, s) == status[e] = "run" /\ fault[e].at = s

pgfault_alloc(e) ==
    /\ Handling(e, "alloc")
    /\ \/ /\ sys_page_alloc(<<e, "temp">>)
          /\ fault' = [fault EXCEPT ![e].at = "copy"]
          /\ UNCHANGED <<program, envVars, libVars, ctlVars>>
       \/ panic(e)

pgfault_copy(e) ==
    /\ Handling(e, "copy")
    /\ memmove(<<e, "temp">>, <<e, fault[e].va>>)
    /\ fault' = [fault EXCEPT ![e].at = "map"]
    /\ UNCHANGED <<program, envVars, libVars, ctlVars>>

\* Mutant: the private copy is mapped copy-on-write again.
MutFaultKeepsCow(e) ==
    /\ Handling(e, "map")
    /\ sys_page_map(<<e, "temp">>, <<e, fault[e].va>>, "cow")
    /\ fault' = [fault EXCEPT ![e].at = "unmap"]
    /\ UNCHANGED <<program, envVars, libVars, ctlVars>>

pgfault_map(e) ==
    /\ Handling(e, "map")
    /\ sys_page_map(<<e, "temp">>, <<e, fault[e].va>>, "w")
    /\ fault' = [fault EXCEPT ![e].at = "unmap"]
    /\ UNCHANGED <<program, envVars, libVars, ctlVars>>

pgfault_unmap(e) ==
    /\ Handling(e, "unmap")
    /\ sys_page_unmap(<<e, "temp">>)
    /\ fault' = [fault EXCEPT ![e] = NoFault]
    /\ UNCHANGED <<program, envVars, libVars, ctlVars>>

-----------------------------------------------------------------------------
(***************************************************************************)
(* fork and dumbfork, up to sys_exofork.                                   *)
(***************************************************************************)

\* The program calls fork or dumbfork.  The first call of fork allocates the
\* exception stack and sets the upcall; without memory for it
\* set_pgfault_handler returns, and fork goes on all the same.
CallFork(e) ==
    /\ Running(e)
    /\ pc[e] = "user"
    /\ Writable(e, "stack")
    /\ \/ /\ program = "dumbfork" \/ handler[e]
          /\ Goto(e, IF program = "fork" THEN "set" ELSE "exofork")
          /\ UNCHANGED <<memVars, upcall>>
       \/ /\ program = "fork" /\ ~handler[e]
          /\ sys_page_alloc(<<e, "xstack">>)
          /\ upcall' = [upcall EXCEPT ![e] = TRUE]
          /\ Goto(e, "set")
       \/ /\ program = "fork" /\ ~handler[e]
          /\ Goto(e, "exofork")
          /\ UNCHANGED <<memVars, upcall>>
    /\ UNCHANGED <<program, status, parent, libVars, kid, pos, fault>>

set_pgfault_handler(e) ==
    /\ At(e, "set")
    /\ handler' = [handler EXCEPT ![e] = TRUE]
    /\ Goto(e, "exofork")
    /\ UNCHANGED <<program, memVars, envVars, thisenv, kid, pos, fault>>

\* The child has the parent's registers: it will continue after sys_exofork,
\* which returns 0 to it.  A failing sys_exofork returns a negative number,
\* which dumbfork takes for an error and fork for the child.
sys_exofork(e) ==
    /\ At(e, "exofork")
    /\ \/ \E c \in Env :
            /\ status[c] = "free"
            /\ status' = [status EXCEPT ![c] = "new"]
            /\ parent' = [parent EXCEPT ![c] = e]
            /\ pc' = [pc EXCEPT ![c] = "child",
                                ![e] = IF program = "fork" THEN "dup1" ELSE "dalloc"]
            /\ kid' = [kid EXCEPT ![e] = c]
            /\ pos' = [pos EXCEPT ![e] = 1]
            /\ UNCHANGED <<program, memVars, upcall, libVars, fault>>
       \/ /\ program = "fork"
          /\ Goto(e, "child")
          /\ UNCHANGED <<program, memVars, envVars, libVars, kid, pos, fault>>
       \/ program = "dumbfork" /\ panic(e)

\* The other branch of fork: correct thisenv and return 0.
ReturnZero(e) ==
    /\ At(e, "child")
    /\ thisenv' = [thisenv EXCEPT ![e] = e]
    /\ Goto(e, "user")
    /\ UNCHANGED <<program, memVars, envVars, handler, kid, pos, fault>>

\* Continue with the next page, or with s after the last one.
NextPage(e, first, s) ==
    IF pos[e] < Len(Walk)
    THEN /\ pos' = [pos EXCEPT ![e] = @ + 1]
         /\ Goto(e, first)
    ELSE Goto(e, s) /\ UNCHANGED pos

-----------------------------------------------------------------------------
(***************************************************************************)
(* The parent's branch of fork.                                            *)
(***************************************************************************)
Ours(e) == <<e, Walk[pos[e]]>>
Theirs(e) == <<kid[e], Walk[pos[e]]>>

DupPerm(pm) == IF pm \in {"w", "cow"} THEN "cow" ELSE "r"

\* Mutant: the child gets the permission that the parent has.
MutDupShares(e) ==
    /\ At(e, "dup1")
    /\ \/ /\ sys_page_map(Ours(e), Theirs(e), perm[Ours(e)])
          /\ Goto(e, "dup2")
          /\ UNCHANGED <<program, envVars, libVars, kid, pos, fault>>
       \/ panic(e)

\* duppage, first call: the child gets the page, read-only or copy-on-write.
duppage_child(e) ==
    /\ At(e, "dup1")
    /\ \/ /\ sys_page_map(Ours(e), Theirs(e), DupPerm(perm[Ours(e)]))
          /\ Goto(e, "dup2")
          /\ UNCHANGED <<program, envVars, libVars, kid, pos, fault>>
       \/ panic(e)

\* Mutant: the parent keeps its page as it is.
MutDupKeepsOurs(e) ==
    /\ At(e, "dup2")
    /\ NextPage(e, "dup1", "xstack")
    /\ UNCHANGED <<program, memVars, envVars, libVars, kid, fault>>

\* duppage, second call: map the child's page at the same address here, with
\* the same permission.
duppage_self(e) ==
    /\ At(e, "dup2")
    /\ sys_page_map(Theirs(e), Ours(e), perm[Theirs(e)])
    /\ NextPage(e, "dup1", "xstack")
    /\ UNCHANGED <<program, envVars, libVars, kid, fault>>

AllocXstack(e) ==
    /\ At(e, "xstack")
    /\ \/ /\ sys_page_alloc(<<kid[e], "xstack">>)
          /\ Goto(e, "upcall")
          /\ UNCHANGED <<program, envVars, libVars, kid, pos, fault>>
       \/ panic(e)

\* thisenv->env_pgfault_upcall, which is 0 if set_pgfault_handler failed.
sys_env_set_pgfault_upcall(e) ==
    /\ At(e, "upcall")
    /\ upcall' = [upcall EXCEPT ![kid[e]] = upcall[thisenv[e]]]
    /\ Goto(e, "status")
    /\ UNCHANGED <<program, memVars, status, parent, libVars, kid, pos, fault>>

\* The last step of both forks.  From here on the child runs, on the copies of
\* the parent's global variables.
sys_env_set_status(e) ==
    /\ At(e, "status")
    /\ status' = [status EXCEPT ![kid[e]] = "run"]
    /\ handler' = [handler EXCEPT ![kid[e]] = handler[e]]
    /\ thisenv' = [thisenv EXCEPT ![kid[e]] = thisenv[e]]
    /\ kid' = [kid EXCEPT ![e] = NoEnv]
    /\ pos' = [pos EXCEPT ![e] = 1]
    /\ Goto(e, "user")
    /\ UNCHANGED <<program, memVars, parent, upcall, fault>>

-----------------------------------------------------------------------------
(***************************************************************************)
(* The parent's branch of dumbfork: each page is allocated in the child,   *)
(* mapped at UTEMP, copied and unmapped.                                   *)
(***************************************************************************)
dumb_alloc(e) ==
    /\ At(e, "dalloc")
    /\ \/ /\ sys_page_alloc(Theirs(e))
          /\ Goto(e, "dmap")
          /\ UNCHANGED <<program, envVars, libVars, kid, pos, fault>>
       \/ panic(e)

dumb_map(e) ==
    /\ At(e, "dmap")
    /\ \/ /\ sys_page_map(Theirs(e), <<e, "temp">>, "w")
          /\ Goto(e, "dcopy")
          /\ UNCHANGED <<program, envVars, libVars, kid, pos, fault>>
       \/ panic(e)

dumb_copy(e) ==
    /\ At(e, "dcopy")
    /\ memmove(<<e, "temp">>, Ours(e))
    /\ Goto(e, "dunmap")
    /\ UNCHANGED <<program, envVars, libVars, kid, pos, fault>>

dumb_unmap(e) ==
    /\ At(e, "dunmap")
    /\ sys_page_unmap(<<e, "temp">>)
    /\ NextPage(e, "dalloc", "status")
    /\ UNCHANGED <<program, envVars, libVars, kid, fault>>

-----------------------------------------------------------------------------
\* What the program itself does, at any time it is not in the library.
UserStep(e) ==
    \/ exit(e)
    \/ CallFork(e)
    \/ \E va \in Location, v \in Value : Store(e, va, v)

\* The steps of fork, dumbfork and the page fault handler.
LibStep(e) ==
    \/ pgfault_alloc(e)
    \/ pgfault_copy(e)
    \/ pgfault_map(e)
    \/ pgfault_unmap(e)
    \/ set_pgfault_handler(e)
    \/ sys_exofork(e)
    \/ ReturnZero(e)
    \/ duppage_child(e)
    \/ duppage_self(e)
    \/ AllocXstack(e)
    \/ sys_env_set_pgfault_upcall(e)
    \/ sys_env_set_status(e)
    \/ dumb_alloc(e)
    \/ dumb_map(e)
    \/ dumb_copy(e)
    \/ dumb_unmap(e)

Next ==
    \E e \in Env :
        \/ UserStep(e)
        \/ LibStep(e)
        \/ \E va \in Location : PageFault(e, va)

Spec == Init /\ [][Next]_vars

-----------------------------------------------------------------------------
(***************************************************************************)
(* Properties                                                              *)
(***************************************************************************)
Live == {e \in Env : status[e] \in {"run", "panic"}}

Blank == [va \in Location |-> Junk]

\* The memory that each environment sees through its page table.
Space ==
    [e \in Env |-> IF e \in Live THEN [va \in Location |-> content[<<e, va>>]]
                   ELSE Blank]

Private == INSTANCE PrivateSpaces
    WITH live <- Live, space <- Space

\* Sharing pages copy-on-write, or copying them one by one while everybody
\* runs, is the same to every program as having a memory of its own that is
\* copied in one step when the child starts: no store of another environment,
\* no fault and no failing call ever shows.
MemoryIsPrivate == Private!Spec

\* e is building c: it may still map writable a page that c, which does not run
\* yet, has been given.
Building(e, c) == kid[e] = c /\ status[c] = "new"

\* A page that is mapped by two environments is writable in neither, except
\* between the two system calls of duppage and while dumbfork copies a page.
CowSafe ==
    \A s \in Slot : \A t \in pp[s] :
        perm[s] = "w" /\ s[1] # t[1] =>
            \/ Building(s[1], t[1]) /\ pc[s[1]] = "dup2" /\ s = Ours(s[1])
            \/ Building(s[1], t[1]) /\ s[2] = "temp" /\ pc[s[1]] \in {"dcopy", "dunmap"}
            \/ Building(t[1], s[1]) /\ t[2] = "temp" /\ pc[t[1]] \in {"dcopy", "dunmap"}

\* When the page fault handler returns, the store that faulted succeeds: the
\* environment does not fault for ever.
FaultResolved ==
    [][\A e \in Env : fault[e] # NoFault /\ fault'[e] = NoFault /\ status'[e] = "run" =>
          perm'[<<e, fault[e].va>>] = "w"]_vars

\* fork returns 0 only in a child (the first environment has no parent).
ZeroOnlyInChild ==
    \A e \in Env : At(e, "child") => parent[e] # NoEnv

=============================================================================
