------------------------------- MODULE Upcall -------------------------------
(***************************************************************************)
(* Page faults handled by the program: page_fault_handler of kern/trap.c   *)
(* builds a UTrapframe on the exception stack, _pgfault_upcall of          *)
(* lib/pfentry.S calls the C handler and returns to the code that faulted, *)
(* with the stack it had and every register restored.  The code in between *)
(* may fault as well: the handler, and the very instruction of pfentry.S   *)
(* that pushes the return address on a user stack that is copy-on-write.   *)
(*                                                                         *)
(* Addresses count 4-byte words.  The user stack is page 0, page 1 is the  *)
(* page below the exception stack, which is not mapped unless a handler    *)
(* maps it, page 2 is the exception stack, and page 3 stands for what the  *)
(* kernel shows read-only between UTOP and ULIM.                           *)
(***************************************************************************)
EXTENDS Integers, Sequences, SequencesExt

CONSTANTS
    PGSIZE,     \* words in a page (1024 in the code)
    MaxLocals,  \* words a C handler takes for its own variables
    MaxRestarts,\* times a frame goes to the top of the stack while others wait
    UserEsp     \* stack pointers of the main program

ASSUME UpcallAssumption ==
    /\ PGSIZE \in Nat /\ PGSIZE >= 16
    /\ MaxLocals \in Nat /\ MaxRestarts \in Nat
    /\ UserEsp \subseteq PGSIZE - 2 .. PGSIZE - 1

UXSTACKTOP == 3 * PGSIZE
UXSTACK == 2 * PGSIZE .. UXSTACKTOP - 1
BELOW == PGSIZE .. 2 * PGSIZE - 1           \* the page under the stack
USTACK == PGSIZE - 3 .. PGSIZE - 1          \* the end of it that is in use
ULIM == 4 * PGSIZE

\* struct UTrapframe, in words from its address: the fault, the registers as
\* pusha leaves them, and what iret would need.
utf_fault_va == 0
utf_err == 1
utf_regs == 2
utf_eip == 10
utf_eflags == 11
utf_esp == 12
UTrapframeSize == 13

\* Registers by their place in utf_regs.  popal skips the fourth, %esp.
ebp == 2
ebx == 4
eax == 7
Reg == {0, 1, ebp, ebx, 5, 6, eax}

\* Code: the program, _pgfault_upcall, the C handler, the store of pfentry.S
\* line 71, and an upcall address where nothing is mapped.
MAIN == 101
UPCALL == 102
HANDLER == 103
PUSH == 104
BAD == 105
RETURN == 106   \* after the call in _pgfault_upcall

\* Why a page fault happened: an address of the program's data, the user
\* stack, which fork makes copy-on-write, or an address in page 1.
HEAP == 201
STACK == 202
LOW == 203

VARIABLES
    status,     \* run, destroyed, or kernel_fault: the kernel itself faulted
                \* writing the frame
    upcall,     \* env_pgfault_upcall, 0 if there is none
    xstack,     \* permissions of the exception stack page
    cow,        \* is the user stack copy-on-write?
    below,      \* has a handler mapped page 1?
    mem,        \* the words of the stacks and of page 1
    eip, esp, regs, eflags,
    trapped,    \* the faults not returned from: the state at each one and the
                \* address of its frame
    restarts    \* frames put at the top of the stack while others were there

envVars == <<status, upcall, xstack>>
cpuVars == <<eip, esp, regs, eflags>>
pages == <<cow, below>>
vars == <<envVars, pages, mem, cpuVars, trapped, restarts>>

-----------------------------------------------------------------------------
(***************************************************************************)
(* kern/pmap.c: may the environment access [va, va+len)?                   *)
(***************************************************************************)
PagePerm(pn) ==
    CASE pn = 0 -> IF cow THEN {"P", "U"} ELSE {"P", "U", "W"}
      [] pn = 1 -> IF below THEN {"P", "U", "W"} ELSE {}
      [] pn = 2 -> xstack
      [] pn = 3 -> {"P", "U"}
      [] OTHER  -> {}

\* Mutant: the walk starts at the page after the first one.
MutCheckSkipsFirst(va, len, perm) ==
    LET lower == va \div PGSIZE + 1
        upper == (va + len) \div PGSIZE
    IN  /\ \A pn \in lower .. upper - 1 : (perm \cup {"P"}) \cap PagePerm(pn) # {}
        /\ va + len < ULIM

\* The pages from that of va up to, but not including, that of va+len; at
\* least one.  A page passes if it has any of the permissions.
user_mem_check(va, len, perm) ==
    LET lower == va \div PGSIZE
        upper == (va + len) \div PGSIZE
    IN  /\ \A pn \in {lower} \cup (lower .. upper - 1) :
             (perm \cup {"P"}) \cap PagePerm(pn) # {}
        /\ va + len < ULIM

\* Mutant: the check is made and the environment goes on all the same.
MutNotDestroyed == UNCHANGED vars

env_destroy ==
    /\ status' = "destroyed"
    /\ UNCHANGED <<upcall, xstack, pages, mem, cpuVars, trapped, restarts>>

-----------------------------------------------------------------------------
\* set_pgfault_handler has been called, or part of it, or it was given a bad
\* handler (user/faultnostack.c, user/faultbadhandler.c), or the program has
\* made its exception stack read-only with sys_page_map.
Init ==
    /\ status = "run"
    /\ upcall \in {0, UPCALL, BAD}
    /\ xstack \in {{}, {"P", "U"}, {"P", "U", "W"}}
    /\ cow \in BOOLEAN /\ below = FALSE
    /\ mem = [a \in USTACK \cup BELOW \cup UXSTACK |-> 0]
    /\ eip = MAIN
    /\ esp \in UserEsp
    /\ regs = [r \in Reg |-> r + 1]
    /\ eflags = 1
    /\ trapped = << >>
    /\ restarts = 0

\* The state that a page fault interrupts.
Context == [eip |-> eip, esp |-> esp, regs |-> regs, eflags |-> eflags]

\* Is a frame put at the top of the exception stack while others are there?
Restart == trapped # << >> /\ esp \notin UXSTACK

\* The kernel's stores to a page that is not writable fault in the kernel
\* (CR0_WP), where page_fault_handler is entered again for its own store and
\* faults again: the panic for a fault in the kernel is commented out.
KernelFault ==
    /\ status' = "kernel_fault"
    /\ UNCHANGED <<upcall, xstack, pages, mem, cpuVars, trapped, restarts>>

\* Write the frame there and enter the upcall, if user_mem_check has nothing
\* against the pages from there to the top; destroy the environment otherwise.
PushFrame(frame, va) ==
    LET utf(a) ==       \* the word at offset a of the frame
            CASE a = utf_fault_va -> va
              [] a = utf_err      -> 0
              [] a - utf_regs \in Reg -> regs[a - utf_regs]
              [] a = utf_eip      -> eip
              [] a = utf_eflags   -> eflags
              [] a = utf_esp      -> esp
              [] OTHER            -> mem[frame + a]
    IN  /\ status = "run"
        /\ Restart => restarts < MaxRestarts
        /\ IF upcall = 0 \/ ~user_mem_check(frame, UXSTACKTOP - frame, {"W", "U"})
           THEN env_destroy
           ELSE IF "W" \notin xstack
           THEN KernelFault
           ELSE /\ mem' = [a \in DOMAIN mem |-> utf(a - frame)]
                /\ eip' = upcall
                /\ esp' = frame
                /\ trapped' = Append(trapped, [context |-> Context, frame |-> frame])
                /\ restarts' = IF Restart THEN restarts + 1 ELSE restarts
                /\ UNCHANGED <<envVars, pages, regs, eflags>>

\* Mutant: no word is left free for the return address.
MutNoScratch(va) ==
    PushFrame((IF esp \in UXSTACK THEN esp ELSE UXSTACKTOP) - UTrapframeSize, va)

\* A page fault at va.  The frame goes below the current end of the exception
\* stack, leaving one word free, or at its top if the program was not on it,
\* be it that nothing else is there or that its stack has left the page.
page_fault_handler(va) ==
    PushFrame((IF esp \in UXSTACK THEN esp - 1 ELSE UXSTACKTOP) - UTrapframeSize, va)

-----------------------------------------------------------------------------
(***************************************************************************)
(* The program: its stack pointer moves, fork makes its stack              *)
(* copy-on-write, and it touches data that is not there.                   *)
(***************************************************************************)
Main ==
    /\ status = "run" /\ eip = MAIN
    /\ cow' \in BOOLEAN
    /\ cow => cow'
    /\ esp' \in UserEsp
    /\ UNCHANGED <<envVars, below, mem, eip, regs, eflags, trapped, restarts>>

\* Where the upcall and the handler can keep their stack.
Stack == UXSTACK \cup (IF below THEN BELOW ELSE {})

DataFault ==
    /\ eip = MAIN \/ (eip = HANDLER /\ esp \in Stack)
    /\ page_fault_handler(HEAP)

\* The main program pushes onto its own stack.
StackFault == eip = MAIN /\ cow /\ page_fault_handler(STACK)

\* The upcall is not mapped: fetching its first instruction faults.
BadUpcall == eip = BAD /\ page_fault_handler(HEAP)

-----------------------------------------------------------------------------
(***************************************************************************)
(* lib/pfentry.S and a C handler.  A program whose stack was overwritten   *)
(* is followed as long as it stays in this code and on these pages.        *)
(***************************************************************************)

\* pushl %esp; call *%eax; and the handler's prologue, which saves the stack
\* pointer in %ebp and takes n words.  Pushing below the page is a fault.
CallHandler(n) ==
    /\ status = "run" /\ eip = UPCALL
    /\ esp - 2 \in Stack
    /\ mem' = [mem EXCEPT ![esp - 1] = esp, ![esp - 2] = RETURN]
    /\ eip' = HANDLER
    /\ esp' = esp - 2 - n
    /\ regs' = [r \in Reg |-> IF r = ebp THEN esp - 2 ELSE 0]
    /\ eflags' = 0
    /\ UNCHANGED <<envVars, pages, trapped, restarts>>

CallFaults == eip = UPCALL /\ esp - 2 \notin Stack /\ page_fault_handler(LOW)

\* The handler's variables are in page 1, which is not mapped: using them
\* faults.  The stack pointer is not in the exception stack any more, so that
\* the frame goes to its top, over the frames that are there.
Overrun ==
    /\ eip = HANDLER /\ esp \notin Stack
    /\ page_fault_handler(LOW)

\* The handler makes the page it was called for writable, as that of
\* user/faultalloc.c does, and returns; the trap-time %esp and %eip are loaded
\* from the frame (pfentry.S 39 to 70).
HandlerReturns ==
    LET frame == mem[regs[ebp] + 1]
    IN  /\ status = "run" /\ eip = HANDLER
        /\ esp \in Stack
        /\ {regs[ebp], regs[ebp] + 1, regs[ebp] + 2 + utf_esp} \subseteq Stack
        /\ mem[regs[ebp]] = RETURN /\ frame \in Stack
        /\ cow' = (cow /\ mem[frame + utf_fault_va] # STACK)
        /\ below' = (below \/ mem[frame + utf_fault_va] = LOW)
        /\ eip' = PUSH
        /\ esp' = regs[ebp] + 2
        /\ regs' = [regs EXCEPT ![eax] = mem[esp' + utf_esp] - 1, ![ebx] = mem[esp' + utf_eip]]
        /\ UNCHANGED <<envVars, mem, eflags, trapped, restarts>>

\* movl %ebx, (%eax) on a user stack that is copy-on-write.
PushFaults == eip = PUSH /\ regs[eax] \in USTACK /\ cow /\ page_fault_handler(STACK)

\* Push the return address onto the trap-time stack, adjust %esp in the frame,
\* popal, popfl, popl %esp and ret (pfentry.S 71 to 89).
Unwind ==
    /\ status = "run" /\ eip = PUSH
    /\ regs[eax] \in Stack \cup (IF cow THEN {} ELSE USTACK)
    /\ LET m  == [mem EXCEPT ![regs[eax]] = regs[ebx], ![esp + utf_esp] = regs[eax]]
           sp == m[esp + utf_esp]
       IN  /\ mem' = m
           /\ regs' = [r \in Reg |-> m[esp + utf_regs + r]]
           /\ eflags' = m[esp + utf_eflags]
           /\ eip' = m[sp]
           /\ esp' = sp + 1
    /\ trapped' = IF trapped = << >> THEN << >> ELSE Front(trapped)
    /\ UNCHANGED <<envVars, pages, restarts>>

Next ==
    \/ Main
    \/ DataFault
    \/ StackFault
    \/ BadUpcall
    \/ \E n \in 0 .. MaxLocals : CallHandler(n)
    \/ CallFaults
    \/ Overrun
    \/ HandlerReturns
    \/ PushFaults
    \/ Unwind

\* An environment that has something to execute is scheduled again.
Spec == Init /\ [][Next]_vars /\ WF_vars(BadUpcall)

-----------------------------------------------------------------------------
(***************************************************************************)
(* Properties                                                              *)
(***************************************************************************)

\* Returning from a fault restores instruction pointer, stack pointer,
\* registers and flags as they were when it happened, however deeply the
\* handler, or the return itself, faulted in between, as long as no frame was
\* put at the top of the exception stack over others (pfentry.S).
UnwindExact ==
    [][restarts = 0 /\ Len(trapped') < Len(trapped) => Context' = Last(trapped).context]_vars

\* The frames of the faults not returned from lie in the exception stack page
\* and do not overlap: an environment whose exception stack overflows is
\* destroyed, as the comment of page_fault_handler says.
FramesApart ==
    /\ \A i \in DOMAIN trapped : trapped[i].frame >= 2 * PGSIZE
    /\ \A i, j \in DOMAIN trapped :
         i < j => trapped[j].frame + UTrapframeSize < trapped[i].frame

\* That holds as long as the handlers' own stack stays in the page: a fault
\* near its lower end never makes the kernel write below it, nor over a frame
\* that is still needed (trap.c, pmap.c's user_mem_check).
FramesOnXstack == restarts = 0 => FramesApart

\* An environment that cannot write its exception stack is destroyed: the
\* check passes only what the kernel can write (trap.c).
OnlyUserFaults == status # "kernel_fault"

\* A program whose fault handler faults itself does not loop: the exception
\* stack fills up and the kernel destroys it (user/faultbadhandler.c).
BadHandlerDies == (status = "run" /\ eip = BAD) ~> status = "destroyed"

=============================================================================
