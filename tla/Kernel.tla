------------------------------- MODULE Kernel -------------------------------
(***************************************************************************)
(* Environments, the round-robin scheduler and the big kernel lock of JOS  *)
(* on a multiprocessor: kern/env.c, kern/sched.c, kern/trap.c, the         *)
(* environment and IPC system calls of kern/syscall.c, and the entry of    *)
(* the processors into the scheduler in kern/init.c.                       *)
(*                                                                         *)
(* A processor is in user mode, waiting for kernel_lock, inside the kernel *)
(* with the lock, between unlock_kernel() and iret, halted, or in the      *)
(* kernel monitor.  Everything between lock_kernel() and unlock_kernel()   *)
(* runs with interrupts off and the lock held, so a handler is one action; *)
(* what happens outside the lock (trapping, spinning, iret) is a step of   *)
(* its own.                                                                *)
(*                                                                         *)
(* Memory is abstracted to which page directory a processor has loaded;    *)
(* the memory manager is modelled in module Pmap.                          *)
(***************************************************************************)
EXTENDS Integers, Sequences, FiniteSets

CONSTANTS
    CPU,        \* the entries of cpus[], for the processors there may be
    BootCPU,    \* the processor that runs i386_init
    NENV,       \* number of slots of envs[] (1024 in the code)
    NInit,      \* environments that i386_init creates with ENV_CREATE
    MaxGen,     \* generations an env_id can hold (2^19 - 1 in the code)
    Message,    \* what a send writes into the receiver's env_ipc_ fields
    NoCPU,      \* kernel_lock is free
    Programs    \* liberties that user programs and the user take, see below

(***************************************************************************)
(* What user programs may do beyond what the programs under user/ and lib/ *)
(* do with environments they own:                                          *)
(*   wake       sys_env_set_status on a child that is running, dying or    *)
(*              waiting for a message (fork only does it to a child that   *)
(*              has not run yet);                                          *)
(*   rekill     sys_env_destroy on a child already destroyed and dying;    *)
(*   self       sys_env_set_status on oneself;                             *)
(*   breakpoint int3 (user/breakpoint.c);                                  *)
(*   keyboard   someone types: kbd_init unmasks IRQ 1, which only the boot  *)
(*              processor receives and trap_dispatch does not know.        *)
(***************************************************************************)
Liberty == {"wake", "rekill", "self", "breakpoint", "keyboard"}

ASSUME ConstantsAssumption ==
    /\ BootCPU \in CPU
    /\ NoCPU \notin CPU
    /\ NENV \in Nat \ {0}
    /\ NInit \in 1 .. NENV
    /\ MaxGen \in Nat \ {0}
    /\ Programs \subseteq Liberty

Envs == 0 .. NENV - 1

NULL == -1

\* An envid_t: its generation and the index that ENVX extracts.
EnvId == (0 .. MaxGen) \X Envs

\* The envid 0, which names the caller.  As a page directory it stands for
\* kern_pgdir, which belongs to no environment.
Zero == <<0, 0>>

kern_pgdir == Zero

ENVX(id) == id[2]

Status == {"ENV_FREE", "ENV_DYING", "ENV_RUNNABLE", "ENV_RUNNING",
           "ENV_NOT_RUNNABLE"}

(***************************************************************************)
(* Where a processor is:                                                   *)
(*   user     executing user code;                                         *)
(*   trap     in trap(), spinning in lock_kernel(), coming from user mode; *)
(*   kernel   holding the lock, about to serve the trap of curenv;         *)
(*   pop      after unlock_kernel() in env_run(), not yet through iret;    *)
(*   halt     in the hlt loop of sched_halt();                             *)
(*   spin     in lock_kernel() on the way to sched_yield(): an AP in       *)
(*            mp_main(), or a processor woken from hlt;                    *)
(*   sched    holding the lock, about to call sched_yield();               *)
(*   monitor  in monitor(), which no command leaves, with nothing to run;  *)
(*   int3     in monitor(), for a breakpoint;                              *)
(*   panic    a lock taken twice or not at all: in _panic() or spinning;   *)
(*   stopped  for good, in _panic() after an unhandled trap in the kernel  *)
(*            or, elsewhere, in the hlt that panicstr sends trap() to;     *)
(*   unused   not there: mp_init found fewer processors.                   *)
(***************************************************************************)
Pc == {"user", "trap", "kernel", "pop", "halt", "spin", "sched", "monitor",
       "int3", "panic", "stopped", "unused"}

\* The processor executes an environment, or is in the kernel on its behalf.
Executing == {"pop", "user", "trap", "kernel"}

\* The statuses of an environment that some processor executes.
Busy == {"ENV_RUNNING", "ENV_DYING"}

VARIABLES
    kernel_lock,        \* the processor holding it, or NoCPU
    pc,                 \* where each processor is
    cpu_status,         \* struct CpuInfo, cpu_status
    cpu_env,            \* struct CpuInfo, cpu_env: curenv of the processor
    cr3,                \* the environment whose page directory is loaded
    env_status,
    env_id,
    env_parent_id,
    env_free_list,      \* the free slots, in the order of env_link
    env_ipc_recving,
    env_ipc_msg         \* env_ipc_from, _value and _perm, written together

cpuVars == <<kernel_lock, pc, cpu_status, cpu_env, cr3>>
idVars == <<env_id, env_parent_id, env_free_list>>
ipcVars == <<env_ipc_recving, env_ipc_msg>>
vars == <<cpuVars, env_status, idVars, ipcVars>>

-----------------------------------------------------------------------------
(***************************************************************************)
(* The state when i386_init calls sched_yield: env_init has filled the     *)
(* free list in slot order, ENV_CREATE has taken the first NInit slots,    *)
(* the boot processor holds the lock and the others that mp_init found     *)
(* spin in mp_main.                                                        *)
(***************************************************************************)
env_init ==
    /\ env_status = [e \in Envs |-> IF e < NInit THEN "ENV_RUNNABLE" ELSE "ENV_FREE"]
    /\ env_id = [e \in Envs |-> IF e < NInit THEN <<1, e>> ELSE <<0, e>>]
    /\ env_parent_id = [e \in Envs |-> Zero]
    /\ env_free_list = [i \in 1 .. NENV - NInit |-> NInit + i - 1]
    /\ env_ipc_recving = [e \in Envs |-> FALSE]
    /\ env_ipc_msg = [e \in Envs |-> 0]

Init ==
    /\ env_init
    /\ kernel_lock = BootCPU
    /\ \E found \in SUBSET CPU :
        /\ BootCPU \in found
        /\ pc = [c \in CPU |-> CASE c = BootCPU -> "sched"
                                 [] c \in found \ {BootCPU} -> "spin"
                                 [] OTHER -> "unused"]
        /\ cpu_status = [c \in CPU |-> IF c \in found THEN "CPU_STARTED"
                                       ELSE "CPU_UNUSED"]
    /\ cpu_env = [c \in CPU |-> NULL]
    /\ cr3 = [c \in CPU |-> kern_pgdir]

-----------------------------------------------------------------------------
(***************************************************************************)
(* kern/sched.c and env_run.  The handlers below pass the environment      *)
(* statuses st and the current environment cur that they leave behind.     *)
(***************************************************************************)

\* Mutant: the environment switched from stays ENV_RUNNING.
MutRunKeepsOld(c, st, cur, e) ==
    /\ env_status' = [st EXCEPT ![e] = "ENV_RUNNING"]
    /\ cpu_env' = [cpu_env EXCEPT ![c] = e]
    /\ cr3' = [cr3 EXCEPT ![c] = env_id[e]]
    /\ kernel_lock' = NoCPU
    /\ pc' = [pc EXCEPT ![c] = "pop"]
    /\ UNCHANGED cpu_status

\* Leave the kernel into environment e; the processor still has to iret.
env_run(c, st, cur, e) ==
    /\ env_status' =
         [f \in Envs |->
            IF f = e THEN "ENV_RUNNING"
            ELSE IF f = cur /\ st[f] = "ENV_RUNNING" THEN "ENV_RUNNABLE"
            ELSE st[f]]
    /\ cpu_env' = [cpu_env EXCEPT ![c] = e]
    /\ cr3' = [cr3 EXCEPT ![c] = env_id[e]]
    /\ kernel_lock' = NoCPU
    /\ pc' = [pc EXCEPT ![c] = "pop"]
    /\ UNCHANGED cpu_status

\* Mutant: only ENV_RUNNABLE environments count, and there is none left here.
MutHaltCountsRunnable(c, st, cur) ==
    /\ env_status' = st
    /\ cpu_env' = [cpu_env EXCEPT ![c] = cur]
    /\ cr3' = [cr3 EXCEPT ![c] = IF cur = NULL THEN kern_pgdir ELSE @]
    /\ pc' = [pc EXCEPT ![c] = "monitor"]
    /\ UNCHANGED <<cpu_status, kernel_lock>>

\* Mutant: the halted processor is not marked CPU_HALTED.
MutHaltNotMarked(c, st, cur) ==
    /\ env_status' = st
    /\ cpu_env' = [cpu_env EXCEPT ![c] = NULL]
    /\ cr3' = [cr3 EXCEPT ![c] = kern_pgdir]
    /\ kernel_lock' = NoCPU
    /\ pc' = [pc EXCEPT ![c] = "halt"]
    /\ UNCHANGED cpu_status

\* If no environment can ever run again the monitor is entered, with the lock
\* held.  Otherwise the processor halts until its next timer interrupt.
sched_halt(c, st, cur) ==
    /\ env_status' = st
    /\ IF \A e \in Envs : st[e] \notin {"ENV_RUNNABLE", "ENV_RUNNING", "ENV_DYING"}
       THEN /\ cpu_env' = [cpu_env EXCEPT ![c] = cur]
            /\ cr3' = [cr3 EXCEPT ![c] = IF cur = NULL THEN kern_pgdir ELSE @]
            /\ pc' = [pc EXCEPT ![c] = "monitor"]
            /\ UNCHANGED <<cpu_status, kernel_lock>>
       ELSE /\ cpu_env' = [cpu_env EXCEPT ![c] = NULL]
            /\ cr3' = [cr3 EXCEPT ![c] = kern_pgdir]
            /\ cpu_status' = [cpu_status EXCEPT ![c] = "CPU_HALTED"]
            /\ kernel_lock' = NoCPU
            /\ pc' = [pc EXCEPT ![c] = "halt"]

\* Mutant: every scan starts at slot 0.
MutScanFromZero(cur) == 0

\* Mutant: the scan starts at the environment last run, not just after it.
MutScanFromCur(cur) == IF cur = NULL THEN 0 ELSE cur

\* The slot at which the loop of sched_yield starts.
ScanStart(cur) == IF cur = NULL THEN 0 ELSE (cur + 1) % NENV

\* The slot that the loop looks at in turn ct.
Slot(cur, ct) == (ScanStart(cur) + ct) % NENV

\* Mutant: an environment that another processor runs is eligible.
MutLeavesAtRunning(st, cur, i) ==
    i = cur \/ st[i] \in {"ENV_RUNNABLE", "ENV_RUNNING"}

\* The loop is left at slot i: it is that of the environment last run here,
\* or it is ENV_RUNNABLE.
LeavesAt(st, cur, i) == i = cur \/ st[i] = "ENV_RUNNABLE"

\* The loop: turn by turn to the first slot where it is left, for at most NENV
\* turns.  Back at slot cur it runs cur if that is still ENV_RUNNING and gives
\* up if it is anything else, ENV_RUNNABLE included.
sched_yield(c, st, cur) ==
    \/ \E ct \in 0 .. NENV - 1 :
         LET i == Slot(cur, ct)
         IN  /\ LeavesAt(st, cur, i)
             /\ \A k \in 0 .. ct - 1 : ~LeavesAt(st, cur, Slot(cur, k))
             /\ IF i = cur /\ st[i] # "ENV_RUNNING"
                THEN sched_halt(c, st, cur)
                ELSE env_run(c, st, cur, i)
    \/ /\ \A ct \in 0 .. NENV - 1 : ~LeavesAt(st, cur, Slot(cur, ct))
       /\ sched_halt(c, st, cur)

\* The end of trap(): back to curenv if it is still running.
trap_return(c, st) ==
    LET cur == cpu_env[c]
    IN  IF st[cur] = "ENV_RUNNING"
        THEN env_run(c, st, cur, cur)
        ELSE sched_yield(c, st, cur)

-----------------------------------------------------------------------------
(***************************************************************************)
(* kern/env.c                                                              *)
(***************************************************************************)

\* Mutant: the id in the slot is not compared with the one asked for.
MutEnvid2envStale(c, id, checkperm) ==
    LET e == ENVX(id)
    IN  IF id = Zero THEN cpu_env[c]
        ELSE IF \/ env_status[e] = "ENV_FREE"
                \/ /\ checkperm
                   /\ e # cpu_env[c]
                   /\ env_parent_id[e] # env_id[cpu_env[c]]
             THEN NULL
             ELSE e

\* The slot that an envid names for the environment on processor c, or NULL
\* for -E_BAD_ENV.
envid2env(c, id, checkperm) ==
    LET e == ENVX(id)
    IN  IF id = Zero THEN cpu_env[c]
        ELSE IF \/ env_status[e] = "ENV_FREE"
                \/ env_id[e] # id
                \/ /\ checkperm
                   /\ e # cpu_env[c]
                   /\ env_parent_id[e] # env_id[cpu_env[c]]
             THEN NULL
             ELSE e

\* Mutant: the id is not reset when its generation overflows.
MutNextIdOverflows(e) == <<env_id[e][1] + 1, e>>

\* Mutant: every environment of a slot gets the same generation.
MutNextIdFresh(e) == <<1, e>>

\* The env_id that env_alloc gives slot e: the next generation, starting
\* again at 1 when the 32-bit id would become negative.
NextId(e) ==
    LET gen == env_id[e][1] + 1
    IN  <<IF gen > MaxGen THEN 1 ELSE gen, e>>

\* Mutant: the allocated slot stays on the free list.
MutAllocKeepsSlot(e, parent) ==
    /\ env_id' = [env_id EXCEPT ![e] = NextId(e)]
    /\ env_parent_id' = [env_parent_id EXCEPT ![e] = parent]
    /\ env_ipc_recving' = [env_ipc_recving EXCEPT ![e] = FALSE]
    /\ UNCHANGED <<env_free_list, env_ipc_msg>>

\* env_alloc of slot e.  The status is not primed here: the caller passes it
\* on to the scheduler.
env_alloc(e, parent) ==
    /\ env_id' = [env_id EXCEPT ![e] = NextId(e)]
    /\ env_parent_id' = [env_parent_id EXCEPT ![e] = parent]
    /\ env_free_list' = Tail(env_free_list)
    /\ env_ipc_recving' = [env_ipc_recving EXCEPT ![e] = FALSE]
    /\ UNCHANGED env_ipc_msg

\* The effect of env_free on the table; Freed is its effect on the statuses.
env_free(e) ==
    /\ env_free_list' = <<e>> \o env_free_list
    /\ UNCHANGED <<env_id, env_parent_id>>
    /\ UNCHANGED ipcVars

Freed(e) == [env_status EXCEPT ![e] = "ENV_FREE"]

\* Mutant: no zombie state, an environment running elsewhere is freed.
MutDestroyAtOnce(c, e) ==
    /\ env_free(e)
    /\ IF e = cpu_env[c]
       THEN sched_yield(c, Freed(e), NULL)
       ELSE trap_return(c, Freed(e))

\* Called by the environment on processor c: e becomes a zombie if it runs on
\* another processor, else it is freed; a processor that freed its own
\* environment schedules another one and does not come back.
env_destroy(c, e) ==
    IF env_status[e] = "ENV_RUNNING" /\ e # cpu_env[c]
    THEN /\ trap_return(c, [env_status EXCEPT ![e] = "ENV_DYING"])
         /\ UNCHANGED <<idVars, ipcVars>>
    ELSE /\ env_free(e)
         /\ IF e = cpu_env[c]
            THEN sched_yield(c, Freed(e), NULL)
            ELSE trap_return(c, Freed(e))

-----------------------------------------------------------------------------
(***************************************************************************)
(* kern/trap.c: entering and leaving the kernel.                           *)
(***************************************************************************)

\* Some processor has called panic().
panicstr == \E c \in CPU : pc[c] = "stopped"

\* The top of trap() after a panic: hlt, with interrupts off.
Hlt(c) ==
    /\ pc[c] \in {"user", "halt"}
    /\ panicstr
    /\ pc' = [pc EXCEPT ![c] = "stopped"]
    /\ UNCHANGED <<kernel_lock, cpu_status, cpu_env, cr3, env_status, idVars, ipcVars>>

\* IRQ 1 wakes the boot processor from hlt: trap() marks it started and takes
\* the lock, and trap_dispatch panics over an unhandled trap in the kernel.
\* In user mode the same interrupt destroys the environment, see Fault.
KeyInterrupt(c) ==
    /\ "keyboard" \in Programs
    /\ c = BootCPU
    /\ pc[c] = "halt"
    /\ ~panicstr
    /\ kernel_lock = NoCPU
    /\ kernel_lock' = c
    /\ cpu_status' = [cpu_status EXCEPT ![c] = "CPU_STARTED"]
    /\ pc' = [pc EXCEPT ![c] = "stopped"]
    /\ UNCHANGED <<cpu_env, cr3, env_status, idVars, ipcVars>>

\* A trap, a system call or an interrupt reaches trap(): cpu_status tells a
\* halted processor from one in user mode, and what it says must agree with
\* where the processor really was, or the lock is taken twice or not at all.
Trap(c) ==
    /\ pc[c] \in {"user", "halt"}
    /\ ~panicstr
    /\ cpu_status' = [cpu_status EXCEPT ![c] = "CPU_STARTED"]
    /\ pc' = [pc EXCEPT ![c] =
                 IF (@ = "halt") # (cpu_status[c] = "CPU_HALTED") THEN "panic"
                 ELSE IF @ = "halt" THEN "spin" ELSE "trap"]
    /\ UNCHANGED <<kernel_lock, cpu_env, cr3, env_status, idVars, ipcVars>>

\* spin_lock gets the lock: at the start of a trap from user mode, on waking
\* from hlt, or at the end of mp_main.
lock_kernel(c) ==
    /\ pc[c] \in {"trap", "spin"}
    /\ kernel_lock = NoCPU
    /\ kernel_lock' = c
    /\ pc' = [pc EXCEPT ![c] = IF @ = "trap" THEN "kernel" ELSE "sched"]
    /\ UNCHANGED <<cpu_status, cpu_env, cr3, env_status, idVars, ipcVars>>

\* i386_init and mp_main, or a processor woken from hlt: the timer interrupt
\* calls sched_yield, a spurious one gets there at the end of trap().
EnterScheduler(c) ==
    /\ pc[c] = "sched"
    /\ sched_yield(c, env_status, cpu_env[c])
    /\ UNCHANGED <<idVars, ipcVars>>

\* env_pop_tf after unlock_kernel: iret into the environment.
env_pop_tf(c) ==
    /\ pc[c] = "pop"
    /\ pc' = [pc EXCEPT ![c] = "user"]
    /\ UNCHANGED <<kernel_lock, cpu_status, cpu_env, cr3, env_status, idVars, ipcVars>>

\* while (1) monitor(NULL) in sched_halt and in _panic, monitor(tf) after int3,
\* or hlt for good.
Monitor(c) ==
    /\ pc[c] \in {"monitor", "int3", "stopped"}
    /\ UNCHANGED vars

\* Mutant: the zombie is left behind without being freed.
MutCollectDropped(c) ==
    /\ pc[c] = "kernel"
    /\ env_status[cpu_env[c]] = "ENV_DYING"
    /\ sched_yield(c, env_status, NULL)
    /\ UNCHANGED <<idVars, ipcVars>>

\* The environment was destroyed while it ran here: collect it.
CollectZombie(c) ==
    /\ pc[c] = "kernel"
    /\ env_status[cpu_env[c]] = "ENV_DYING"
    /\ env_free(cpu_env[c])
    /\ sched_yield(c, Freed(cpu_env[c]), NULL)

\* Processor c is about to serve the trap of an environment that is no zombie.
Serving(c) ==
    /\ pc[c] = "kernel"
    /\ env_status[cpu_env[c]] # "ENV_DYING"

\* The timer interrupt and sys_yield.
Yield(c) ==
    /\ Serving(c)
    /\ sched_yield(c, env_status, cpu_env[c])
    /\ UNCHANGED <<idVars, ipcVars>>

\* A trap that leaves this state alone: sys_cputs, sys_cgetc, sys_getenvid,
\* the memory system calls, sys_env_set_pgfault_upcall, a page fault with an
\* upcall, a spurious interrupt, and every system call that fails.
Return(c) ==
    /\ Serving(c)
    /\ trap_return(c, env_status)
    /\ UNCHANGED <<idVars, ipcVars>>

\* An unexpected trap or interrupt, a page fault without upcall, or
\* user_mem_assert failing.
Fault(c) ==
    /\ Serving(c)
    /\ env_destroy(c, cpu_env[c])

\* int3: monitor(tf) keeps the lock, and none of its commands returns -1.
Breakpoint(c) ==
    /\ "breakpoint" \in Programs
    /\ Serving(c)
    /\ pc' = [pc EXCEPT ![c] = "int3"]
    /\ UNCHANGED <<kernel_lock, cpu_status, cpu_env, cr3, env_status, idVars, ipcVars>>

-----------------------------------------------------------------------------
(***************************************************************************)
(* kern/syscall.c.  Calls that fail are in Return.                         *)
(***************************************************************************)

\* The new environment keeps the status its creator gives it.
sys_exofork(c) ==
    /\ Serving(c)
    /\ env_free_list # << >>
    /\ LET child == Head(env_free_list)
       IN  /\ env_alloc(child, env_id[cpu_env[c]])
           /\ trap_return(c, [env_status EXCEPT ![child] = "ENV_NOT_RUNNABLE"])

\* Who a program calls sys_env_set_status on, see Liberty.
MaySetStatus(c, e) ==
    IF e = cpu_env[c] THEN "self" \in Programs
    ELSE \/ "wake" \in Programs
         \/ /\ env_status[e] \in {"ENV_RUNNABLE", "ENV_NOT_RUNNABLE"}
            /\ ~env_ipc_recving[e]

sys_env_set_status(c, id, status) ==
    /\ Serving(c)
    /\ LET e == envid2env(c, id, TRUE)
       IN  /\ e # NULL
           /\ MaySetStatus(c, e)
           /\ trap_return(c, [env_status EXCEPT ![e] = status])
    /\ UNCHANGED <<idVars, ipcVars>>

\* Who a program destroys, see Liberty.
MayDestroy(e) == "rekill" \in Programs \/ env_status[e] # "ENV_DYING"

sys_env_destroy(c, id) ==
    /\ Serving(c)
    /\ LET e == envid2env(c, id, TRUE)
       IN  /\ e # NULL
           /\ MayDestroy(e)
           /\ env_destroy(c, e)

\* Mutant: a message is taken by a target that is not waiting for one.
MutSendUnasked(c, id, msg) ==
    /\ Serving(c)
    /\ LET e == envid2env(c, id, FALSE)
       IN  /\ e # NULL
           /\ env_ipc_recving' = [env_ipc_recving EXCEPT ![e] = FALSE]
           /\ env_ipc_msg' = [env_ipc_msg EXCEPT ![e] = msg]
           /\ trap_return(c, [env_status EXCEPT ![e] = "ENV_RUNNABLE"])
    /\ UNCHANGED idVars

\* Mutant: the receiving flag is left set.
MutSendKeepsRecving(c, id, msg) ==
    /\ Serving(c)
    /\ LET e == envid2env(c, id, FALSE)
       IN  /\ e # NULL
           /\ env_ipc_recving[e]
           /\ env_ipc_msg' = [env_ipc_msg EXCEPT ![e] = msg]
           /\ trap_return(c, [env_status EXCEPT ![e] = "ENV_RUNNABLE"])
    /\ UNCHANGED <<env_ipc_recving, idVars>>

sys_ipc_try_send(c, id, msg) ==
    /\ Serving(c)
    /\ LET e == envid2env(c, id, FALSE)
       IN  /\ e # NULL
           /\ env_ipc_recving[e]
           /\ env_ipc_recving' = [env_ipc_recving EXCEPT ![e] = FALSE]
           /\ env_ipc_msg' = [env_ipc_msg EXCEPT ![e] = msg]
           /\ trap_return(c, [env_status EXCEPT ![e] = "ENV_RUNNABLE"])
    /\ UNCHANGED idVars

sys_ipc_recv(c) ==
    /\ Serving(c)
    /\ env_ipc_recving' = [env_ipc_recving EXCEPT ![cpu_env[c]] = TRUE]
    /\ sched_yield(c, [env_status EXCEPT ![cpu_env[c]] = "ENV_NOT_RUNNABLE"],
                   cpu_env[c])
    /\ UNCHANGED <<idVars, env_ipc_msg>>

-----------------------------------------------------------------------------
Syscall(c) ==
    \/ sys_exofork(c)
    \/ \E id \in EnvId, status \in {"ENV_RUNNABLE", "ENV_NOT_RUNNABLE"} :
          sys_env_set_status(c, id, status)
    \/ \E id \in EnvId : sys_env_destroy(c, id)
    \/ \E id \in EnvId, msg \in Message : sys_ipc_try_send(c, id, msg)
    \/ sys_ipc_recv(c)

Next ==
    \E c \in CPU :
        \/ Trap(c)
        \/ Hlt(c)
        \/ KeyInterrupt(c)
        \/ lock_kernel(c)
        \/ EnterScheduler(c)
        \/ env_pop_tf(c)
        \/ Monitor(c)
        \/ CollectZombie(c)
        \/ Yield(c)
        \/ Return(c)
        \/ Fault(c)
        \/ Breakpoint(c)
        \/ Syscall(c)

Spec == Init /\ [][Next]_vars

-----------------------------------------------------------------------------
(***************************************************************************)
(* Fairness.  Each processor's timer keeps interrupting it in user mode    *)
(* and in hlt, straight-line kernel code terminates, and a processor that  *)
(* spins in xchg gets the lock if the lock is free again and again (the    *)
(* pause in unlock_kernel is there for that).                              *)
(***************************************************************************)
Serve(c) ==
    \/ CollectZombie(c)
    \/ Yield(c)
    \/ Return(c)
    \/ Fault(c)
    \/ Breakpoint(c)
    \/ Syscall(c)

Fairness ==
    \A c \in CPU :
        /\ WF_vars(Trap(c))
        /\ SF_vars(lock_kernel(c))
        /\ WF_vars(EnterScheduler(c))
        /\ WF_vars(Serve(c))
        /\ WF_vars(env_pop_tf(c))

FairSpec == Spec /\ Fairness

\* Moreover, a processor that keeps serving traps is interrupted by its timer
\* (or its environments yield) again and again.
TimerSpec == FairSpec /\ \A c \in CPU : SF_vars(Yield(c))

-----------------------------------------------------------------------------
(***************************************************************************)
(* Safety                                                                  *)
(***************************************************************************)

\* Type invariant of the processors, the lock and the environment table.
TypeOK ==
    /\ kernel_lock \in CPU \cup {NoCPU}
    /\ pc \in [CPU -> Pc]
    /\ cpu_status \in [CPU -> {"CPU_UNUSED", "CPU_STARTED", "CPU_HALTED"}]
    /\ cpu_env \in [CPU -> Envs \cup {NULL}]
    /\ cr3 \in [CPU -> EnvId]
    /\ env_status \in [Envs -> Status]
    /\ env_id \in [Envs -> EnvId]
    /\ env_parent_id \in [Envs -> EnvId]
    /\ env_free_list \in Seq(Envs)
    /\ env_ipc_recving \in [Envs -> BOOLEAN]
    /\ env_ipc_msg \in [Envs -> Message \cup {0}]

\* The processor holding kernel_lock is the only one inside the kernel, and
\* cpu_status always tells trap() rightly whether to take the lock for a
\* processor it wakes: the lock is never taken twice nor released unheld.
\* Only a processor that panics dies with the lock.
LockDiscipline ==
    \A c \in CPU :
        /\ pc[c] \in {"kernel", "sched", "monitor", "int3"} => kernel_lock = c
        /\ kernel_lock = c =>
             pc[c] \in {"kernel", "sched", "monitor", "int3", "stopped"}
        /\ pc[c] = "halt" => cpu_status[c] = "CPU_HALTED"
        /\ cpu_status[c] = "CPU_HALTED" => pc[c] \in {"halt", "stopped"}
        /\ pc[c] # "panic"

\* Typing stops no processor: the comment above the input buffer of
\* kern/console.c says that what is typed is kept there whenever the
\* interrupt occurs.
TypingIsHarmless == \A c \in CPU : pc[c] # "stopped"

\* No environment is current on two processors: sched_yield never picks one
\* that runs elsewhere, whatever interrupts, system calls and wake-ups
\* happened on the other processors.
OneCpuPerEnv ==
    \A c, d \in CPU : c # d /\ cpu_env[c] = cpu_env[d] => cpu_env[c] = NULL

\* The status of an environment and the processors agree: one that is RUNNING
\* or DYING is current on some processor, and one that a processor executes,
\* or serves in the kernel, is RUNNING or DYING.  sched_yield, sched_halt and
\* env_destroy decide by status alone and rely on it.
StatusMatchesCpus ==
    /\ \A e \in Envs :
         env_status[e] \in Busy => \E c \in CPU : cpu_env[c] = e
    /\ \A c \in CPU :
         pc[c] \in Executing =>
            /\ cpu_env[c] # NULL
            /\ env_status[cpu_env[c]] \in Busy

\* A processor that runs or serves an environment has the page directory of
\* that very environment loaded, and it is not freed: no other processor
\* destroys, or destroys and reuses, the slot under it.
AddressSpaceAlive ==
    \A c \in CPU :
        pc[c] \in Executing =>
            /\ env_status[cpu_env[c]] # "ENV_FREE"
            /\ cr3[c] = env_id[cpu_env[c]]

\* An environment destroyed while it runs is not freed before it traps, which
\* is what the comment at the top of env_destroy says.
ZombieKeptUntilTrap ==
    \A c \in CPU :
        pc[c] \in {"pop", "user", "trap"} => env_status[cpu_env[c]] # "ENV_FREE"

\* env_free_list holds exactly the ENV_FREE slots, each once: no slot leaks
\* and none is handed out twice.
FreeListExact ==
    /\ {env_free_list[i] : i \in DOMAIN env_free_list} =
         {e \in Envs : env_status[e] = "ENV_FREE"}
    /\ \A i, j \in DOMAIN env_free_list :
         env_free_list[i] = env_free_list[j] => i = j

\* An environment that can be sent a message is blocked in sys_ipc_recv (or
\* its slot is free): a send never turns an environment that already runs
\* into one that another processor may pick up.
ReceiverParked ==
    \A e \in Envs :
        env_ipc_recving[e] => env_status[e] \in {"ENV_NOT_RUNNABLE", "ENV_FREE"}

\* A processor that gave up for lack of work and sits in the monitor with the
\* kernel lock cuts no environment off: none is executing or waiting for the
\* kernel on another processor.
MonitorOnlyWhenIdle ==
    \A c, d \in CPU :
        pc[c] = "monitor" /\ d # c => pc[d] \notin {"pop", "user", "trap"}

\* A processor halts only when no environment is runnable: the loop of
\* sched_yield, which starts in the middle of the table, wraps around and may
\* break off early at its own slot, has passed every slot by then.  Not so if
\* a program has just set itself ENV_RUNNABLE (liberty "self").
HaltsOnlyWithoutWork ==
    [][\A c \in CPU : pc[c] # "halt" /\ pc'[c] = "halt" =>
          \A e \in Envs : env_status'[e] # "ENV_RUNNABLE"]_vars

\* A message stays in the receiver's Env until the receiver asks for another:
\* it only changes in the step that wakes a receiver blocked for it.
MessageStable ==
    [][\A e \in Envs :
          env_ipc_msg'[e] # env_ipc_msg[e] =>
              /\ env_status[e] = "ENV_NOT_RUNNABLE"
              /\ env_status'[e] \in {"ENV_RUNNABLE", "ENV_RUNNING"}]_vars

-----------------------------------------------------------------------------
(***************************************************************************)
(* Liveness                                                                *)
(***************************************************************************)

\* A breakpoint or a panic keeps the lock for good: nothing is served any more.
Dead == \E c \in CPU : pc[c] \in {"int3", "stopped"}

\* A destroyed environment that was running elsewhere is eventually collected:
\* the processor running it traps, gets the lock and frees it.
ZombieCollected ==
    \A e \in Envs : env_status[e] = "ENV_DYING" ~> (env_status[e] = "ENV_FREE" \/ Dead)

\* A processor that trapped from user mode is not left spinning for the lock:
\* nobody keeps it in the monitor of sched_halt while there is somebody to run.
TrapServed ==
    \A c \in CPU : pc[c] = "trap" ~> (pc[c] # "trap" \/ Dead)

NoneStarves ==
    \A e \in Envs :
        env_status[e] = "ENV_RUNNABLE" ~> (env_status[e] # "ENV_RUNNABLE" \/ Dead)

SomeEnvFreed ==
    \E e \in Envs : env_status[e] # "ENV_FREE" /\ env_status'[e] = "ENV_FREE"

\* What sched_yield does guarantee: a runnable environment is passed over for
\* ever only if environments keep being destroyed, after which a processor
\* scans from slot 0 again.
RoundRobinWithoutExits ==
    NoneStarves \/ []<><<SomeEnvFreed>>_vars

=============================================================================
