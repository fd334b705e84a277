-------------------------------- MODULE Boot ---------------------------------
(***************************************************************************)
(* Bringing up the processors: the boot processor reads the BIOS tables    *)
(* (kern/mpconfig.c), takes the big kernel lock and starts the others one  *)
(* at a time (boot_aps in kern/init.c, lapic_startap in kern/lapic.c); a   *)
(* started processor runs kern/mpentry.S and mp_main, which share with the *)
(* boot processor one stack pointer, one static MMIO pointer, the console  *)
(* and the lock.  The lock of kern/spinlock.c is taken step by step here,  *)
(* with the owner that DEBUG_SPINLOCK records.  Of the environments only   *)
(* their number matters here, that the scheduler halts or enters the       *)
(* monitor by: module Kernel has the rest.                                 *)
(***************************************************************************)
EXTENDS Integers, Sequences, FiniteSets

CONSTANTS
    NCPU,
    NENV,
    Bios        \* the MP tables a machine may have: records with the fields
                \* valid (mpconfig accepts the headers) and entries, a
                \* sequence of "proc", "other" and "unknown".  The boot
                \* processor is the first processor listed and the local
                \* APIC ids count from 0 in the order of the table.

Cpu == 0 .. NCPU - 1

Bsp == 0

ASSUME BootAssumption ==
    /\ NCPU \in Nat \ {0} /\ NENV \in Nat \ {0}
    /\ \A b \in Bios : /\ b.valid \in BOOLEAN
                       /\ b.entries \in Seq({"proc", "other", "unknown"})
                       /\ b.entries = <<>> \/ b.entries[1] = "proc"

BootStack == NCPU       \* bootstack of kern/entry.S
NoStack   == NCPU + 1

VARIABLES
    pc,             \* where each processor is
    ncpu,
    lapicaddr,      \* is there a local APIC?
    ap,             \* the loop variable c of boot_aps
    mpentry_kstack,
    kstack,         \* the stack each processor is on
    ts_esp0,        \* and the one its task state gives it on a trap
    cpu_status,
    mmio_base,      \* the static pointer of mmio_map_region, in regions
    region,         \* the region each processor mapped for the local APIC
    locked, owner,  \* kernel_lock
    created,        \* ENV_CREATE is done
    ready,          \* how many environments are ENV_RUNNABLE
    busy            \* the processors with an environment, ENV_RUNNING or
                    \* ENV_DYING, on them

machineVars == <<ncpu, lapicaddr>>
stackVars == <<mpentry_kstack, kstack, ts_esp0>>
mmioVars == <<mmio_base, region>>
lockVars == <<locked, owner>>
envVars == <<created, ready, busy>>
vars == <<pc, machineVars, ap, stackVars, cpu_status, mmioVars, lockVars, envVars>>

\* trap_init has run trap_init_percpu for cpus[0] already.
Init ==
    /\ pc = [c \in Cpu |-> IF c = Bsp THEN "mp_init" ELSE "off"]
    /\ ncpu = 0 /\ lapicaddr = FALSE
    /\ ap = 0
    /\ mpentry_kstack = NoStack
    /\ kstack = [c \in Cpu |-> IF c = Bsp THEN BootStack ELSE NoStack]
    /\ ts_esp0 = [c \in Cpu |-> IF c = Bsp THEN Bsp ELSE NoStack]
    /\ cpu_status = [c \in Cpu |-> "CPU_UNUSED"]
    /\ mmio_base = 0
    /\ region = [c \in Cpu |-> -1]
    /\ locked = 0 /\ owner = -1
    /\ created = FALSE /\ ready = 0 /\ busy = {}

Step(c, from, to) == pc[c] = from /\ pc' = [pc EXCEPT ![c] = to]

Min2(a, b) == IF a < b THEN a ELSE b

-----------------------------------------------------------------------------
(***************************************************************************)
(* mp_init                                                                 *)
(***************************************************************************)
\* The processors listed before the first entry of an unknown type.
Processors(entries) ==
    {k \in DOMAIN entries :
        entries[k] = "proc" /\ \A j \in 1 .. k : entries[j] # "unknown"}

ismp(b) == b.valid /\ \A k \in DOMAIN b.entries : b.entries[k] # "unknown"

\* Without a table ncpu stays 0 and the status of the boot processor too;
\* with a table that is not understood, the boot processor goes on alone.
mp_init ==
    /\ Step(Bsp, "mp_init", "lapic_read")
    /\ \E b \in Bios :
         /\ ncpu' = IF ~b.valid THEN 0
                    ELSE IF ~ismp(b) THEN 1
                    ELSE Min2(NCPU, Cardinality(Processors(b.entries)))
         /\ lapicaddr' = ismp(b)
         /\ cpu_status' = IF b.valid
                          THEN [cpu_status EXCEPT ![Bsp] = "CPU_STARTED"]
                          ELSE cpu_status
    /\ UNCHANGED <<ap, stackVars, mmioVars, lockVars, envVars>>

(***************************************************************************)
(* lapic_init: mmio_map_region reads its static pointer, maps there and    *)
(* moves the pointer on.                                                   *)
(***************************************************************************)
\* Mutant: the boot processor starts the others before it takes the lock.
MutLocksLate(c) == IF c = Bsp THEN "boot_aps" ELSE "percpu"

AfterLapic(c) == IF c = Bsp THEN "lock" ELSE "percpu"

lapic_read(c) ==
    /\ Step(c, "lapic_read", IF lapicaddr THEN "lapic_write" ELSE AfterLapic(c))
    /\ region' = IF lapicaddr THEN [region EXCEPT ![c] = mmio_base] ELSE region
    /\ UNCHANGED <<machineVars, ap, stackVars, cpu_status, mmio_base, lockVars, envVars>>

lapic_write(c) ==
    /\ Step(c, "lapic_write", AfterLapic(c))
    /\ mmio_base' = region[c] + 1
    /\ UNCHANGED <<machineVars, ap, stackVars, cpu_status, region, lockVars, envVars>>

-----------------------------------------------------------------------------
(***************************************************************************)
(* spin_lock and spin_unlock                                               *)
(***************************************************************************)
holding(c) == locked = 1 /\ owner = c

\* The debugging check, which panics in a processor that has the lock.
spin_lock(c) ==
    /\ Step(c, "lock", IF holding(c) THEN "panic" ELSE "xchg")
    /\ UNCHANGED <<machineVars, ap, stackVars, cpu_status, mmioVars, lockVars, envVars>>

xchg(c) ==
    /\ locked = 0
    /\ Step(c, "xchg", "own")
    /\ locked' = 1
    /\ UNCHANGED <<machineVars, ap, stackVars, cpu_status, mmioVars, owner, envVars>>

\* The owner is recorded, and the processor goes on with what it wanted the
\* lock for: starting the others, the trap of its environment, the scheduler.
Own(c) ==
    /\ Step(c, "own", IF c = Bsp /\ ~created THEN "boot_aps"
                      ELSE IF c \in busy THEN "trap" ELSE "sched")
    /\ owner' = c
    /\ UNCHANGED <<machineVars, ap, stackVars, cpu_status, mmioVars, locked, envVars>>

\* Mutant: the record of the owner outlives the release.
MutKeepsOwner(c) ==
    /\ Step(c, "unlock", IF holding(c) THEN "open" ELSE "panic")
    /\ UNCHANGED <<machineVars, ap, stackVars, cpu_status, mmioVars, lockVars, envVars>>

spin_unlock(c) ==
    /\ Step(c, "unlock", IF holding(c) THEN "open" ELSE "panic")
    /\ owner' = IF holding(c) THEN -1 ELSE owner
    /\ UNCHANGED <<machineVars, ap, stackVars, cpu_status, mmioVars, locked, envVars>>

\* From here a processor that is not halted returns to user mode.
Open(c) ==
    /\ Step(c, "open", IF cpu_status[c] = "CPU_HALTED" THEN "halted" ELSE "user")
    /\ locked' = 0
    /\ UNCHANGED <<machineVars, ap, stackVars, cpu_status, mmioVars, owner, envVars>>

-----------------------------------------------------------------------------
(***************************************************************************)
(* boot_aps                                                                *)
(***************************************************************************)
boot_aps ==
    /\ ap < ncpu /\ ap # Bsp
    /\ Step(Bsp, "boot_aps", "INIT")
    /\ mpentry_kstack' = ap
    /\ UNCHANGED <<machineVars, ap, kstack, ts_esp0, cpu_status, mmioVars, lockVars, envVars>>

Skip ==
    /\ ap = Bsp /\ ncpu > 0
    /\ Step(Bsp, "boot_aps", "boot_aps")
    /\ ap' = ap + 1
    /\ UNCHANGED <<machineVars, stackVars, cpu_status, mmioVars, lockVars, envVars>>

\* lapic_startap resets the processor, whatever it does, and then sends two
\* STARTUPs; a processor takes one only when it waits after a reset.
InitIpi ==
    /\ pc[Bsp] = "INIT"
    /\ pc' = [pc EXCEPT ![Bsp] = "STARTUP1", ![ap] = "reset"]
    /\ UNCHANGED <<machineVars, ap, stackVars, cpu_status, mmioVars, lockVars, envVars>>

StartupIpi(n, next) ==
    /\ pc[Bsp] = n
    /\ pc' = [pc EXCEPT ![Bsp] = next,
                        ![ap] = IF @ = "reset" THEN "mpentry" ELSE @]
    /\ UNCHANGED <<machineVars, ap, stackVars, cpu_status, mmioVars, lockVars, envVars>>

\* Mutant: the boot processor does not wait for the one it started.
MutNoWait ==
    /\ Step(Bsp, "wait", "boot_aps")
    /\ ap' = ap + 1
    /\ UNCHANGED <<machineVars, stackVars, cpu_status, mmioVars, lockVars, envVars>>

Wait ==
    /\ Step(Bsp, "wait", "boot_aps")
    /\ cpu_status[ap] = "CPU_STARTED"
    /\ ap' = ap + 1
    /\ UNCHANGED <<machineVars, stackVars, cpu_status, mmioVars, lockVars, envVars>>

\* The end of i386_init: the first environments, and into the scheduler.
ENV_CREATE ==
    /\ ap >= ncpu
    /\ Step(Bsp, "boot_aps", "sched")
    /\ created' = TRUE
    /\ ready' \in 1 .. NENV
    /\ UNCHANGED <<machineVars, ap, stackVars, cpu_status, mmioVars, lockVars, busy>>

-----------------------------------------------------------------------------
(***************************************************************************)
(* mpentry.S and mp_main                                                   *)
(***************************************************************************)
mpentry(c) ==
    /\ Step(c, "mpentry", "mp_main")
    /\ kstack' = [kstack EXCEPT ![c] = mpentry_kstack]
    /\ UNCHANGED <<machineVars, ap, mpentry_kstack, ts_esp0, cpu_status, mmioVars, lockVars, envVars>>

\* Mutant: the processor reports before it is done.
MutReportsEarly(c) ==
    /\ Step(c, "mp_main", "lapic_read")
    /\ cpu_status' = [cpu_status EXCEPT ![c] = "CPU_STARTED"]
    /\ UNCHANGED <<machineVars, ap, stackVars, mmioVars, lockVars, envVars>>

\* "SMP: CPU %d starting", on the console of everyone.
mp_main(c) ==
    /\ Step(c, "mp_main", "lapic_read")
    /\ UNCHANGED <<machineVars, ap, stackVars, cpu_status, mmioVars, lockVars, envVars>>

trap_init_percpu(c) ==
    /\ Step(c, "percpu", "report")
    /\ ts_esp0' = [ts_esp0 EXCEPT ![c] = c]
    /\ UNCHANGED <<machineVars, ap, mpentry_kstack, kstack, cpu_status, mmioVars, lockVars, envVars>>

Report(c) ==
    /\ Step(c, "report", "lock")
    /\ cpu_status' = [cpu_status EXCEPT ![c] = "CPU_STARTED"]
    /\ UNCHANGED <<machineVars, ap, stackVars, mmioVars, lockVars, envVars>>

-----------------------------------------------------------------------------
(***************************************************************************)
(* The scheduler, as far as it concerns starting.                          *)
(***************************************************************************)

\* What a trap may do to the environments: the one of the processor stays, or
\* it exits, waits or is collected, and others are created, woken or destroyed.
\* One that another processor runs is not taken from it.
trap_dispatch(c) ==
    /\ Step(c, "trap", "sched")
    /\ busy' \in {busy, busy \ {c}}
    /\ ready' \in 0 .. NENV - Cardinality(busy')
    /\ UNCHANGED <<machineVars, ap, stackVars, cpu_status, mmioVars, lockVars, created>>

\* sched_yield goes on with the environment of the processor, or takes one
\* that is runnable and leaves that one runnable.
env_run(c) ==
    /\ c \in busy \/ ready > 0
    /\ Step(c, "sched", "unlock")
    /\ busy' = busy \cup {c}
    /\ ready' = IF c \in busy THEN ready ELSE ready - 1
    /\ UNCHANGED <<machineVars, ap, stackVars, cpu_status, mmioVars, lockVars, created>>


\* With no environment in the system the processor stays in the monitor and
\* keeps the lock.
sched_halt(c) ==
    /\ c \notin busy /\ ready = 0
    /\ Step(c, "sched", IF busy = {} THEN "monitor" ELSE "unlock")
    /\ cpu_status' = IF busy = {} THEN cpu_status
                     ELSE [cpu_status EXCEPT ![c] = "CPU_HALTED"]
    /\ UNCHANGED <<machineVars, ap, stackVars, mmioVars, lockVars, envVars>>

\* The monitor reads its commands for ever.
monitor(c) == pc[c] = "monitor" /\ UNCHANGED vars

\* A trap from user mode or an interrupt in the halt loop: the processor is
\* on the stack of its task state, marks itself started and takes the lock.
trap(c) ==
    /\ pc[c] \in {"user", "halted"}
    /\ pc' = [pc EXCEPT ![c] = "lock"]
    /\ kstack' = [kstack EXCEPT ![c] = ts_esp0[c]]
    /\ cpu_status' = [cpu_status EXCEPT ![c] = "CPU_STARTED"]
    /\ UNCHANGED <<machineVars, ap, mpentry_kstack, ts_esp0, mmioVars, lockVars, envVars>>

BspStep ==
    \/ mp_init \/ boot_aps \/ Skip \/ InitIpi \/ Wait \/ ENV_CREATE
    \/ StartupIpi("STARTUP1", "STARTUP2") \/ StartupIpi("STARTUP2", "wait")

CpuStep(c) ==
    \/ lapic_read(c) \/ lapic_write(c)
    \/ spin_lock(c) \/ Own(c)
    \/ spin_unlock(c) \/ Open(c)
    \/ mpentry(c) \/ mp_main(c) \/ trap_init_percpu(c) \/ Report(c)
    \/ trap_dispatch(c) \/ env_run(c) \/ sched_halt(c)

Next == BspStep \/ \E c \in Cpu : CpuStep(c) \/ xchg(c) \/ trap(c) \/ monitor(c)

\* Processors run; the xchg that takes the lock is tried again and again and
\* succeeds in the end if the lock is free again and again.
Fairness ==
    /\ WF_vars(BspStep)
    /\ \A c \in Cpu : WF_vars(CpuStep(c)) /\ SF_vars(xchg(c))

Spec == Init /\ [][Next]_vars /\ Fairness
-----------------------------------------------------------------------------
\* The processors that execute C code.
Running == {c \in Cpu : pc[c] \notin {"off", "reset", "mpentry"}}

(***************************************************************************)
(* No two processors are on the same kernel stack: boot_aps hands the one  *)
(* variable mpentry_kstack to the next processor only when the last one    *)
(* has read it, and a trap or the halt loop goes to the processor's own.   *)
(***************************************************************************)
OwnStack ==
    \A c, d \in Running : c # d => kstack[c] # kstack[d]

(***************************************************************************)
(* The local APIC is mapped once per processor in a region of its own,     *)
(* although mmio_map_region moves its static pointer without a lock.       *)
(***************************************************************************)
OwnRegion ==
    \A c, d \in Cpu : c # d /\ region[c] # -1 => region[c] # region[d]

(***************************************************************************)
(* The owner recorded in the lock, which is written after the lock is      *)
(* taken and cleared before it is released, never makes spin_lock or       *)
(* spin_unlock panic.                                                      *)
(***************************************************************************)
NoLockPanic == \A c \in Cpu : pc[c] # "panic"

(***************************************************************************)
(* A started processor does not find the environment table empty and drop  *)
(* into the monitor, with the lock, before i386_init has filled it; a      *)
(* processor is there only when every environment is gone, and none comes  *)
(* back while it is.                                                       *)
(***************************************************************************)
NoEarlyMonitor ==
    \A c \in Cpu : pc[c] = "monitor" => created /\ ready = 0 /\ busy = {}

=============================================================================
