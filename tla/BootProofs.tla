----------------------------- MODULE BootProofs ------------------------------
(***************************************************************************)
(* Proofs about module Boot, for any number of processors and any set of   *)
(* BIOS tables: the invariants that the runs check on four processors.     *)
(***************************************************************************)
EXTENDS Boot, FiniteSetTheorems, TLAPS

\* Where the boot processor is until it has the lock, and while it starts the
\* others.
BspFirst == {"mp_init", "lapic_read", "lapic_write", "lock", "xchg", "own"}
BspStarts == {"boot_aps", "INIT", "STARTUP1", "STARTUP2", "wait"}

\* Where another processor is before it reports.
Asleep == {"off", "reset", "mpentry"}
Comes == {"mpentry", "mp_main", "lapic_read", "lapic_write", "percpu", "report"}

\* Where every processor is once it is started: spinning for the lock, in the
\* scheduler with it, or outside the kernel.
Spins == {"lock", "xchg"}
Works == Spins \cup {"own", "trap", "sched", "unlock", "open", "halted", "user", "monitor"}

\* The lock is taken, and its owner recorded.
Owned == BspStarts \cup {"trap", "sched", "unlock", "monitor"}
Taken == Owned \cup {"own", "open"}

BootPc == BspFirst \cup BspStarts \cup Asleep \cup Comes \cup Works

BootTypeOK ==
    /\ pc \in [Cpu -> BootPc]
    /\ ncpu \in 0 .. NCPU
    /\ lapicaddr \in BOOLEAN
    /\ ap \in 0 .. NCPU
    /\ kstack \in [Cpu -> 0 .. NCPU + 1]
    /\ ts_esp0 \in [Cpu -> 0 .. NCPU + 1]
    /\ mpentry_kstack \in 0 .. NCPU + 1
    /\ cpu_status \in [Cpu -> {"CPU_UNUSED", "CPU_STARTED", "CPU_HALTED"}]
    /\ mmio_base \in Nat
    /\ region \in [Cpu -> Int]
    /\ locked \in {0, 1}
    /\ owner \in Cpu \cup {-1}
    /\ created \in BOOLEAN

\* The lock excludes, and the record of its owner names the one that has it
\* from the step after taking it to the step before releasing it.
LockInv ==
    /\ locked = 0 => \A c \in Cpu : pc[c] \notin Taken
    /\ \A c, d \in Cpu : c # d => ~(pc[c] \in Taken /\ pc[d] \in Taken)
    /\ \A c \in Cpu : owner = c <=> pc[c] \in Owned

\* Processors are started one at a time: those before ap are started, those
\* after it are off, and ap itself is on its way only while the boot processor
\* waits for it.
PhaseInv ==
    /\ ~created => pc[Bsp] \in BspFirst \cup BspStarts
    /\ created => pc[Bsp] \in Works
    /\ ~created /\ pc[Bsp] \in BspFirst => ap = 0
    /\ pc[Bsp] \in BspStarts \ {"boot_aps"} => ap < ncpu /\ ap # Bsp
    /\ \A c \in Cpu \ {Bsp} :
         /\ c < ap => pc[c] \in Works /\ (~created => pc[c] \in Spins)
         /\ c > ap => pc[c] = "off"
         /\ c = ap => CASE pc[Bsp] = "STARTUP1" -> pc[c] = "reset"
                        [] pc[Bsp] \in {"STARTUP2", "wait"} -> pc[c] \in Comes \cup Spins
                        [] OTHER -> pc[c] = "off"
         /\ pc[c] \in Asleep \cup Comes => cpu_status[c] = "CPU_UNUSED"

\* The one variable that passes a stack is the one of the processor that is
\* started, and each processor is on the stack that belongs to it.
StackInv ==
    /\ pc[Bsp] \in BspStarts \ {"boot_aps"} => mpentry_kstack = ap
    /\ kstack[Bsp] \in {BootStack, Bsp}
    /\ ts_esp0[Bsp] = Bsp
    /\ \A c \in Cpu \ {Bsp} :
         /\ c \in Running => kstack[c] = c
         /\ pc[c] \in Works \cup {"report"} => ts_esp0[c] = c

\* The pointer of mmio_map_region is past every region that was mapped, except
\* the one of the processor that has read it and not moved it on.
RegionInv ==
    /\ \A c \in Cpu :
         IF pc[c] = "lapic_write" THEN region[c] = mmio_base
         ELSE region[c] < mmio_base
    /\ \A c \in Cpu : region[c] >= -1
    /\ OwnRegion

\* The monitor has the lock, so that the environments stay gone.
EnvInv == ready \in Int /\ NoEarlyMonitor

BootInv == BootTypeOK /\ LockInv /\ PhaseInv /\ StackInv /\ RegionInv /\ EnvInv

-----------------------------------------------------------------------------
\* The number of processors that mp_init finds.
LEMMA FoundType ==
  ASSUME NEW b \in Bios
  PROVE  Min2(NCPU, Cardinality(Processors(b.entries))) \in 0 .. NCPU
  <1>1. b.entries \in Seq({"proc", "other", "unknown"}) BY BootAssumption
  <1>2. IsFiniteSet(1 .. Len(b.entries)) BY <1>1, FS_Interval
  <1>3. Processors(b.entries) \in SUBSET (1 .. Len(b.entries))
    BY <1>1 DEF Processors
  <1>4. IsFiniteSet(Processors(b.entries)) BY <1>2, <1>3, FS_Subset
  <1>5. Cardinality(Processors(b.entries)) \in Nat BY <1>4, FS_CardinalityType
  <1> QED BY <1>5, BootAssumption DEF Min2

\* The processors that count from 0.
LEMMA BspInCpu == Bsp \in Cpu /\ Cpu \subseteq 0 .. NCPU - 1 /\ NCPU \in Nat
  BY BootAssumption DEF Bsp, Cpu

\* Before mp_init nothing is shared.
LEMMA InitInv == Init => BootInv
  <1> SUFFICES ASSUME Init PROVE BootInv
    OBVIOUS
  <1> USE BspInCpu DEF Init
  <1>1. BootTypeOK
    <2>1. pc \in [Cpu -> BootPc] BY DEF BootPc, BspFirst, Asleep
    <2>2. kstack \in [Cpu -> 0 .. NCPU + 1] /\ ts_esp0 \in [Cpu -> 0 .. NCPU + 1]
      BY DEF BootStack, NoStack, Bsp
    <2>3. lapicaddr \in BOOLEAN /\ created \in BOOLEAN OBVIOUS
    <2>4. cpu_status \in [Cpu -> {"CPU_UNUSED", "CPU_STARTED", "CPU_HALTED"}]
      OBVIOUS
    <2> QED BY <2>1, <2>2, <2>3, <2>4 DEF BootTypeOK, NoStack
  <1>2. LockInv
    BY DEF LockInv, Taken, Owned, BspStarts
  <1>3. PhaseInv
    BY DEF PhaseInv, BspFirst, BspStarts, Asleep, Comes, Bsp, Cpu
  <1>4. StackInv
    BY DEF StackInv, BspStarts, Running, Works, Spins, Bsp
  <1>5. RegionInv
    BY DEF RegionInv, OwnRegion
  <1>6. EnvInv
    BY DEF EnvInv, NoEarlyMonitor
  <1> QED BY <1>1, <1>2, <1>3, <1>4, <1>5, <1>6 DEF BootInv
-----------------------------------------------------------------------------
(***************************************************************************)
(* One lemma per action.                                                   *)
(***************************************************************************)
USE DEF BspFirst, BspStarts, Asleep, Comes, Spins, Works, Owned, Taken,
        machineVars, stackVars, mmioVars, lockVars, envVars

\* mp_init counts the processors.
LEMMA MpInitInv ==
  ASSUME BootInv, mp_init
  PROVE  BootInv'
  <1> USE BspInCpu DEF BootInv, mp_init, Step
  <1>0. PICK b \in Bios :
          /\ ncpu' = IF ~b.valid THEN 0
                     ELSE IF ~ismp(b) THEN 1
                     ELSE Min2(NCPU, Cardinality(Processors(b.entries)))
          /\ lapicaddr' = ismp(b)
          /\ cpu_status' = IF b.valid
                           THEN [cpu_status EXCEPT ![Bsp] = "CPU_STARTED"]
                           ELSE cpu_status
    OBVIOUS
  <1>1. BootTypeOK'
    <2>1. ncpu' \in 0 .. NCPU BY <1>0, FoundType, BootAssumption
    <2>2. lapicaddr' \in BOOLEAN BY <1>0, BootAssumption DEF ismp
    <2>3. pc' \in [Cpu -> BootPc] BY DEF BootTypeOK, BootPc
    <2>4. cpu_status' \in [Cpu -> {"CPU_UNUSED", "CPU_STARTED", "CPU_HALTED"}]
      BY <1>0 DEF BootTypeOK
    <2> QED BY <2>1, <2>2, <2>3, <2>4 DEF BootTypeOK
  <1>2. LockInv' BY DEF LockInv, BootTypeOK, PhaseInv
  <1>3. PhaseInv' BY DEF PhaseInv, BootTypeOK, LockInv
  <1>4. StackInv' BY DEF StackInv, BootTypeOK, PhaseInv, Running
  <1>5. RegionInv' BY DEF RegionInv, BootTypeOK, OwnRegion, PhaseInv
  <1>6. EnvInv' BY DEF EnvInv, NoEarlyMonitor, BootTypeOK, LockInv, PhaseInv
  <1> QED BY <1>1, <1>2, <1>3, <1>4, <1>5, <1>6

\* mmio_map_region reads its pointer: nobody else is between reading it and
\* moving it on.
LEMMA LapicReadInv ==
  ASSUME BootInv, NEW c \in Cpu, lapic_read(c)
  PROVE  BootInv'
  <1> USE BspInCpu DEF BootInv, lapic_read, Step, AfterLapic
  <1>1. BootTypeOK' BY DEF BootTypeOK, BootPc
  <1>2. LockInv' BY DEF LockInv, BootTypeOK, PhaseInv
  <1>3. PhaseInv' BY DEF PhaseInv, BootTypeOK, LockInv
  <1>4. StackInv' BY DEF StackInv, BootTypeOK, PhaseInv, Running
  <1>5. RegionInv' BY DEF RegionInv, BootTypeOK, OwnRegion, PhaseInv
  <1>6. EnvInv' BY DEF EnvInv, NoEarlyMonitor, BootTypeOK, LockInv, PhaseInv
  <1> QED BY <1>1, <1>2, <1>3, <1>4, <1>5, <1>6

\* mmio_map_region moves its pointer on.
LEMMA LapicWriteInv ==
  ASSUME BootInv, NEW c \in Cpu, lapic_write(c)
  PROVE  BootInv'
  <1> USE BspInCpu DEF BootInv, lapic_write, Step, AfterLapic
  <1>1. BootTypeOK' BY DEF BootTypeOK, RegionInv, BootPc
  <1>2. LockInv' BY DEF LockInv, BootTypeOK, PhaseInv
  <1>3. PhaseInv' BY DEF PhaseInv, BootTypeOK, LockInv
  <1>4. StackInv' BY DEF StackInv, BootTypeOK, PhaseInv, Running
  <1>5. RegionInv' BY DEF RegionInv, BootTypeOK, OwnRegion, PhaseInv
  <1>6. EnvInv' BY DEF EnvInv, NoEarlyMonitor, BootTypeOK, LockInv, PhaseInv
  <1> QED BY <1>1, <1>2, <1>3, <1>4, <1>5, <1>6

\* The check of spin_lock, which only the owner would fail.
LEMMA SpinLockInv ==
  ASSUME BootInv, NEW c \in Cpu, spin_lock(c)
  PROVE  BootInv'
  <1> USE BspInCpu DEF BootInv, spin_lock, Step, holding
  <1>1. BootTypeOK' BY DEF BootTypeOK, LockInv, BootPc
  <1>2. LockInv' BY DEF LockInv, BootTypeOK, PhaseInv
  <1>3. PhaseInv' BY DEF PhaseInv, BootTypeOK, LockInv
  <1>4. StackInv' BY DEF StackInv, BootTypeOK, PhaseInv, Running
  <1>5. RegionInv' BY DEF RegionInv, BootTypeOK, OwnRegion, PhaseInv
  <1>6. EnvInv' BY DEF EnvInv, NoEarlyMonitor, BootTypeOK, LockInv, PhaseInv
  <1> QED BY <1>1, <1>2, <1>3, <1>4, <1>5, <1>6

\* Taking the lock.
LEMMA XchgInv ==
  ASSUME BootInv, NEW c \in Cpu, xchg(c)
  PROVE  BootInv'
  <1> USE BspInCpu DEF BootInv, xchg, Step
  <1>1. BootTypeOK' BY DEF BootTypeOK, BootPc
  <1>2. LockInv' BY DEF LockInv, BootTypeOK, PhaseInv
  <1>3. PhaseInv' BY DEF PhaseInv, BootTypeOK, LockInv
  <1>4. StackInv' BY DEF StackInv, BootTypeOK, PhaseInv, Running
  <1>5. RegionInv' BY DEF RegionInv, BootTypeOK, OwnRegion, PhaseInv
  <1>6. EnvInv' BY DEF EnvInv, NoEarlyMonitor, BootTypeOK, LockInv, PhaseInv
  <1> QED BY <1>1, <1>2, <1>3, <1>4, <1>5, <1>6

\* Recording the owner.
LEMMA OwnInv ==
  ASSUME BootInv, NEW c \in Cpu, Own(c)
  PROVE  BootInv'
  <1> USE BspInCpu DEF BootInv, Own, Step
  <1>1. BootTypeOK' BY DEF BootTypeOK, BootPc
  <1>2. LockInv' BY DEF LockInv, BootTypeOK, PhaseInv
  <1>3. PhaseInv' BY DEF PhaseInv, BootTypeOK, LockInv
  <1>4. StackInv' BY DEF StackInv, BootTypeOK, PhaseInv, Running
  <1>5. RegionInv' BY DEF RegionInv, BootTypeOK, OwnRegion, PhaseInv
  <1>6. EnvInv' BY DEF EnvInv, NoEarlyMonitor, BootTypeOK, LockInv, PhaseInv
  <1> QED BY <1>1, <1>2, <1>3, <1>4, <1>5, <1>6

\* The check of spin_unlock, which the owner passes.
LEMMA SpinUnlockInv ==
  ASSUME BootInv, NEW c \in Cpu, spin_unlock(c)
  PROVE  BootInv'
  <1> USE BspInCpu DEF BootInv, spin_unlock, Step, holding
  <1>1. BootTypeOK' BY DEF BootTypeOK, LockInv, BootPc
  <1>2. LockInv' BY DEF LockInv, BootTypeOK, PhaseInv
  <1>3. PhaseInv' BY DEF PhaseInv, BootTypeOK, LockInv
  <1>4. StackInv' BY DEF StackInv, BootTypeOK, PhaseInv, Running
  <1>5. RegionInv' BY DEF RegionInv, BootTypeOK, OwnRegion, PhaseInv
  <1>6. EnvInv' BY DEF EnvInv, NoEarlyMonitor, BootTypeOK, LockInv, PhaseInv
  <1> QED BY <1>1, <1>2, <1>3, <1>4, <1>5, <1>6

\* Releasing the lock.
LEMMA OpenInv ==
  ASSUME BootInv, NEW c \in Cpu, Open(c)
  PROVE  BootInv'
  <1> USE BspInCpu DEF BootInv, Open, Step
  <1>1. BootTypeOK' BY DEF BootTypeOK, BootPc
  <1>2. LockInv' BY DEF LockInv, BootTypeOK, PhaseInv
  <1>3. PhaseInv' BY DEF PhaseInv, BootTypeOK, LockInv
  <1>4. StackInv' BY DEF StackInv, BootTypeOK, PhaseInv, Running
  <1>5. RegionInv' BY DEF RegionInv, BootTypeOK, OwnRegion, PhaseInv
  <1>6. EnvInv' BY DEF EnvInv, NoEarlyMonitor, BootTypeOK, LockInv, PhaseInv
  <1> QED BY <1>1, <1>2, <1>3, <1>4, <1>5, <1>6

\* The stack of the next processor is passed.
LEMMA BootApsInv ==
  ASSUME BootInv, boot_aps
  PROVE  BootInv'
  <1> USE BspInCpu DEF BootInv, boot_aps, Step
  <1>1. BootTypeOK' BY DEF BootTypeOK, BootPc
  <1>2. LockInv' BY DEF LockInv, BootTypeOK, PhaseInv
  <1>3. PhaseInv' BY DEF PhaseInv, BootTypeOK, LockInv
  <1>4. StackInv' BY DEF StackInv, BootTypeOK, PhaseInv, Running
  <1>5. RegionInv' BY DEF RegionInv, BootTypeOK, OwnRegion, PhaseInv
  <1>6. EnvInv' BY DEF EnvInv, NoEarlyMonitor, BootTypeOK, LockInv, PhaseInv
  <1> QED BY <1>1, <1>2, <1>3, <1>4, <1>5, <1>6

\* The boot processor does not start itself.
LEMMA SkipInv ==
  ASSUME BootInv, Skip
  PROVE  BootInv'
  <1> USE BspInCpu DEF BootInv, Skip, Step
  <1>1. BootTypeOK' BY DEF BootTypeOK, BootPc
  <1>2. LockInv' BY DEF LockInv, BootTypeOK, PhaseInv
  <1>3. PhaseInv' BY DEF PhaseInv, BootTypeOK, LockInv
  <1>4. StackInv' BY DEF StackInv, BootTypeOK, PhaseInv, Running
  <1>5. RegionInv' BY DEF RegionInv, BootTypeOK, OwnRegion, PhaseInv
  <1>6. EnvInv' BY DEF EnvInv, NoEarlyMonitor, BootTypeOK, LockInv, PhaseInv
  <1> QED BY <1>1, <1>2, <1>3, <1>4, <1>5, <1>6

\* The processor that is reset was off.
LEMMA InitIpiInv ==
  ASSUME BootInv, InitIpi
  PROVE  BootInv'
  <1> USE BspInCpu DEF BootInv, InitIpi
  <1>1. BootTypeOK' BY DEF BootTypeOK, BootPc
  <1>2. LockInv' BY DEF LockInv, BootTypeOK, PhaseInv
  <1>3. PhaseInv' BY DEF PhaseInv, BootTypeOK, LockInv
  <1>4. StackInv' BY DEF StackInv, BootTypeOK, PhaseInv, Running
  <1>5. RegionInv' BY DEF RegionInv, BootTypeOK, OwnRegion, PhaseInv
  <1>6. EnvInv' BY DEF EnvInv, NoEarlyMonitor, BootTypeOK, LockInv, PhaseInv
  <1> QED BY <1>1, <1>2, <1>3, <1>4, <1>5, <1>6

\* The first STARTUP is taken.
LEMMA Startup1Inv ==
  ASSUME BootInv, StartupIpi("STARTUP1", "STARTUP2")
  PROVE  BootInv'
  <1> USE BspInCpu DEF BootInv, StartupIpi
  <1>1. BootTypeOK' BY DEF BootTypeOK, BootPc
  <1>2. LockInv' BY DEF LockInv, BootTypeOK, PhaseInv
  <1>3. PhaseInv' BY DEF PhaseInv, BootTypeOK, LockInv
  <1>4. StackInv' BY DEF StackInv, BootTypeOK, PhaseInv, Running
  <1>5. RegionInv' BY DEF RegionInv, BootTypeOK, OwnRegion, PhaseInv
  <1>6. EnvInv' BY DEF EnvInv, NoEarlyMonitor, BootTypeOK, LockInv, PhaseInv
  <1> QED BY <1>1, <1>2, <1>3, <1>4, <1>5, <1>6

\* The second STARTUP finds no processor that waits for one.
LEMMA Startup2Inv ==
  ASSUME BootInv, StartupIpi("STARTUP2", "wait")
  PROVE  BootInv'
  <1> USE BspInCpu DEF BootInv, StartupIpi
  <1>1. BootTypeOK' BY DEF BootTypeOK, BootPc
  <1>2. LockInv' BY DEF LockInv, BootTypeOK, PhaseInv
  <1>3. PhaseInv' BY DEF PhaseInv, BootTypeOK, LockInv
  <1>4. StackInv' BY DEF StackInv, BootTypeOK, PhaseInv, Running
  <1>5. RegionInv' BY DEF RegionInv, BootTypeOK, OwnRegion, PhaseInv
  <1>6. EnvInv' BY DEF EnvInv, NoEarlyMonitor, BootTypeOK, LockInv, PhaseInv
  <1> QED BY <1>1, <1>2, <1>3, <1>4, <1>5, <1>6

\* The processor waited for has read its stack and mapped its region.
LEMMA WaitInv ==
  ASSUME BootInv, Wait
  PROVE  BootInv'
  <1> USE BspInCpu DEF BootInv, Wait, Step
  <1>1. BootTypeOK' BY DEF BootTypeOK, PhaseInv, BootPc
  <1>2. LockInv' BY DEF LockInv, BootTypeOK, PhaseInv
  <1>3. PhaseInv' BY DEF PhaseInv, BootTypeOK, LockInv
  <1>4. StackInv' BY DEF StackInv, BootTypeOK, PhaseInv, Running
  <1>5. RegionInv' BY DEF RegionInv, BootTypeOK, OwnRegion, PhaseInv
  <1>6. EnvInv' BY DEF EnvInv, NoEarlyMonitor, BootTypeOK, LockInv, PhaseInv
  <1> QED BY <1>1, <1>2, <1>3, <1>4, <1>5, <1>6

\* The first environments are created when all processors are started.
LEMMA CreateInv ==
  ASSUME BootInv, ENV_CREATE
  PROVE  BootInv'
  <1> USE BspInCpu DEF BootInv, ENV_CREATE, Step
  <1>1. BootTypeOK' BY DEF BootTypeOK, BootPc
  <1>2. LockInv' BY DEF LockInv, BootTypeOK, PhaseInv
  <1>3. PhaseInv' BY DEF PhaseInv, BootTypeOK, LockInv
  <1>4. StackInv' BY DEF StackInv, BootTypeOK, PhaseInv, Running
  <1>5. RegionInv' BY DEF RegionInv, BootTypeOK, OwnRegion, PhaseInv
  <1>6. EnvInv' BY DEF EnvInv, NoEarlyMonitor, BootTypeOK, LockInv, PhaseInv
  <1> QED BY <1>1, <1>2, <1>3, <1>4, <1>5, <1>6

\* The started processor takes the stack that is passed.
LEMMA MpentryInv ==
  ASSUME BootInv, NEW c \in Cpu, mpentry(c)
  PROVE  BootInv'
  <1> USE BspInCpu DEF BootInv, mpentry, Step
  <1>1. BootTypeOK' BY DEF BootTypeOK, BootPc
  <1>2. LockInv' BY DEF LockInv, BootTypeOK, PhaseInv
  <1>3. PhaseInv' BY DEF PhaseInv, BootTypeOK, LockInv
  <1>4. StackInv' BY DEF StackInv, BootTypeOK, PhaseInv, Running
  <1>5. RegionInv' BY DEF RegionInv, BootTypeOK, OwnRegion, PhaseInv
  <1>6. EnvInv' BY DEF EnvInv, NoEarlyMonitor, BootTypeOK, LockInv, PhaseInv
  <1> QED BY <1>1, <1>2, <1>3, <1>4, <1>5, <1>6

\* Its greeting.
LEMMA MpMainInv ==
  ASSUME BootInv, NEW c \in Cpu, mp_main(c)
  PROVE  BootInv'
  <1> USE BspInCpu DEF BootInv, mp_main, Step
  <1>1. BootTypeOK' BY DEF BootTypeOK, BootPc
  <1>2. LockInv' BY DEF LockInv, BootTypeOK, PhaseInv
  <1>3. PhaseInv' BY DEF PhaseInv, BootTypeOK, LockInv
  <1>4. StackInv' BY DEF StackInv, BootTypeOK, PhaseInv, Running
  <1>5. RegionInv' BY DEF RegionInv, BootTypeOK, OwnRegion, PhaseInv
  <1>6. EnvInv' BY DEF EnvInv, NoEarlyMonitor, BootTypeOK, LockInv, PhaseInv
  <1> QED BY <1>1, <1>2, <1>3, <1>4, <1>5, <1>6

\* Its task state.
LEMMA PercpuInv ==
  ASSUME BootInv, NEW c \in Cpu, trap_init_percpu(c)
  PROVE  BootInv'
  <1> USE BspInCpu DEF BootInv, trap_init_percpu, Step
  <1>1. BootTypeOK' BY DEF BootTypeOK, BootPc
  <1>2. LockInv' BY DEF LockInv, BootTypeOK, PhaseInv
  <1>3. PhaseInv' BY DEF PhaseInv, BootTypeOK, LockInv
  <1>4. StackInv' BY DEF StackInv, BootTypeOK, PhaseInv, Running
  <1>5. RegionInv' BY DEF RegionInv, BootTypeOK, OwnRegion, PhaseInv
  <1>6. EnvInv' BY DEF EnvInv, NoEarlyMonitor, BootTypeOK, LockInv, PhaseInv
  <1> QED BY <1>1, <1>2, <1>3, <1>4, <1>5, <1>6

\* It reports.
LEMMA ReportInv ==
  ASSUME BootInv, NEW c \in Cpu, Report(c)
  PROVE  BootInv'
  <1> USE BspInCpu DEF BootInv, Report, Step
  <1>1. BootTypeOK' BY DEF BootTypeOK, BootPc
  <1>2. LockInv' BY DEF LockInv, BootTypeOK, PhaseInv
  <1>3. PhaseInv' BY DEF PhaseInv, BootTypeOK, LockInv
  <1>4. StackInv' BY DEF StackInv, BootTypeOK, PhaseInv, Running
  <1>5. RegionInv' BY DEF RegionInv, BootTypeOK, OwnRegion, PhaseInv
  <1>6. EnvInv' BY DEF EnvInv, NoEarlyMonitor, BootTypeOK, LockInv, PhaseInv
  <1> QED BY <1>1, <1>2, <1>3, <1>4, <1>5, <1>6

\* A trap changes the environments; nobody is in the monitor then.
LEMMA DispatchInv ==
  ASSUME BootInv, NEW c \in Cpu, trap_dispatch(c)
  PROVE  BootInv'
  <1> USE BspInCpu DEF BootInv, trap_dispatch, Step
  <1>1. BootTypeOK' BY DEF BootTypeOK, BootPc
  <1>2. LockInv' BY DEF LockInv, BootTypeOK, PhaseInv
  <1>3. PhaseInv' BY DEF PhaseInv, BootTypeOK, LockInv
  <1>4. StackInv' BY DEF StackInv, BootTypeOK, PhaseInv, Running
  <1>5. RegionInv' BY DEF RegionInv, BootTypeOK, OwnRegion, PhaseInv
  <1>6. EnvInv'
    <2>1. ready' \in Int OBVIOUS
    <2>2. \A d \in Cpu : pc'[d] # "monitor" BY DEF LockInv, BootTypeOK
    <2> QED BY <2>1, <2>2 DEF EnvInv, NoEarlyMonitor
  <1> QED BY <1>1, <1>2, <1>3, <1>4, <1>5, <1>6

\* The scheduler runs an environment.
LEMMA RunInv ==
  ASSUME BootInv, NEW c \in Cpu, env_run(c)
  PROVE  BootInv'
  <1> USE BspInCpu DEF BootInv, env_run, Step
  <1>1. BootTypeOK' BY DEF BootTypeOK, BootPc
  <1>2. LockInv' BY DEF LockInv, BootTypeOK, PhaseInv
  <1>3. PhaseInv' BY DEF PhaseInv, BootTypeOK, LockInv
  <1>4. StackInv' BY DEF StackInv, BootTypeOK, PhaseInv, Running
  <1>5. RegionInv' BY DEF RegionInv, BootTypeOK, OwnRegion, PhaseInv
  <1>6. EnvInv'
    <2>1. ready' \in Int BY DEF EnvInv
    <2>2. \A d \in Cpu : pc'[d] # "monitor" BY DEF LockInv, BootTypeOK
    <2> QED BY <2>1, <2>2 DEF EnvInv, NoEarlyMonitor
  <1> QED BY <1>1, <1>2, <1>3, <1>4, <1>5, <1>6

\* The scheduler halts or enters the monitor: the environments are created by
\* then, for the boot processor had the lock until they were.
LEMMA HaltInv ==
  ASSUME BootInv, NEW c \in Cpu, sched_halt(c)
  PROVE  BootInv'
  <1> USE BspInCpu DEF BootInv, sched_halt, Step
  <1>0. created
    BY DEF LockInv, PhaseInv, BootTypeOK
  <1>1. BootTypeOK' BY DEF BootTypeOK, BootPc
  <1>2. LockInv' BY DEF LockInv, BootTypeOK, PhaseInv
  <1>3. PhaseInv' BY <1>0 DEF PhaseInv, BootTypeOK, LockInv
  <1>4. StackInv' BY DEF StackInv, BootTypeOK, PhaseInv, Running
  <1>5. RegionInv' BY DEF RegionInv, BootTypeOK, OwnRegion, PhaseInv
  <1>6. EnvInv' BY <1>0 DEF EnvInv, NoEarlyMonitor, BootTypeOK
  <1> QED BY <1>1, <1>2, <1>3, <1>4, <1>5, <1>6

\* A trap goes to the stack of the task state.
LEMMA TrapInv ==
  ASSUME BootInv, NEW c \in Cpu, trap(c)
  PROVE  BootInv'
  <1> USE BspInCpu DEF BootInv, trap
  <1>1. BootTypeOK' BY DEF BootTypeOK, BootPc
  <1>2. LockInv' BY DEF LockInv, BootTypeOK, PhaseInv
  <1>3. PhaseInv' BY DEF PhaseInv, BootTypeOK, LockInv
  <1>4. StackInv' BY DEF StackInv, BootTypeOK, PhaseInv, Running
  <1>5. RegionInv' BY DEF RegionInv, BootTypeOK, OwnRegion, PhaseInv
  <1>6. EnvInv' BY DEF EnvInv, NoEarlyMonitor, BootTypeOK, LockInv, PhaseInv
  <1> QED BY <1>1, <1>2, <1>3, <1>4, <1>5, <1>6

-----------------------------------------------------------------------------
\* Every step keeps the invariant.
LEMMA NextInv == BootInv /\ [Next]_vars => BootInv'
  <1> SUFFICES ASSUME BootInv, [Next]_vars PROVE BootInv'
    OBVIOUS
  <1>1. CASE BspStep
    BY <1>1, MpInitInv, BootApsInv, SkipInv, InitIpiInv, WaitInv, CreateInv,
       Startup1Inv, Startup2Inv DEF BspStep
  <1>2. ASSUME NEW c \in Cpu, CpuStep(c) PROVE BootInv'
    BY <1>2, LapicReadInv, LapicWriteInv, SpinLockInv, OwnInv, SpinUnlockInv, OpenInv,
       MpentryInv, MpMainInv, PercpuInv, ReportInv, DispatchInv, RunInv,
       HaltInv DEF CpuStep
  <1>3. CASE UNCHANGED vars
    BY <1>3 DEF vars, BootInv, BootTypeOK, LockInv, PhaseInv, StackInv, RegionInv,
                OwnRegion, Running, EnvInv, NoEarlyMonitor
  <1> QED BY <1>1, <1>2, <1>3, XchgInv, TrapInv DEF Next, monitor

\* The inductive invariant.
THEOREM BootInvariant == Spec => []BootInv
  BY InitInv, NextInv, PTL DEF Spec

\* No two processors are on the same kernel stack.
THEOREM BootOwnStack == Spec => []OwnStack
  <1>1. BootInv => OwnStack
    BY BspInCpu DEF BootInv, StackInv, OwnStack, Running, BootStack
  <1> QED BY <1>1, BootInvariant, PTL

\* Every processor maps the local APIC in a region of its own.
THEOREM BootOwnRegion == Spec => []OwnRegion
  <1>1. BootInv => OwnRegion BY DEF BootInv, RegionInv
  <1> QED BY <1>1, BootInvariant, PTL

\* The debugging checks of the lock never fire.
THEOREM BootNoLockPanic == Spec => []NoLockPanic
  <1>1. BootInv => NoLockPanic
    BY DEF BootInv, BootTypeOK, NoLockPanic, BootPc
  <1> QED BY <1>1, BootInvariant, PTL

\* No processor is in the monitor before the environments are created, nor
\* while there are any.
THEOREM BootNoEarlyMonitor == Spec => []NoEarlyMonitor
  <1>1. BootInv => NoEarlyMonitor
    BY DEF BootInv, EnvInv
  <1> QED BY <1>1, BootInvariant, PTL
=============================================================================
