---------------------------- MODULE KernelProofs ----------------------------
(***************************************************************************)
(* Proofs about module Kernel, for any number of processors and            *)
(* environments.  The theorems hold for programs that keep away from the   *)
(* liberties "wake" and "rekill", under which the kernel loses track of    *)
(* who runs what (the run kernel_rekill shows one way); two of them also   *)
(* need programs without int3, or that leave their own status alone.       *)
(***************************************************************************)
EXTENDS Kernel, TLAPS

Disciplined == "wake" \notin Programs /\ "rekill" \notin Programs

\* A processor that executes no environment has no current one.
IdleHasNoEnv ==
    \A c \in CPU : pc[c] \in {"halt", "spin", "sched", "unused"} => cpu_env[c] = NULL

\* After a panic the lock stays with the processor that panicked.
PanicKeepsLock ==
    \A c, d \in CPU :
        pc[d] = "stopped" =>
            kernel_lock # NoCPU /\ (kernel_lock = c => pc[c] = "stopped")

\* The inductive invariant of the processors.
CpuInv ==
    /\ LockDiscipline
    /\ PanicKeepsLock
    /\ IdleHasNoEnv
    /\ OneCpuPerEnv
    /\ StatusMatchesCpus
    /\ AddressSpaceAlive

IInv == TypeOK /\ CpuInv /\ ReceiverParked /\ FreeListExact

-----------------------------------------------------------------------------
(***************************************************************************)
(* What a handler owes the scheduler when it calls it: the other           *)
(* processors' environments are still busy, every busy environment is      *)
(* accounted for, and the caller's own is not a zombie.                    *)
(***************************************************************************)
Handover(c, st, cur) ==
    /\ kernel_lock = c
    /\ pc[c] \in {"kernel", "sched"}
    /\ st \in [Envs -> Status]
    /\ cur \in {NULL, cpu_env[c]}
    /\ cur # NULL => st[cur] # "ENV_DYING"
    /\ \A d \in CPU \ {c} : cpu_env[d] # NULL => st[cpu_env[d]] \in Busy
    /\ \A f \in Envs : st[f] \in Busy => f = cur \/ \E d \in CPU \ {c} : cpu_env[d] = f

\* The environment that sched_yield and trap() may resume.
Eligible(st, cur, e) ==
    \/ st[e] = "ENV_RUNNABLE" /\ e # cur
    \/ st[e] = "ENV_RUNNING" /\ e = cur

\* The ways out of the kernel: an eligible environment is run, or there is
\* none and the processor halts or enters the monitor.
Passes(c, st) ==
    \E cur :
        /\ Handover(c, st, cur)
        /\ \/ \E e \in Envs : Eligible(st, cur, e) /\ env_run(c, st, cur, e)
           \/ /\ \A e \in Envs : ~Eligible(st, cur, e)
              /\ sched_halt(c, st, cur)

\* What a handler on processor c did to the table before it called the
\* scheduler with statuses st: its own environment is not ENV_RUNNABLE unless
\* it made itself so, and messages only reached blocked environments.
Effect(c, st) ==
    /\ cpu_env[c] \in Envs /\ st[cpu_env[c]] = "ENV_RUNNABLE" => "self" \in Programs
    /\ \A f \in Envs :
         env_ipc_msg'[f] # env_ipc_msg[f] =>
            env_status[f] = "ENV_NOT_RUNNABLE" /\ st[f] = "ENV_RUNNABLE"

\* The step is a handler on processor c that ends in the scheduler.
Handled(c) == \E st : Passes(c, st) /\ Effect(c, st)

\* What the scheduler guarantees when the kernel is left.
CpuPost(st) ==
    /\ kernel_lock' \in CPU \cup {NoCPU}
    /\ pc' \in [CPU -> Pc]
    /\ cpu_status' \in [CPU -> {"CPU_UNUSED", "CPU_STARTED", "CPU_HALTED"}]
    /\ cpu_env' \in [CPU -> Envs \cup {NULL}]
    /\ cr3' \in [CPU -> EnvId]
    /\ env_status' \in [Envs -> Status]
    /\ LockDiscipline'
    /\ PanicKeepsLock'
    /\ IdleHasNoEnv'
    /\ OneCpuPerEnv'
    /\ StatusMatchesCpus'
    /\ \A d \in CPU : pc'[d] \in Executing => cr3'[d] = env_id[cpu_env'[d]]
    /\ \A f \in Envs :
         \/ env_status'[f] = st[f]
         \/ {env_status'[f], st[f]} \subseteq {"ENV_RUNNABLE", "ENV_RUNNING"}

\* The null environment pointer is no slot of envs[].
LEMMA NullNotEnv == NULL \notin Envs
  BY DEF NULL, Envs

\* Envid 0 has the type of an envid.
LEMMA ZeroIsId == Zero \in EnvId
  BY ConstantsAssumption DEF Zero, EnvId, Envs

\* While c is in the kernel every other processor with a current environment
\* executes it: the monitor and the scheduler need the lock.
LEMMA OthersExecute ==
  ASSUME TypeOK, CpuInv, NEW c \in CPU, kernel_lock = c,
         pc[c] \in {"kernel", "sched"},
         NEW d \in CPU \ {c}, cpu_env[d] # NULL
  PROVE  pc[d] \in {"pop", "user", "trap"}
  BY DEF TypeOK, CpuInv, LockDiscipline, PanicKeepsLock, IdleHasNoEnv, Pc

\* env_run of an eligible environment.
LEMMA RunPost ==
  ASSUME TypeOK, CpuInv, NEW c \in CPU, NEW st, NEW cur, NEW e \in Envs,
         Handover(c, st, cur), Eligible(st, cur, e), env_run(c, st, cur, e)
  PROVE  CpuPost(st)
  <1>0. c # NoCPU BY ConstantsAssumption
  <1>1. \A d \in CPU \ {c} : cpu_env[d] # e /\ (cpu_env[d] = cur => cur = NULL)
    BY OthersExecute, NullNotEnv
    DEF Handover, Eligible, Busy, CpuInv, OneCpuPerEnv, TypeOK
  <1>2. /\ kernel_lock' \in CPU \cup {NoCPU}
        /\ pc' \in [CPU -> Pc]
        /\ cpu_status' \in [CPU -> {"CPU_UNUSED", "CPU_STARTED", "CPU_HALTED"}]
        /\ cpu_env' \in [CPU -> Envs \cup {NULL}]
        /\ cr3' \in [CPU -> EnvId]
        /\ env_status' \in [Envs -> Status]
    BY DEF env_run, TypeOK, Pc, Status, Handover
  <1>3. LockDiscipline'
    BY <1>0, ConstantsAssumption DEF env_run, CpuInv, LockDiscipline, TypeOK, Handover, Pc
  <1>4. IdleHasNoEnv' /\ PanicKeepsLock'
    <2>1. IdleHasNoEnv' BY DEF env_run, CpuInv, IdleHasNoEnv, TypeOK
    <2>2. PanicKeepsLock' BY DEF env_run, CpuInv, PanicKeepsLock, TypeOK, Handover
    <2> QED BY <2>1, <2>2
  <1>5. OneCpuPerEnv'
    BY <1>1 DEF env_run, CpuInv, OneCpuPerEnv, TypeOK
  <1>6. StatusMatchesCpus'
    <2>1. ASSUME NEW f \in Envs, env_status'[f] \in Busy
          PROVE  \E d \in CPU : cpu_env'[d] = f
      <3>1. CASE f = e BY <3>1 DEF env_run, TypeOK
      <3>2. CASE f # e
        <4>1. st[f] \in Busy /\ f # cur
          BY <2>1, <3>2, NullNotEnv DEF env_run, Busy, Handover, Status
        <4>2. PICK d \in CPU \ {c} : cpu_env[d] = f
          BY <4>1 DEF Handover
        <4> QED BY <4>2 DEF env_run, TypeOK
      <3> QED BY <3>1, <3>2
    <2>2. ASSUME NEW d \in CPU, pc'[d] \in Executing
          PROVE  cpu_env'[d] # NULL /\ env_status'[cpu_env'[d]] \in Busy
      <3>1. CASE d = c BY <3>1, NullNotEnv DEF env_run, TypeOK, Busy
      <3>2. CASE d # c
        <4>1. pc[d] \in Executing /\ cpu_env'[d] = cpu_env[d]
          BY <2>2, <3>2 DEF env_run, TypeOK
        <4>2. cpu_env[d] # NULL /\ cpu_env[d] \in Envs
          BY <4>1 DEF CpuInv, StatusMatchesCpus, TypeOK
        <4>3. st[cpu_env[d]] \in Busy
          BY <3>2, <4>2 DEF Handover
        <4>4. cpu_env[d] # cur
          BY <1>1, <3>2, <4>2
        <4> QED BY <1>1, <3>2, <4>1, <4>2, <4>3, <4>4 DEF env_run
      <3> QED BY <3>1, <3>2
    <2> QED BY <2>1, <2>2 DEF StatusMatchesCpus
  <1>7. \A d \in CPU : pc'[d] \in Executing => cr3'[d] = env_id[cpu_env'[d]]
    BY DEF env_run, CpuInv, AddressSpaceAlive, TypeOK
  <1>8. \A f \in Envs :
          \/ env_status'[f] = st[f]
          \/ {env_status'[f], st[f]} \subseteq {"ENV_RUNNABLE", "ENV_RUNNING"}
    BY DEF env_run, Eligible
  <1> QED
    BY <1>2, <1>3, <1>4, <1>5, <1>6, <1>7, <1>8 DEF CpuPost

\* sched_halt when the caller's own environment is not running.
LEMMA HaltPost ==
  ASSUME TypeOK, CpuInv, NEW c \in CPU, NEW st, NEW cur,
         Handover(c, st, cur), ~(cur # NULL /\ st[cur] = "ENV_RUNNING"),
         sched_halt(c, st, cur)
  PROVE  CpuPost(st)
  <1>0. c # NoCPU BY ConstantsAssumption
  <1>1. ASSUME cur # NULL
        PROVE  cur = cpu_env[c] /\ cur \in Envs /\ st[cur] \notin Busy
    <2>1. cur = cpu_env[c] /\ st[cur] # "ENV_DYING"
      BY <1>1 DEF Handover
    <2>2. cpu_env[c] \in Envs \cup {NULL}
      BY DEF TypeOK
    <2> QED BY <1>1, <2>1, <2>2 DEF Busy
  <1>2. /\ kernel_lock' \in CPU \cup {NoCPU}
        /\ pc' \in [CPU -> Pc]
        /\ cpu_status' \in [CPU -> {"CPU_UNUSED", "CPU_STARTED", "CPU_HALTED"}]
        /\ cpu_env' \in [CPU -> Envs \cup {NULL}]
        /\ cr3' \in [CPU -> EnvId]
        /\ env_status' \in [Envs -> Status]
    <2>1. cur \in Envs \cup {NULL} BY <1>1
    <2>2. kern_pgdir \in EnvId BY ZeroIsId DEF kern_pgdir
    <2>3. env_status' \in [Envs -> Status] BY DEF sched_halt, Handover
    <2>4. cr3' \in [CPU -> EnvId] BY <2>2 DEF sched_halt, TypeOK
    <2>5. cpu_env' \in [CPU -> Envs \cup {NULL}] BY <2>1 DEF sched_halt, TypeOK
    <2> QED BY <2>3, <2>4, <2>5 DEF sched_halt, TypeOK, Pc
  <1>3. LockDiscipline'
    BY <1>0, ConstantsAssumption
    DEF sched_halt, CpuInv, LockDiscipline, TypeOK, Handover, Pc
  <1>4. IdleHasNoEnv' /\ PanicKeepsLock'
    <2>1. IdleHasNoEnv' BY DEF sched_halt, CpuInv, IdleHasNoEnv, TypeOK
    <2>2. PanicKeepsLock' BY DEF sched_halt, CpuInv, PanicKeepsLock, TypeOK, Handover
    <2> QED BY <2>1, <2>2
  <1>5. OneCpuPerEnv'
    BY DEF sched_halt, CpuInv, OneCpuPerEnv, TypeOK, Handover
  <1>6. StatusMatchesCpus'
    <2>1. ASSUME NEW f \in Envs, env_status'[f] \in Busy
          PROVE  \E d \in CPU : cpu_env'[d] = f
      <3>1. st[f] \in Busy BY <2>1 DEF sched_halt
      <3>2. f # cur BY <1>1, <3>1, NullNotEnv
      <3>3. PICK d \in CPU \ {c} : cpu_env[d] = f
        BY <3>1, <3>2 DEF Handover
      <3> QED BY <3>3 DEF sched_halt, TypeOK
    <2>2. ASSUME NEW d \in CPU, pc'[d] \in Executing
          PROVE  cpu_env'[d] # NULL /\ env_status'[cpu_env'[d]] \in Busy
      <3>1. d # c /\ pc[d] \in Executing
        BY <2>2 DEF sched_halt, TypeOK, Executing
      <3>2. cpu_env'[d] = cpu_env[d] /\ env_status' = st
        BY <3>1 DEF sched_halt, TypeOK
      <3>3. cpu_env[d] # NULL
        BY <3>1 DEF CpuInv, StatusMatchesCpus
      <3> QED BY <3>1, <3>2, <3>3 DEF Handover
    <2> QED BY <2>1, <2>2 DEF StatusMatchesCpus
  <1>7. \A d \in CPU : pc'[d] \in Executing => cr3'[d] = env_id[cpu_env'[d]]
    BY DEF sched_halt, CpuInv, AddressSpaceAlive, TypeOK, Executing
  <1>8. \A f \in Envs : env_status'[f] = st[f]
    BY DEF sched_halt
  <1> QED
    BY <1>2, <1>3, <1>4, <1>5, <1>6, <1>7, <1>8 DEF CpuPost

\* Both ways out establish the guarantee.
LEMMA PassPost ==
  ASSUME TypeOK, CpuInv, NEW c \in CPU, NEW st, Passes(c, st)
  PROVE  CpuPost(st)
  <1>1. PICK cur :
          /\ Handover(c, st, cur)
          /\ \/ \E e \in Envs : Eligible(st, cur, e) /\ env_run(c, st, cur, e)
             \/ /\ \A e \in Envs : ~Eligible(st, cur, e)
                /\ sched_halt(c, st, cur)
    BY DEF Passes
  <1>2. CASE \E e \in Envs : Eligible(st, cur, e) /\ env_run(c, st, cur, e)
    BY <1>1, <1>2, RunPost
  <1>3. CASE (\A e \in Envs : ~Eligible(st, cur, e)) /\ sched_halt(c, st, cur)
    <2>1. cur \in Envs \cup {NULL} BY <1>1 DEF Handover, TypeOK
    <2>2. ~(cur # NULL /\ st[cur] = "ENV_RUNNING") BY <1>3, <2>1 DEF Eligible
    <2> QED BY <1>1, <1>3, <2>2, HaltPost
  <1> QED BY <1>1, <1>2, <1>3

\* Adding less than n to a remainder modulo n wraps around at most once.
LEMMA ModOnce ==
  ASSUME NEW n \in Nat \ {0}, NEW a \in 0 .. n + n - 1
  PROVE  a % n = IF a < n THEN a ELSE a - n
  <1>1. CASE a < n BY <1>1, Z3
  <1>2. CASE a >= n
    <2>1. a % n = (a - n) % n BY <1>2, Z3
    <2>2. (a - n) % n = a - n BY <1>2, Z3
    <2> QED BY <1>2, <2>1, <2>2
  <1> QED BY <1>1, <1>2

\* Turn ct of the loop, for a scan that starts at slot s.
LEMMA SlotOfTurn ==
  ASSUME NEW cur \in Envs \cup {NULL}, NEW ct \in 0 .. NENV - 1
  PROVE  /\ ScanStart(cur) \in Envs
         /\ Slot(cur, ct) \in Envs
         /\ Slot(cur, ct) = IF ScanStart(cur) + ct < NENV
                            THEN ScanStart(cur) + ct
                            ELSE ScanStart(cur) + ct - NENV
  <1>0. NENV \in Nat \ {0} BY ConstantsAssumption
  <1>1. ScanStart(cur) \in Envs
    <2>1. CASE cur = NULL BY <1>0, <2>1 DEF ScanStart, Envs
    <2>2. CASE cur # NULL
      <3>1. cur + 1 \in 0 .. NENV + NENV - 1 BY <1>0, <2>2 DEF Envs
      <3>2. (cur + 1) % NENV = IF cur + 1 < NENV THEN cur + 1 ELSE cur + 1 - NENV
        <4>1. PICK a : a = cur + 1 OBVIOUS
        <4>2. a % NENV = IF a < NENV THEN a ELSE a - NENV BY <1>0, <3>1, <4>1, ModOnce
        <4> QED BY <1>0, <2>2, <4>1, <4>2 DEF Envs
      <3> QED BY <1>0, <2>2, <3>2 DEF ScanStart, Envs
    <2> QED BY <2>1, <2>2
  <1>2. ScanStart(cur) + ct \in 0 .. NENV + NENV - 1 BY <1>0, <1>1 DEF Envs
  <1>3. Slot(cur, ct) = IF ScanStart(cur) + ct < NENV
                        THEN ScanStart(cur) + ct
                        ELSE ScanStart(cur) + ct - NENV
    <2>1. PICK a : a = ScanStart(cur) + ct OBVIOUS
    <2>2. a % NENV = IF a < NENV THEN a ELSE a - NENV BY <1>0, <1>2, <2>1, ModOnce
    <2> QED BY <1>0, <1>1, <2>1, <2>2 DEF Slot, Envs
  <1> QED BY <1>0, <1>1, <1>2, <1>3 DEF Envs

\* NENV turns look at every slot of envs[], wherever the scan starts.
LEMMA ScanCovers ==
  ASSUME NEW cur \in Envs \cup {NULL}, NEW e \in Envs
  PROVE  \E ct \in 0 .. NENV - 1 : Slot(cur, ct) = e
  <1> DEFINE s  == ScanStart(cur)
             ct == IF s <= e THEN e - s ELSE e + NENV - s
  <1>0. NENV \in Nat \ {0} BY ConstantsAssumption
  <1>1. 0 \in 0 .. NENV - 1 BY <1>0
  <1>2. s \in Envs BY <1>1, SlotOfTurn
  <1> HIDE DEF s
  <1>3. ct \in 0 .. NENV - 1 BY <1>0, <1>2 DEF Envs
  <1>4. IF s + ct < NENV THEN s + ct = e ELSE s + ct - NENV = e
    BY <1>0, <1>2 DEF Envs
  <1> HIDE DEF ct
  <1>5. Slot(cur, ct) = e BY <1>3, <1>4, SlotOfTurn DEF s
  <1> QED BY <1>3, <1>5

\* The slot of the environment last run is looked at in the last turn.
LEMMA CurrentIsLast ==
  ASSUME NEW cur \in Envs, NEW ct \in 0 .. NENV - 1, Slot(cur, ct) = cur
  PROVE  ct = NENV - 1
  <1>0. NENV \in Nat \ {0} BY ConstantsAssumption
  <1>1. cur # NULL BY NullNotEnv
  <1>2. cur + 1 \in 0 .. NENV + NENV - 1 BY <1>0 DEF Envs
  <1>3. ScanStart(cur) = IF cur + 1 < NENV THEN cur + 1 ELSE cur + 1 - NENV
    <2>1. PICK a : a = cur + 1 OBVIOUS
    <2>2. a % NENV = IF a < NENV THEN a ELSE a - NENV BY <1>0, <1>2, <2>1, ModOnce
    <2> QED BY <1>0, <1>1, <2>1, <2>2 DEF ScanStart, Envs
  <1>4. cur = IF ScanStart(cur) + ct < NENV
              THEN ScanStart(cur) + ct
              ELSE ScanStart(cur) + ct - NENV
    BY SlotOfTurn
  <1> QED BY <1>0, <1>3, <1>4 DEF Envs

\* What the loop of sched_yield comes to: it runs an environment that is
\* eligible, and gives up only if none is.
LEMMA ScanExact ==
  ASSUME NEW c, NEW st, NEW cur \in Envs \cup {NULL}, sched_yield(c, st, cur)
  PROVE  \/ \E e \in Envs : Eligible(st, cur, e) /\ env_run(c, st, cur, e)
         \/ /\ \A e \in Envs : ~Eligible(st, cur, e)
            /\ sched_halt(c, st, cur)
  <1>1. ASSUME NEW ct \in 0 .. NENV - 1,
               LeavesAt(st, cur, Slot(cur, ct)),
               Slot(cur, ct) = cur => st[cur] = "ENV_RUNNING",
               env_run(c, st, cur, Slot(cur, ct))
        PROVE  \E e \in Envs : Eligible(st, cur, e) /\ env_run(c, st, cur, e)
    <2>1. Slot(cur, ct) \in Envs BY <1>1, SlotOfTurn
    <2>2. Eligible(st, cur, Slot(cur, ct)) BY <1>1 DEF LeavesAt, Eligible
    <2> QED BY <1>1, <2>1, <2>2
  <1>2. ASSUME NEW ct \in 0 .. NENV - 1,
               \A k \in 0 .. ct - 1 : ~LeavesAt(st, cur, Slot(cur, k)),
               Slot(cur, ct) = cur, st[cur] # "ENV_RUNNING",
               NEW e \in Envs, Eligible(st, cur, e)
        PROVE  FALSE
    <2>0. NENV \in Nat \ {0} BY ConstantsAssumption
    <2>1. cur \in Envs BY <1>2, SlotOfTurn
    <2>2. ct = NENV - 1 BY <1>2, <2>1, CurrentIsLast
    <2>3. e # cur /\ st[e] = "ENV_RUNNABLE" BY <1>2 DEF Eligible
    <2>4. PICK k \in 0 .. NENV - 1 : Slot(cur, k) = e BY ScanCovers
    <2>5. k # ct BY <1>2, <2>3, <2>4
    <2>6. k \in 0 .. ct - 1 BY <2>0, <2>2, <2>4, <2>5
    <2> QED BY <1>2, <2>3, <2>4, <2>6 DEF LeavesAt
  <1>3. ASSUME \A ct \in 0 .. NENV - 1 : ~LeavesAt(st, cur, Slot(cur, ct)),
               NEW e \in Envs, Eligible(st, cur, e)
        PROVE  FALSE
    <2>1. PICK k \in 0 .. NENV - 1 : Slot(cur, k) = e BY ScanCovers
    <2> QED BY <1>3, <2>1 DEF LeavesAt, Eligible
  <1> QED BY <1>1, <1>2, <1>3 DEF sched_yield

\* sched_yield either runs an eligible environment or halts without one.
LEMMA SchedPasses ==
  ASSUME TypeOK, NEW c \in CPU, NEW st, NEW cur,
         Handover(c, st, cur), sched_yield(c, st, cur)
  PROVE  Passes(c, st)
  <1>1. cur \in Envs \cup {NULL} BY DEF Handover, TypeOK
  <1> QED BY <1>1, ScanExact DEF Passes

\* The end of trap().
LEMMA ReturnPasses ==
  ASSUME TypeOK, NEW c \in CPU, NEW st,
         cpu_env[c] \in Envs, Handover(c, st, cpu_env[c]), trap_return(c, st)
  PROVE  Passes(c, st)
  <1>1. CASE st[cpu_env[c]] = "ENV_RUNNING"
    BY <1>1 DEF trap_return, Eligible, Passes
  <1>2. CASE st[cpu_env[c]] # "ENV_RUNNING"
    BY <1>2, SchedPasses DEF trap_return
  <1> QED BY <1>1, <1>2

-----------------------------------------------------------------------------
(***************************************************************************)
(* From the scheduler's guarantee to the invariant, for the handlers that  *)
(* leave the environment table alone, free a slot, or allocate one.        *)
(***************************************************************************)

\* Every processor executing in the new state executes an environment whose
\* id the handler did not change.
LEMMA PostToCpuInv ==
  ASSUME NEW st, CpuPost(st), NullNotEnv,
         \A f \in Envs : env_status'[f] \in Busy => env_id'[f] = env_id[f]
  PROVE  CpuInv'
  <1>1. ASSUME NEW d \in CPU, pc'[d] \in Executing
        PROVE  /\ env_status'[cpu_env'[d]] # "ENV_FREE"
               /\ cr3'[d] = env_id'[cpu_env'[d]]
    <2>1. cpu_env'[d] \in Envs /\ env_status'[cpu_env'[d]] \in Busy
      BY <1>1 DEF CpuPost, StatusMatchesCpus
    <2> QED BY <1>1, <2>1 DEF CpuPost, Busy
  <1>2. AddressSpaceAlive'
    BY <1>1 DEF AddressSpaceAlive
  <1> QED BY <1>2 DEF CpuPost, CpuInv

\* A handler that changes neither ids nor the free list, and leaves alone
\* which slots are free.
LEMMA PostTableKept ==
  ASSUME IInv, NEW st, CpuPost(st), UNCHANGED idVars,
         \A f \in Envs : st[f] = "ENV_FREE" <=> env_status[f] = "ENV_FREE"
  PROVE  CpuInv' /\ FreeListExact'
  <1>1. CpuInv'
    BY PostToCpuInv, NullNotEnv DEF idVars
  <1>2. \A f \in Envs : env_status'[f] = "ENV_FREE" <=> env_status[f] = "ENV_FREE"
    BY DEF CpuPost
  <1>3. FreeListExact'
    BY <1>2 DEF IInv, FreeListExact, idVars
  <1> QED BY <1>1, <1>3

\* env_free of a slot in use.
LEMMA PostTableFreed ==
  ASSUME IInv, NEW e \in Envs, env_status[e] # "ENV_FREE",
         CpuPost(Freed(e)), env_free(e)
  PROVE  CpuInv' /\ FreeListExact' /\ env_free_list' \in Seq(Envs)
  <1> DEFINE L == env_free_list
  <1>0. L \in Seq(Envs) /\ env_status \in [Envs -> Status]
    BY DEF IInv, TypeOK
  <1>1. CpuInv'
    BY PostToCpuInv, NullNotEnv DEF env_free
  <1>2. \A f \in Envs : env_status'[f] = "ENV_FREE" <=> f = e \/ env_status[f] = "ENV_FREE"
    BY <1>0 DEF CpuPost, Freed
  <1>3. /\ env_free_list' \in Seq(Envs)
        /\ Len(env_free_list') = Len(L) + 1
        /\ env_free_list'[1] = e
        /\ \A i \in 1 .. Len(L) : env_free_list'[i + 1] = L[i]
    BY <1>0 DEF env_free
  <1>4. \A i \in DOMAIN L : L[i] # e
    BY DEF IInv, FreeListExact
  <1>5. ASSUME NEW j \in DOMAIN env_free_list'
        PROVE  \/ j = 1
               \/ j - 1 \in DOMAIN L /\ env_free_list'[j] = L[j - 1]
    <2>1. j \in 1 .. Len(L) + 1 BY <1>3, <1>5
    <2>2. CASE j # 1
      <3>1. j - 1 \in 1 .. Len(L) /\ (j - 1) + 1 = j BY <1>0, <2>1, <2>2
      <3> QED BY <1>0, <1>3, <3>1
    <2> QED BY <2>2
  <1>6. DOMAIN env_free_list' = 1 .. Len(L) + 1 /\ DOMAIN L = 1 .. Len(L)
    BY <1>0, <1>3
  <1>7. {env_free_list'[i] : i \in DOMAIN env_free_list'} =
          {f \in Envs : env_status'[f] = "ENV_FREE"}
    <2>1. ASSUME NEW i \in DOMAIN env_free_list'
          PROVE  env_free_list'[i] \in {f \in Envs : env_status'[f] = "ENV_FREE"}
      BY <1>2, <1>3, <1>5, <2>1 DEF IInv, FreeListExact
    <2>2. ASSUME NEW f \in Envs, env_status'[f] = "ENV_FREE"
          PROVE  \E i \in DOMAIN env_free_list' : env_free_list'[i] = f
      <3>1. CASE f = e BY <1>0, <1>3, <1>6, <3>1
      <3>2. CASE f # e
        <4>1. PICK i \in DOMAIN L : L[i] = f
          BY <1>2, <2>2, <3>2 DEF IInv, FreeListExact
        <4>2. i + 1 \in DOMAIN env_free_list' /\ env_free_list'[i + 1] = f
          BY <1>0, <1>3, <1>6, <4>1
        <4> QED BY <4>2
      <3> QED BY <3>1, <3>2
    <2> QED BY <2>1, <2>2
  <1>8. ASSUME NEW i \in DOMAIN env_free_list', NEW j \in DOMAIN env_free_list',
               env_free_list'[i] = env_free_list'[j]
        PROVE  i = j
    <2>1. CASE i = 1 BY <1>3, <1>4, <1>5, <1>8, <2>1
    <2>2. CASE j = 1 BY <1>3, <1>4, <1>5, <1>8, <2>2
    <2>3. CASE i # 1 /\ j # 1
      <3>1. i - 1 = j - 1 BY <1>5, <1>8, <2>3 DEF IInv, FreeListExact
      <3> QED BY <1>6, <3>1
    <2> QED BY <2>1, <2>2, <2>3
  <1> QED BY <1>1, <1>3, <1>7, <1>8 DEF FreeListExact

\* env_alloc of the first free slot.
LEMMA PostTableAllocated ==
  ASSUME IInv, env_free_list # << >>, NEW parent \in EnvId,
         NEW child, child = Head(env_free_list),
         CpuPost([env_status EXCEPT ![child] = "ENV_NOT_RUNNABLE"]),
         env_alloc(child, parent)
  PROVE  /\ CpuInv'
         /\ FreeListExact'
         /\ env_free_list' \in Seq(Envs)
         /\ env_id' \in [Envs -> EnvId]
         /\ env_parent_id' \in [Envs -> EnvId]
  <1> DEFINE L == env_free_list
  <1>0. /\ L \in Seq(Envs) /\ env_status \in [Envs -> Status]
        /\ env_id \in [Envs -> EnvId] /\ env_parent_id \in [Envs -> EnvId]
    BY DEF IInv, TypeOK
  <1>1. child \in Envs /\ 1 \in DOMAIN L /\ L[1] = child
    BY <1>0
  <1>2. env_status'[child] = "ENV_NOT_RUNNABLE"
    BY <1>0, <1>1 DEF CpuPost
  <1>3. CpuInv'
    <2>1. \A f \in Envs : env_status'[f] \in Busy => env_id'[f] = env_id[f]
      BY <1>0, <1>2 DEF env_alloc, Busy
    <2> QED BY <2>1, PostToCpuInv, NullNotEnv
  <1>4. \A f \in Envs : env_status'[f] = "ENV_FREE" <=> f # child /\ env_status[f] = "ENV_FREE"
    BY <1>0, <1>1, <1>2 DEF CpuPost
  <1>5. /\ env_free_list' \in Seq(Envs)
        /\ DOMAIN L = 1 .. Len(L) /\ Len(L) \in Nat
        /\ DOMAIN env_free_list' = 1 .. Len(L) - 1
        /\ \A i \in 1 .. Len(L) - 1 : env_free_list'[i] = L[i + 1]
    BY <1>0 DEF env_alloc
  <1>6. {env_free_list'[i] : i \in DOMAIN env_free_list'} =
          {f \in Envs : env_status'[f] = "ENV_FREE"}
    <2>1. ASSUME NEW i \in DOMAIN env_free_list'
          PROVE  env_free_list'[i] \in {f \in Envs : env_status'[f] = "ENV_FREE"}
      <3>1. i + 1 \in DOMAIN L /\ i + 1 # 1 /\ env_free_list'[i] = L[i + 1]
        BY <1>5, <2>1
      <3>2. L[i + 1] # child BY <1>1, <3>1 DEF IInv, FreeListExact
      <3> QED BY <1>4, <3>1, <3>2 DEF IInv, FreeListExact
    <2>2. ASSUME NEW f \in Envs, env_status'[f] = "ENV_FREE"
          PROVE  \E i \in DOMAIN env_free_list' : env_free_list'[i] = f
      <3>1. PICK j \in DOMAIN L : L[j] = f
        BY <1>4, <2>2 DEF IInv, FreeListExact
      <3>2. j # 1 BY <1>1, <1>4, <2>2, <3>1
      <3>3. j - 1 \in DOMAIN env_free_list' /\ (j - 1) + 1 = j
        BY <1>5, <3>1, <3>2
      <3>4. env_free_list'[j - 1] = f BY <1>5, <3>1, <3>3
      <3> QED BY <3>3, <3>4
    <2> QED BY <2>1, <2>2
  <1>7. \A i, j \in DOMAIN env_free_list' :
          env_free_list'[i] = env_free_list'[j] => i = j
    <2>1. ASSUME NEW i \in DOMAIN env_free_list', NEW j \in DOMAIN env_free_list',
                 env_free_list'[i] = env_free_list'[j]
          PROVE  i = j
      <3>1. i + 1 \in DOMAIN L /\ j + 1 \in DOMAIN L /\ L[i + 1] = L[j + 1]
        BY <1>5, <2>1
      <3>2. i + 1 = j + 1 BY <3>1 DEF IInv, FreeListExact
      <3> QED BY <1>5, <3>2
    <2> QED BY <2>1
  <1>8. NextId(child) \in EnvId
    <2>1. PICK g \in 0 .. MaxGen, f \in Envs : env_id[child] = <<g, f>>
      BY <1>0, <1>1 DEF EnvId
    <2> QED BY <1>1, <2>1, ConstantsAssumption DEF NextId, EnvId
  <1>9. env_id' \in [Envs -> EnvId] /\ env_parent_id' \in [Envs -> EnvId]
    BY <1>0, <1>8 DEF env_alloc
  <1> QED BY <1>3, <1>5, <1>6, <1>7, <1>9 DEF FreeListExact

-----------------------------------------------------------------------------
(***************************************************************************)
(* What a handler finds, and when it may hand over to the scheduler.       *)
(***************************************************************************)

\* The environment of a trap being served is running here and nowhere else.
LEMMA ServingFacts ==
  ASSUME IInv, NEW c \in CPU, Serving(c)
  PROVE  /\ kernel_lock = c
         /\ cpu_env[c] \in Envs
         /\ env_status[cpu_env[c]] = "ENV_RUNNING"
         /\ \A d \in CPU \ {c} : cpu_env[d] # NULL =>
               /\ cpu_env[d] \in Envs
               /\ cpu_env[d] # cpu_env[c]
               /\ env_status[cpu_env[d]] \in Busy
  <1>1. /\ kernel_lock = c
        /\ cpu_env[c] \in Envs
        /\ env_status[cpu_env[c]] = "ENV_RUNNING"
    BY DEF Serving, IInv, CpuInv, LockDiscipline, StatusMatchesCpus, TypeOK,
           Executing, Busy
  <1>2. ASSUME NEW d \in CPU \ {c}, cpu_env[d] # NULL
        PROVE  /\ cpu_env[d] \in Envs
               /\ cpu_env[d] # cpu_env[c]
               /\ env_status[cpu_env[d]] \in Busy
    <2>1. pc[d] \in {"pop", "user", "trap"}
      BY <1>1, <1>2, OthersExecute DEF IInv, Serving
    <2> QED
      BY <1>2, <2>1 DEF IInv, CpuInv, OneCpuPerEnv, StatusMatchesCpus, TypeOK, Executing
  <1> QED BY <1>1, <1>2

\* A handler that makes nobody busy, and leaves the environments of the other
\* processors busy, may hand over; it may give up its own environment if it
\* freed it.
LEMMA ServingHandover ==
  ASSUME IInv, NEW c \in CPU, Serving(c), NEW st \in [Envs -> Status],
         st[cpu_env[c]] # "ENV_DYING",
         \A f \in Envs : st[f] \in Busy => env_status[f] \in Busy,
         \A f \in Envs \ {cpu_env[c]} : env_status[f] \in Busy => st[f] \in Busy
  PROVE  /\ Handover(c, st, cpu_env[c])
         /\ st[cpu_env[c]] \notin Busy => Handover(c, st, NULL)
  <1>1. /\ kernel_lock = c
        /\ pc[c] \in {"kernel", "sched"}
        /\ \A d \in CPU \ {c} : cpu_env[d] # NULL => st[cpu_env[d]] \in Busy
    BY ServingFacts DEF Serving
  <1>2. ASSUME NEW f \in Envs, st[f] \in Busy
        PROVE  f = cpu_env[c] \/ \E d \in CPU \ {c} : cpu_env[d] = f
    <2>1. PICK d \in CPU : cpu_env[d] = f
      BY <1>2 DEF IInv, CpuInv, StatusMatchesCpus
    <2> QED BY <2>1
  <1>3. Handover(c, st, cpu_env[c])
    BY <1>1, <1>2 DEF Handover
  <1>4. ASSUME st[cpu_env[c]] \notin Busy PROVE Handover(c, st, NULL)
    BY <1>1, <1>2, <1>4 DEF Handover
  <1> QED BY <1>3, <1>4

-----------------------------------------------------------------------------
(***************************************************************************)
(* One lemma per action.                                                   *)
(***************************************************************************)

\* The parts of IInv that do not depend on the scheduler, for a handler that
\* leaves ids, free list and messages alone and wakes no receiver.
LEMMA KeepRest ==
  ASSUME IInv, NEW st, CpuPost(st), UNCHANGED <<idVars, ipcVars>>,
         \A f \in Envs : st[f] = "ENV_FREE" <=> env_status[f] = "ENV_FREE",
         \A f \in Envs : env_ipc_recving[f] => st[f] = env_status[f]
  PROVE  IInv'
  <1>1. CpuInv' /\ FreeListExact'
    BY PostTableKept
  <1>2. TypeOK'
    BY DEF IInv, TypeOK, CpuPost, idVars, ipcVars
  <1>3. ReceiverParked'
    BY DEF IInv, ReceiverParked, CpuPost, ipcVars
  <1> QED BY <1>1, <1>2, <1>3 DEF IInv

\* The state in which i386_init calls sched_yield satisfies the invariant.
LEMMA InitIInv == Init => IInv
  <1> SUFFICES ASSUME Init PROVE IInv OBVIOUS
  <1> USE ConstantsAssumption
  <1>1. TypeOK
    <2>1. env_free_list \in Seq(Envs)
      <3>1. \A i \in 1 .. NENV - NInit : NInit + i - 1 \in Envs
        BY DEF Envs
      <3>2. NENV - NInit \in Nat OBVIOUS
      <3>3. env_free_list = [i \in 1 .. NENV - NInit |-> NInit + i - 1]
        BY Zenon DEF Init, env_init
      <3> QED BY <3>1, <3>2, <3>3
    <2>2. env_id \in [Envs -> EnvId] /\ env_parent_id \in [Envs -> EnvId] /\ cr3 \in [CPU -> EnvId]
      BY ZeroIsId DEF Init, env_init, EnvId, kern_pgdir
    <2> QED BY <2>1, <2>2 DEF Init, env_init, TypeOK, Pc, Status
  <1>2. LockDiscipline /\ PanicKeepsLock /\ IdleHasNoEnv /\ OneCpuPerEnv
    BY DEF Init, LockDiscipline, PanicKeepsLock, IdleHasNoEnv, OneCpuPerEnv
  <1>3. StatusMatchesCpus /\ AddressSpaceAlive
    BY DEF Init, env_init, StatusMatchesCpus, AddressSpaceAlive, Executing, Busy
  <1>4. ReceiverParked
    BY DEF Init, env_init, ReceiverParked
  <1>5. FreeListExact
    <2>1. /\ DOMAIN env_free_list = 1 .. NENV - NInit
          /\ \A i \in 1 .. NENV - NInit : env_free_list[i] = NInit + i - 1
      BY DEF Init, env_init
    <2>2. \A e \in Envs : env_status[e] = "ENV_FREE" <=> e >= NInit
      BY DEF Init, env_init, Envs
    <2>3. ASSUME NEW e \in Envs, e >= NInit
          PROVE  \E i \in DOMAIN env_free_list : env_free_list[i] = e
      <3>1. e - NInit + 1 \in 1 .. NENV - NInit BY <2>3 DEF Envs
      <3>2. env_free_list[e - NInit + 1] = e BY <2>1, <3>1 DEF Envs
      <3> QED BY <2>1, <3>1, <3>2
    <2>4. ASSUME NEW i \in DOMAIN env_free_list
          PROVE  env_free_list[i] \in Envs /\ env_free_list[i] >= NInit
      BY <2>1, <2>4 DEF Envs
    <2>5. \A i, j \in DOMAIN env_free_list : env_free_list[i] = env_free_list[j] => i = j
      BY <2>1
    <2>6. {env_free_list[i] : i \in DOMAIN env_free_list} = {e \in Envs : env_status[e] = "ENV_FREE"}
      BY <2>2, <2>3, <2>4
    <2> QED BY <2>5, <2>6 DEF FreeListExact
  <1> QED BY <1>1, <1>2, <1>3, <1>4, <1>5 DEF IInv, CpuInv

\* A step outside the scheduler that moves one processor between places of
\* the same kind: executing, idle, or holding the lock.
LEMMA TrapIInv ==
  ASSUME IInv, NEW c \in CPU, Trap(c)
  PROVE  IInv'
  <1> USE ConstantsAssumption DEF IInv, CpuInv, Trap, panicstr, idVars, ipcVars
  <1>1. TypeOK' BY DEF TypeOK, Pc
  <1>2. LockDiscipline' /\ PanicKeepsLock' BY DEF LockDiscipline, PanicKeepsLock, TypeOK
  <1>3. IdleHasNoEnv' BY DEF LockDiscipline, IdleHasNoEnv, TypeOK
  <1>4. OneCpuPerEnv' BY DEF OneCpuPerEnv
  <1>5. StatusMatchesCpus' /\ AddressSpaceAlive'
    BY DEF LockDiscipline, StatusMatchesCpus, AddressSpaceAlive, TypeOK, Executing
  <1>6. ReceiverParked' /\ FreeListExact' BY DEF ReceiverParked, FreeListExact
  <1> QED BY <1>1, <1>2, <1>3, <1>4, <1>5, <1>6

\* The hlt at the top of trap(), and the panic over a key: the processor stops
\* where it was.
LEMMA StopIInv ==
  ASSUME IInv, NEW c \in CPU, Hlt(c) \/ KeyInterrupt(c)
  PROVE  IInv'
  <1> USE ConstantsAssumption DEF IInv, CpuInv, Hlt, KeyInterrupt, panicstr, idVars, ipcVars
  <1>1. TypeOK' BY DEF TypeOK, Pc
  <1>2. LockDiscipline' BY DEF LockDiscipline, TypeOK
  <1>3. PanicKeepsLock' BY DEF PanicKeepsLock, TypeOK
  <1>4. IdleHasNoEnv' BY DEF IdleHasNoEnv, TypeOK
  <1>5. OneCpuPerEnv' BY DEF OneCpuPerEnv
  <1>6. StatusMatchesCpus' /\ AddressSpaceAlive'
    BY DEF StatusMatchesCpus, AddressSpaceAlive, TypeOK, Executing
  <1>7. ReceiverParked' /\ FreeListExact' BY DEF ReceiverParked, FreeListExact
  <1> QED BY <1>1, <1>2, <1>3, <1>4, <1>5, <1>6, <1>7

\* lock_kernel: the processor that takes the free lock enters the kernel.
LEMMA LockIInv ==
  ASSUME IInv, NEW c \in CPU, lock_kernel(c)
  PROVE  IInv'
  <1> USE ConstantsAssumption DEF IInv, CpuInv, lock_kernel, idVars, ipcVars
  <1>1. TypeOK' BY DEF TypeOK, Pc
  <1>2. LockDiscipline' /\ PanicKeepsLock' BY DEF LockDiscipline, PanicKeepsLock, TypeOK
  <1>3. IdleHasNoEnv' BY DEF IdleHasNoEnv, TypeOK
  <1>4. OneCpuPerEnv' BY DEF OneCpuPerEnv
  <1>5. StatusMatchesCpus' /\ AddressSpaceAlive'
    BY DEF StatusMatchesCpus, AddressSpaceAlive, TypeOK, Executing
  <1>6. ReceiverParked' /\ FreeListExact' BY DEF ReceiverParked, FreeListExact
  <1> QED BY <1>1, <1>2, <1>3, <1>4, <1>5, <1>6

\* env_pop_tf: the iret changes only where the processor is.
LEMMA PopIInv ==
  ASSUME IInv, NEW c \in CPU, env_pop_tf(c)
  PROVE  IInv'
  <1> USE ConstantsAssumption DEF IInv, CpuInv, env_pop_tf, idVars, ipcVars
  <1>1. TypeOK' BY DEF TypeOK, Pc
  <1>2. LockDiscipline' /\ PanicKeepsLock' BY DEF LockDiscipline, PanicKeepsLock, TypeOK
  <1>3. IdleHasNoEnv' BY DEF IdleHasNoEnv, TypeOK
  <1>4. OneCpuPerEnv' BY DEF OneCpuPerEnv
  <1>5. StatusMatchesCpus' /\ AddressSpaceAlive'
    BY DEF StatusMatchesCpus, AddressSpaceAlive, TypeOK, Executing
  <1>6. ReceiverParked' /\ FreeListExact' BY DEF ReceiverParked, FreeListExact
  <1> QED BY <1>1, <1>2, <1>3, <1>4, <1>5, <1>6

\* int3 enters the monitor with the lock and the environment in place.
LEMMA BreakpointIInv ==
  ASSUME IInv, NEW c \in CPU, Breakpoint(c)
  PROVE  IInv'
  <1> USE ConstantsAssumption DEF IInv, CpuInv, Breakpoint, Serving, idVars, ipcVars
  <1>1. TypeOK' BY DEF TypeOK, Pc
  <1>2. LockDiscipline' /\ PanicKeepsLock' BY DEF LockDiscipline, PanicKeepsLock, TypeOK
  <1>3. IdleHasNoEnv' BY DEF IdleHasNoEnv, TypeOK
  <1>4. OneCpuPerEnv' BY DEF OneCpuPerEnv
  <1>5. StatusMatchesCpus' /\ AddressSpaceAlive'
    BY DEF StatusMatchesCpus, AddressSpaceAlive, TypeOK, Executing
  <1>6. ReceiverParked' /\ FreeListExact' BY DEF ReceiverParked, FreeListExact
  <1> QED BY <1>1, <1>2, <1>3, <1>4, <1>5, <1>6

\* A processor without environment calls sched_yield.
LEMMA EnterSchedulerIInv ==
  ASSUME IInv, NEW c \in CPU, EnterScheduler(c)
  PROVE  IInv' /\ Handled(c)
  <1>1. kernel_lock = c /\ cpu_env[c] = NULL
    BY DEF EnterScheduler, IInv, CpuInv, LockDiscipline, IdleHasNoEnv
  <1>2. ASSUME NEW d \in CPU \ {c}, cpu_env[d] # NULL
        PROVE  env_status[cpu_env[d]] \in Busy
    BY <1>1, <1>2, OthersExecute DEF IInv, CpuInv, StatusMatchesCpus, Executing, EnterScheduler
  <1>3. ASSUME NEW f \in Envs, env_status[f] \in Busy
        PROVE  \E d \in CPU \ {c} : cpu_env[d] = f
    <2>1. PICK d \in CPU : cpu_env[d] = f
      BY <1>3 DEF IInv, CpuInv, StatusMatchesCpus
    <2> QED BY <1>1, <2>1, NullNotEnv
  <1>4. Handover(c, env_status, cpu_env[c])
    BY <1>1, <1>2, <1>3 DEF Handover, EnterScheduler, IInv, TypeOK
  <1>5. Passes(c, env_status) /\ CpuPost(env_status)
    BY <1>4, SchedPasses, PassPost DEF EnterScheduler, IInv
  <1>6. Effect(c, env_status)
    BY <1>1, NullNotEnv DEF Effect, EnterScheduler, ipcVars
  <1> QED BY <1>5, <1>6, KeepRest DEF EnterScheduler, Handled

\* Yield and Return hand over the statuses as they are.
LEMMA YieldReturnIInv ==
  ASSUME IInv, NEW c \in CPU, Yield(c) \/ Return(c)
  PROVE  IInv' /\ Handled(c)
  <1>1. Serving(c) /\ UNCHANGED <<idVars, ipcVars>>
    BY DEF Yield, Return
  <1>2. env_status \in [Envs -> Status] BY DEF IInv, TypeOK
  <1>3. Handover(c, env_status, cpu_env[c])
    BY <1>1, <1>2, ServingFacts, ServingHandover
  <1>4. Passes(c, env_status) /\ CpuPost(env_status)
    BY <1>1, <1>3, ServingFacts, SchedPasses, ReturnPasses, PassPost DEF Yield, Return, IInv
  <1>5. Effect(c, env_status)
    BY <1>1, ServingFacts DEF Effect, ipcVars
  <1> QED BY <1>1, <1>4, <1>5, KeepRest DEF Handled

\* Freeing slot e, whose environment no other processor executes.
LEMMA FreeIInv ==
  ASSUME IInv, NEW e \in Envs, env_status[e] # "ENV_FREE",
         CpuPost(Freed(e)), env_free(e)
  PROVE  IInv'
  <1>1. CpuInv' /\ FreeListExact' /\ env_free_list' \in Seq(Envs)
    BY PostTableFreed
  <1>2. TypeOK'
    BY <1>1 DEF IInv, TypeOK, CpuPost, env_free, ipcVars
  <1>3. ReceiverParked'
    BY DEF IInv, TypeOK, ReceiverParked, CpuPost, Freed, env_free, ipcVars
  <1> QED BY <1>1, <1>2, <1>3 DEF IInv

\* trap() frees the zombie that its own processor was running.
LEMMA CollectIInv ==
  ASSUME IInv, NEW c \in CPU, CollectZombie(c)
  PROVE  IInv' /\ Handled(c)
  <1> DEFINE e == cpu_env[c]
  <1>1. kernel_lock = c /\ e \in Envs /\ env_status \in [Envs -> Status]
    BY DEF CollectZombie, IInv, CpuInv, LockDiscipline, StatusMatchesCpus, TypeOK, Executing
  <1>2. \A d \in CPU \ {c} : cpu_env[d] # NULL =>
           cpu_env[d] \in Envs /\ cpu_env[d] # e /\ env_status[cpu_env[d]] \in Busy
    BY <1>1, OthersExecute
    DEF IInv, CpuInv, OneCpuPerEnv, StatusMatchesCpus, TypeOK, Executing, CollectZombie
  <1>3. \A f \in Envs : Freed(e)[f] \in Busy => \E d \in CPU \ {c} : cpu_env[d] = f
    BY <1>1 DEF IInv, CpuInv, StatusMatchesCpus, Freed, Busy
  <1>4. Handover(c, Freed(e), NULL)
    BY <1>1, <1>2, <1>3 DEF Handover, Freed, CollectZombie, Status
  <1>5. Passes(c, Freed(e)) /\ CpuPost(Freed(e))
    BY <1>4, SchedPasses, PassPost DEF CollectZombie, IInv
  <1>6. env_status[e] # "ENV_FREE" /\ env_free(e)
    BY DEF CollectZombie
  <1>7. Effect(c, Freed(e))
    BY <1>1, <1>6 DEF Effect, Freed, env_free, ipcVars
  <1> QED BY <1>1, <1>5, <1>6, <1>7, FreeIInv DEF Handled

\* env_destroy of an environment in use that is not already a zombie.
LEMMA DestroyIInv ==
  ASSUME IInv, NEW c \in CPU, Serving(c), NEW e \in Envs,
         env_status[e] \notin {"ENV_FREE", "ENV_DYING"}, env_destroy(c, e)
  PROVE  IInv' /\ Handled(c)
  <1>0. /\ env_status \in [Envs -> Status] /\ cpu_env[c] \in Envs
        /\ env_status[cpu_env[c]] = "ENV_RUNNING"
        /\ TypeOK /\ CpuInv
    BY ServingFacts DEF IInv, TypeOK
  <1>1. CASE env_status[e] = "ENV_RUNNING" /\ e # cpu_env[c]
    <2> DEFINE st == [env_status EXCEPT ![e] = "ENV_DYING"]
    <2>1. st \in [Envs -> Status] BY <1>0 DEF Status
    <2>2. Handover(c, st, cpu_env[c])
      BY <1>0, <1>1, <2>1, ServingHandover DEF Busy
    <2>3. trap_return(c, st) /\ UNCHANGED <<idVars, ipcVars>>
      BY <1>1 DEF env_destroy
    <2>4. Passes(c, st) /\ CpuPost(st) BY <1>0, <2>2, <2>3, ReturnPasses, PassPost
    <2>5. \A f \in Envs : /\ st[f] = "ENV_FREE" <=> env_status[f] = "ENV_FREE"
                          /\ env_ipc_recving[f] => st[f] = env_status[f]
      BY <1>0, <1>1 DEF IInv, ReceiverParked
    <2>6. Effect(c, st)
      BY <1>0, <1>1, <2>3 DEF Effect, ipcVars
    <2> QED BY <2>3, <2>4, <2>5, <2>6, KeepRest DEF Handled
  <1>2. CASE ~(env_status[e] = "ENV_RUNNING" /\ e # cpu_env[c])
    <2>0. env_free(e) BY <1>2 DEF env_destroy
    <2>1. Freed(e) \in [Envs -> Status] /\ \A f \in Envs : Freed(e)[f] = IF f = e THEN "ENV_FREE" ELSE env_status[f]
      BY <1>0 DEF Freed, Status
    <2>2. /\ Handover(c, Freed(e), cpu_env[c])
          /\ Freed(e)[cpu_env[c]] \notin Busy => Handover(c, Freed(e), NULL)
      <3>1. Freed(e)[cpu_env[c]] # "ENV_DYING"
        BY <1>0, <2>1
      <3>2. \A f \in Envs : Freed(e)[f] \in Busy => env_status[f] \in Busy
        BY <2>1 DEF Busy
      <3>3. \A f \in Envs \ {cpu_env[c]} : env_status[f] \in Busy => Freed(e)[f] \in Busy
        BY <1>2, <2>1 DEF Busy
      <3> QED BY <2>1, <3>1, <3>2, <3>3, ServingHandover
    <2>3. Effect(c, Freed(e))
      BY <1>0, <2>0, <2>1 DEF Effect, env_free, ipcVars
    <2>4. CASE e = cpu_env[c]
      <3>1. Handover(c, Freed(e), NULL) BY <1>0, <2>1, <2>2, <2>4 DEF Busy
      <3>2. sched_yield(c, Freed(e), NULL) BY <1>2, <2>4 DEF env_destroy
      <3>3. Passes(c, Freed(e)) /\ CpuPost(Freed(e))
        BY <1>0, <3>1, <3>2, SchedPasses, PassPost
      <3> QED BY <2>0, <2>3, <3>3, FreeIInv DEF Handled
    <2>5. CASE e # cpu_env[c]
      <3>1. trap_return(c, Freed(e)) BY <1>2, <2>5 DEF env_destroy
      <3>2. Passes(c, Freed(e)) /\ CpuPost(Freed(e))
        BY <1>0, <2>2, <3>1, ReturnPasses, PassPost
      <3> QED BY <2>0, <2>3, <3>2, FreeIInv DEF Handled
    <2> QED BY <2>4, <2>5
  <1> QED BY <1>1, <1>2

\* A faulting environment is destroyed by its own processor.
LEMMA FaultIInv ==
  ASSUME IInv, NEW c \in CPU, Fault(c)
  PROVE  IInv' /\ Handled(c)
  BY ServingFacts, DestroyIInv DEF Fault

\* envid2env returns NULL or a slot in use.
LEMMA Envid2envFacts ==
  ASSUME IInv, NEW c \in CPU, Serving(c), NEW id \in EnvId, NEW checkperm,
         envid2env(c, id, checkperm) # NULL
  PROVE  /\ envid2env(c, id, checkperm) \in Envs
         /\ env_status[envid2env(c, id, checkperm)] # "ENV_FREE"
  <1>1. ENVX(id) \in Envs BY DEF ENVX, EnvId
  <1>2. cpu_env[c] \in Envs /\ env_status[cpu_env[c]] # "ENV_FREE"
    BY ServingFacts
  <1> QED BY <1>1, <1>2 DEF envid2env

\* sys_env_destroy of the caller or of a child, zombies excepted.
LEMMA SysEnvDestroyIInv ==
  ASSUME IInv, Disciplined, NEW c \in CPU, NEW id \in EnvId, sys_env_destroy(c, id)
  PROVE  IInv' /\ Handled(c)
  <1> DEFINE e == envid2env(c, id, TRUE)
  <1>1. Serving(c) /\ e # NULL /\ MayDestroy(e) /\ env_destroy(c, e)
    BY DEF sys_env_destroy
  <1>2. e \in Envs /\ env_status[e] # "ENV_FREE"
    BY <1>1, Envid2envFacts
  <1>3. env_status[e] # "ENV_DYING"
    BY <1>1 DEF MayDestroy, Disciplined
  <1> HIDE DEF e
  <1> QED BY <1>1, <1>2, <1>3, DestroyIInv

\* sys_env_set_status of the caller, or of a child that no processor runs.
LEMMA SetStatusIInv ==
  ASSUME IInv, Disciplined, NEW c \in CPU, NEW id \in EnvId,
         NEW status \in {"ENV_RUNNABLE", "ENV_NOT_RUNNABLE"},
         sys_env_set_status(c, id, status)
  PROVE  IInv' /\ Handled(c)
  <1> DEFINE e  == envid2env(c, id, TRUE)
             st == [env_status EXCEPT ![e] = status]
  <1>1. /\ Serving(c) /\ e # NULL /\ MaySetStatus(c, e)
        /\ trap_return(c, st) /\ UNCHANGED <<idVars, ipcVars>>
    BY DEF sys_env_set_status
  <1>2. e \in Envs /\ env_status[e] # "ENV_FREE"
    BY <1>1, Envid2envFacts
  <1>3. \/ e = cpu_env[c] /\ "self" \in Programs
        \/ env_status[e] \notin Busy /\ ~env_ipc_recving[e]
    BY <1>1 DEF MaySetStatus, Disciplined, Busy
  <1> HIDE DEF e
  <1>4. /\ env_status \in [Envs -> Status] /\ st \in [Envs -> Status]
        /\ env_status[cpu_env[c]] = "ENV_RUNNING" /\ cpu_env[c] \in Envs
        /\ TypeOK /\ CpuInv
    BY <1>1, ServingFacts DEF IInv, TypeOK, Status
  <1>5. \A f \in Envs : st[f] = IF f = e THEN status ELSE env_status[f]
    BY <1>4
  <1>6. Handover(c, st, cpu_env[c])
    <2>1. st[cpu_env[c]] # "ENV_DYING" BY <1>4, <1>5
    <2>2. \A f \in Envs : st[f] \in Busy => env_status[f] \in Busy
      BY <1>5 DEF Busy
    <2>3. \A f \in Envs \ {cpu_env[c]} : env_status[f] \in Busy => st[f] \in Busy
      BY <1>3, <1>5
    <2> HIDE DEF st
    <2> QED BY <1>1, <1>4, <2>1, <2>2, <2>3, ServingHandover
  <1>7. Passes(c, st) /\ CpuPost(st)
    <2> HIDE DEF st
    <2> QED BY <1>1, <1>4, <1>6, ReturnPasses, PassPost
  <1>8. \A f \in Envs : /\ st[f] = "ENV_FREE" <=> env_status[f] = "ENV_FREE"
                        /\ env_ipc_recving[f] => st[f] = env_status[f]
    BY <1>2, <1>3, <1>4, <1>5 DEF IInv, ReceiverParked
  <1>9. Effect(c, st)
    BY <1>1, <1>2, <1>3, <1>4, <1>5 DEF Effect, Busy, ipcVars
  <1> HIDE DEF st
  <1> QED BY <1>1, <1>7, <1>8, <1>9, KeepRest DEF Handled

\* sys_exofork takes the first free slot and leaves it ENV_NOT_RUNNABLE.
LEMMA ExoforkIInv ==
  ASSUME IInv, NEW c \in CPU, sys_exofork(c)
  PROVE  IInv' /\ Handled(c)
  <1> DEFINE child == Head(env_free_list)
             st    == [env_status EXCEPT ![child] = "ENV_NOT_RUNNABLE"]
             parent == env_id[cpu_env[c]]
  <1>1. /\ Serving(c) /\ env_free_list # << >>
        /\ env_alloc(child, parent) /\ trap_return(c, st)
    BY DEF sys_exofork
  <1>2. /\ env_status \in [Envs -> Status] /\ env_free_list \in Seq(Envs)
        /\ cpu_env[c] \in Envs /\ env_status[cpu_env[c]] = "ENV_RUNNING"
        /\ env_id \in [Envs -> EnvId]
        /\ TypeOK /\ CpuInv
    BY <1>1, ServingFacts DEF IInv, TypeOK
  <1>3. child \in Envs /\ env_status[child] = "ENV_FREE"
    <2>1. 1 \in DOMAIN env_free_list /\ env_free_list[1] = child
      BY <1>1, <1>2
    <2> QED BY <2>1 DEF IInv, FreeListExact
  <1>4. st \in [Envs -> Status] BY <1>2 DEF Status
  <1>5. \A f \in Envs : st[f] = IF f = child THEN "ENV_NOT_RUNNABLE" ELSE env_status[f]
    BY <1>2
  <1>6. Handover(c, st, cpu_env[c])
    <2>1. st[cpu_env[c]] # "ENV_DYING" BY <1>2, <1>5
    <2>2. \A f \in Envs : st[f] \in Busy => env_status[f] \in Busy
      BY <1>5 DEF Busy
    <2>3. \A f \in Envs \ {cpu_env[c]} : env_status[f] \in Busy => st[f] \in Busy
      BY <1>3, <1>5 DEF Busy
    <2> HIDE DEF st
    <2> QED BY <1>1, <1>4, <2>1, <2>2, <2>3, ServingHandover
  <1>7. Passes(c, st) /\ CpuPost(st)
    <2> HIDE DEF st
    <2> QED BY <1>1, <1>2, <1>6, ReturnPasses, PassPost
  <1>8. /\ CpuInv' /\ FreeListExact' /\ env_free_list' \in Seq(Envs)
        /\ env_id' \in [Envs -> EnvId] /\ env_parent_id' \in [Envs -> EnvId]
    <2>1. parent \in EnvId BY <1>2
    <2> HIDE DEF child, parent
    <2> QED BY <1>1, <1>7, <2>1, PostTableAllocated DEF child
  <1>9. TypeOK'
    BY <1>7, <1>8, <1>1 DEF IInv, TypeOK, CpuPost, env_alloc
  <1>10. ReceiverParked'
    <2>1. ASSUME NEW f \in Envs, env_ipc_recving'[f]
          PROVE  env_status'[f] \in {"ENV_NOT_RUNNABLE", "ENV_FREE"}
      <3>1. f # child /\ env_ipc_recving[f]
        BY <1>1, <2>1 DEF env_alloc, IInv, TypeOK
      <3>2. st[f] \in {"ENV_NOT_RUNNABLE", "ENV_FREE"}
        BY <1>5, <3>1 DEF IInv, ReceiverParked
      <3> QED BY <1>7, <3>2 DEF CpuPost
    <2> QED BY <2>1 DEF ReceiverParked
  <1>11. Effect(c, st)
    BY <1>1, <1>2, <1>3, <1>5 DEF Effect, env_alloc
  <1> HIDE DEF st
  <1> QED BY <1>7, <1>8, <1>9, <1>10, <1>11 DEF IInv, Handled

\* sys_ipc_try_send wakes an environment that was blocked, hence not running.
LEMMA TrySendIInv ==
  ASSUME IInv, NEW c \in CPU, NEW id \in EnvId, NEW msg \in Message,
         sys_ipc_try_send(c, id, msg)
  PROVE  IInv' /\ Handled(c)
  <1> DEFINE e  == envid2env(c, id, FALSE)
             st == [env_status EXCEPT ![e] = "ENV_RUNNABLE"]
  <1>1. /\ Serving(c) /\ e # NULL /\ env_ipc_recving[e]
        /\ env_ipc_recving' = [env_ipc_recving EXCEPT ![e] = FALSE]
        /\ env_ipc_msg' = [env_ipc_msg EXCEPT ![e] = msg]
        /\ trap_return(c, st) /\ UNCHANGED idVars
    BY DEF sys_ipc_try_send
  <1>2. e \in Envs /\ env_status[e] = "ENV_NOT_RUNNABLE"
    BY <1>1, Envid2envFacts DEF IInv, ReceiverParked
  <1> HIDE DEF e
  <1>3. /\ env_status \in [Envs -> Status] /\ st \in [Envs -> Status]
        /\ env_status[cpu_env[c]] = "ENV_RUNNING" /\ cpu_env[c] \in Envs
        /\ env_ipc_recving \in [Envs -> BOOLEAN]
        /\ TypeOK /\ CpuInv
    BY <1>1, ServingFacts DEF IInv, TypeOK, Status
  <1>4. \A f \in Envs : st[f] = IF f = e THEN "ENV_RUNNABLE" ELSE env_status[f]
    BY <1>3
  <1>5. Handover(c, st, cpu_env[c])
    <2>1. st[cpu_env[c]] # "ENV_DYING" BY <1>3, <1>4
    <2>2. \A f \in Envs : st[f] \in Busy => env_status[f] \in Busy
      BY <1>4 DEF Busy
    <2>3. \A f \in Envs \ {cpu_env[c]} : env_status[f] \in Busy => st[f] \in Busy
      BY <1>2, <1>4 DEF Busy
    <2> HIDE DEF st
    <2> QED BY <1>1, <1>3, <2>1, <2>2, <2>3, ServingHandover
  <1>6. Passes(c, st) /\ CpuPost(st)
    <2> HIDE DEF st
    <2> QED BY <1>1, <1>3, <1>5, ReturnPasses, PassPost
  <1>7. \A f \in Envs : st[f] = "ENV_FREE" <=> env_status[f] = "ENV_FREE"
    BY <1>2, <1>4
  <1>8. CpuInv' /\ FreeListExact'
    <2> HIDE DEF st
    <2> QED BY <1>1, <1>6, <1>7, PostTableKept
  <1>9. TypeOK'
    BY <1>1, <1>6 DEF IInv, TypeOK, CpuPost, idVars
  <1>10. ReceiverParked'
    <2>1. ASSUME NEW f \in Envs, env_ipc_recving'[f]
          PROVE  env_status'[f] \in {"ENV_NOT_RUNNABLE", "ENV_FREE"}
      <3>1. f # e /\ env_ipc_recving[f]
        BY <1>1, <1>3, <2>1
      <3>2. st[f] \in {"ENV_NOT_RUNNABLE", "ENV_FREE"}
        BY <1>4, <3>1 DEF IInv, ReceiverParked
      <3> QED BY <1>6, <3>2 DEF CpuPost
    <2> QED BY <2>1 DEF ReceiverParked
  <1>11. Effect(c, st)
    BY <1>1, <1>2, <1>3, <1>4 DEF Effect, IInv, TypeOK
  <1> HIDE DEF st
  <1> QED BY <1>6, <1>8, <1>9, <1>10, <1>11 DEF IInv, Handled

\* sys_ipc_recv blocks the caller and gives up its processor.
LEMMA RecvIInv ==
  ASSUME IInv, NEW c \in CPU, sys_ipc_recv(c)
  PROVE  IInv' /\ Handled(c)
  <1> DEFINE e  == cpu_env[c]
             st == [env_status EXCEPT ![e] = "ENV_NOT_RUNNABLE"]
  <1>1. /\ Serving(c) /\ sched_yield(c, st, e)
        /\ env_ipc_recving' = [env_ipc_recving EXCEPT ![e] = TRUE]
        /\ UNCHANGED <<idVars, env_ipc_msg>>
    BY DEF sys_ipc_recv
  <1>2. /\ env_status \in [Envs -> Status] /\ st \in [Envs -> Status]
        /\ env_status[e] = "ENV_RUNNING" /\ e \in Envs
        /\ env_ipc_recving \in [Envs -> BOOLEAN]
        /\ TypeOK /\ CpuInv
    BY <1>1, ServingFacts DEF IInv, TypeOK, Status
  <1>3. \A f \in Envs : st[f] = IF f = e THEN "ENV_NOT_RUNNABLE" ELSE env_status[f]
    BY <1>2
  <1>4. Handover(c, st, e)
    <2>1. st[e] # "ENV_DYING" BY <1>2, <1>3
    <2>2. \A f \in Envs : st[f] \in Busy => env_status[f] \in Busy
      BY <1>3 DEF Busy
    <2>3. \A f \in Envs \ {e} : env_status[f] \in Busy => st[f] \in Busy
      BY <1>3
    <2> HIDE DEF st
    <2> QED BY <1>1, <1>2, <2>1, <2>2, <2>3, ServingHandover
  <1>5. Passes(c, st) /\ CpuPost(st)
    <2> HIDE DEF st
    <2> QED BY <1>1, <1>2, <1>4, SchedPasses, PassPost
  <1>6. \A f \in Envs : st[f] = "ENV_FREE" <=> env_status[f] = "ENV_FREE"
    BY <1>2, <1>3
  <1>7. CpuInv' /\ FreeListExact'
    <2> HIDE DEF st
    <2> QED BY <1>1, <1>5, <1>6, PostTableKept
  <1>8. TypeOK'
    BY <1>1, <1>5 DEF IInv, TypeOK, CpuPost, idVars
  <1>9. ReceiverParked'
    <2>1. ASSUME NEW f \in Envs, env_ipc_recving'[f]
          PROVE  env_status'[f] \in {"ENV_NOT_RUNNABLE", "ENV_FREE"}
      <3>1. st[f] \in {"ENV_NOT_RUNNABLE", "ENV_FREE"}
        BY <1>1, <1>2, <1>3, <2>1 DEF IInv, ReceiverParked
      <3> QED BY <1>5, <3>1 DEF CpuPost
    <2> QED BY <2>1 DEF ReceiverParked
  <1>10. Effect(c, st)
    BY <1>1, <1>2, <1>3 DEF Effect
  <1> HIDE DEF st
  <1> QED BY <1>5, <1>7, <1>8, <1>9, <1>10 DEF IInv, Handled

-----------------------------------------------------------------------------
\* A step that changes nothing, like a turn of the monitor loop.
LEMMA StutterIInv ==
  ASSUME IInv, UNCHANGED vars
  PROVE  IInv'
  BY DEF vars, cpuVars, idVars, ipcVars, IInv, CpuInv, TypeOK, LockDiscipline,
         PanicKeepsLock, IdleHasNoEnv, OneCpuPerEnv, StatusMatchesCpus,
         AddressSpaceAlive, ReceiverParked, FreeListExact

\* A step that only moves processor c, or nothing at all: a trap, taking the
\* lock, iret, the monitor.
Moves(c) ==
    \/ Trap(c) \/ Hlt(c) \/ KeyInterrupt(c)
    \/ lock_kernel(c) \/ env_pop_tf(c) \/ Breakpoint(c)
    \/ UNCHANGED vars

\* Every step of the kernel, on any processor, keeps the invariant and either
\* only moves a processor or is a handler.
LEMMA NextIInv ==
  ASSUME Disciplined, IInv, [Next]_vars
  PROVE  IInv' /\ \E c \in CPU : Moves(c) \/ Handled(c)
  <1>1. ASSUME NEW c \in CPU, Syscall(c) PROVE IInv' /\ Handled(c)
    <2>1. CASE sys_exofork(c) BY <2>1, ExoforkIInv
    <2>2. ASSUME NEW id \in EnvId, NEW status \in {"ENV_RUNNABLE", "ENV_NOT_RUNNABLE"},
                 sys_env_set_status(c, id, status)
          PROVE  IInv' /\ Handled(c)
      BY <2>2, SetStatusIInv
    <2>3. ASSUME NEW id \in EnvId, sys_env_destroy(c, id) PROVE IInv' /\ Handled(c)
      BY <2>3, SysEnvDestroyIInv
    <2>4. ASSUME NEW id \in EnvId, NEW msg \in Message, sys_ipc_try_send(c, id, msg)
          PROVE  IInv' /\ Handled(c)
      BY <2>4, TrySendIInv
    <2>5. CASE sys_ipc_recv(c) BY <2>5, RecvIInv
    <2> QED BY <1>1, <2>1, <2>2, <2>3, <2>4, <2>5 DEF Syscall
  <1>2. ASSUME NEW c \in CPU, Monitor(c) PROVE IInv' /\ Moves(c)
    BY <1>2, StutterIInv DEF Monitor, Moves
  <1>3. ASSUME NEW c \in CPU,
               \/ Trap(c) \/ Hlt(c) \/ KeyInterrupt(c)
               \/ lock_kernel(c) \/ env_pop_tf(c) \/ Breakpoint(c)
        PROVE  IInv' /\ Moves(c)
    BY <1>3, TrapIInv, StopIInv, LockIInv, PopIInv, BreakpointIInv DEF Moves
  <1>4. ASSUME NEW c \in CPU, EnterScheduler(c) \/ CollectZombie(c) \/ Yield(c) \/ Return(c) \/ Fault(c)
        PROVE  IInv' /\ Handled(c)
    BY <1>4, EnterSchedulerIInv, CollectIInv, YieldReturnIInv, FaultIInv
  <1>5. ASSUME UNCHANGED vars PROVE IInv' /\ Moves(BootCPU)
    BY <1>5, StutterIInv DEF Moves
  <1> QED
    BY <1>1, <1>2, <1>3, <1>4, <1>5, ConstantsAssumption DEF Next

-----------------------------------------------------------------------------
(***************************************************************************)
(* What the two kinds of steps do, beyond keeping the invariant.           *)
(***************************************************************************)

\* A handler that ends in the monitor found no environment RUNNABLE, RUNNING
\* or DYING, so no other processor executes one.
LEMMA PassMonitor ==
  ASSUME IInv, NEW c \in CPU, NEW st, Passes(c, st)
  PROVE  MonitorOnlyWhenIdle'
  <1>0. /\ TypeOK /\ CpuInv
        /\ pc \in [CPU -> Pc] /\ cpu_env \in [CPU -> Envs \cup {NULL}]
    BY DEF IInv, TypeOK
  <1>1. PICK cur :
          /\ Handover(c, st, cur)
          /\ \/ \E e \in Envs : Eligible(st, cur, e) /\ env_run(c, st, cur, e)
             \/ /\ \A e \in Envs : ~Eligible(st, cur, e)
                /\ sched_halt(c, st, cur)
    BY DEF Passes
  <1>2. kernel_lock = c BY <1>1 DEF Handover
  <1>3. \A d \in CPU \ {c} : pc[d] # "monitor" /\ pc'[d] = pc[d]
    BY <1>0, <1>1, <1>2 DEF env_run, sched_halt, CpuInv, LockDiscipline
  <1>4. SUFFICES ASSUME pc'[c] = "monitor", NEW d \in CPU \ {c},
                        pc[d] \in {"pop", "user", "trap"}
                 PROVE  FALSE
    BY <1>3 DEF MonitorOnlyWhenIdle
  <1>5. \A f \in Envs : st[f] \notin Busy
    <2>1. sched_halt(c, st, cur) BY <1>0, <1>1, <1>4 DEF env_run
    <2> QED BY <1>0, <1>4, <2>1 DEF sched_halt, Busy
  <1>6. cpu_env[d] \in Envs
    BY <1>0, <1>4 DEF CpuInv, StatusMatchesCpus, Executing
  <1> QED BY <1>1, <1>5, <1>6, NullNotEnv DEF Handover

\* While a processor sits in the monitor with the lock, the others halt, are
\* woken by their timers and spin.
LEMMA MoveMonitor ==
  ASSUME IInv, MonitorOnlyWhenIdle, NEW c \in CPU, Moves(c)
  PROVE  MonitorOnlyWhenIdle'
  <1>0. pc \in [CPU -> Pc] /\ LockDiscipline BY DEF IInv, TypeOK, CpuInv
  <1>1. CASE Trap(c) BY <1>0, <1>1 DEF Trap, MonitorOnlyWhenIdle, LockDiscipline
  <1>2. CASE lock_kernel(c) BY <1>0, <1>2 DEF lock_kernel, MonitorOnlyWhenIdle
  <1>3. CASE env_pop_tf(c) BY <1>0, <1>3 DEF env_pop_tf, MonitorOnlyWhenIdle
  <1>4. CASE UNCHANGED vars BY <1>4 DEF vars, cpuVars, MonitorOnlyWhenIdle
  <1>5. CASE Hlt(c) \/ KeyInterrupt(c)
    BY <1>0, <1>5 DEF Hlt, KeyInterrupt, MonitorOnlyWhenIdle
  <1>6. CASE Breakpoint(c) BY <1>0, <1>6 DEF Breakpoint, MonitorOnlyWhenIdle
  <1> QED BY <1>1, <1>2, <1>3, <1>4, <1>5, <1>6 DEF Moves

\* A handler that ends in hlt leaves no environment RUNNABLE but the one the
\* scan skipped: the caller's own, if a program set itself RUNNABLE.
LEMMA PassHalts ==
  ASSUME IInv, NEW c \in CPU, NEW st, Passes(c, st),
         NEW d \in CPU, pc[d] # "halt", pc'[d] = "halt",
         NEW e \in Envs, env_status'[e] = "ENV_RUNNABLE"
  PROVE  cpu_env[c] = e /\ st[e] = "ENV_RUNNABLE"
  <1>0. pc \in [CPU -> Pc] BY DEF IInv, TypeOK
  <1>1. PICK cur :
          /\ Handover(c, st, cur)
          /\ \/ \E f \in Envs : Eligible(st, cur, f) /\ env_run(c, st, cur, f)
             \/ /\ \A f \in Envs : ~Eligible(st, cur, f)
                /\ sched_halt(c, st, cur)
    BY DEF Passes
  <1>2. sched_halt(c, st, cur) /\ \A f \in Envs : ~Eligible(st, cur, f)
    BY <1>0, <1>1 DEF env_run
  <1>3. st[e] = "ENV_RUNNABLE" BY <1>2 DEF sched_halt
  <1>4. cur = e BY <1>2, <1>3 DEF Eligible
  <1> QED BY <1>1, <1>3, <1>4, NullNotEnv DEF Handover

\* Moving a processor halts none and leaves statuses and messages alone.
LEMMA MoveKeeps ==
  ASSUME IInv, NEW c \in CPU, Moves(c)
  PROVE  /\ env_status' = env_status /\ env_ipc_msg' = env_ipc_msg
         /\ \A d \in CPU : pc'[d] = "halt" => pc[d] = "halt"
  <1>0. pc \in [CPU -> Pc] BY DEF IInv, TypeOK
  <1>1. CASE Trap(c) BY <1>0, <1>1 DEF Trap, ipcVars
  <1>2. CASE lock_kernel(c) BY <1>0, <1>2 DEF lock_kernel, ipcVars
  <1>3. CASE env_pop_tf(c) BY <1>0, <1>3 DEF env_pop_tf, ipcVars
  <1>4. CASE Breakpoint(c) BY <1>0, <1>4 DEF Breakpoint, ipcVars
  <1>5. CASE UNCHANGED vars BY <1>5 DEF vars, cpuVars, ipcVars
  <1>6. CASE Hlt(c) \/ KeyInterrupt(c) BY <1>0, <1>6 DEF Hlt, KeyInterrupt, ipcVars
  <1> QED BY <1>1, <1>2, <1>3, <1>4, <1>5, <1>6 DEF Moves

-----------------------------------------------------------------------------
\* The table, the processors and the lock stay consistent for every number of
\* processors and environments, as long as programs only wake children that
\* are not running and destroy each child once.
THEOREM KernelInvariant ==
  ASSUME Disciplined
  PROVE  Spec => []IInv
  <1>1. Init => IInv BY InitIInv
  <1>2. IInv /\ [Next]_vars => IInv' BY NextIInv
  <1> QED BY <1>1, <1>2, PTL DEF Spec

\* The types of module Kernel are kept.
THEOREM KernelTypes ==
  ASSUME Disciplined
  PROVE  Spec => []TypeOK
  <1>1. IInv => TypeOK BY DEF IInv
  <1> QED BY <1>1, KernelInvariant, PTL

\* Only the holder of kernel_lock is inside the kernel, and trap() never takes
\* the lock twice or forgets to take it.
THEOREM KernelLockDiscipline ==
  ASSUME Disciplined
  PROVE  Spec => []LockDiscipline
  <1>1. IInv => LockDiscipline BY DEF IInv, CpuInv
  <1> QED BY <1>1, KernelInvariant, PTL

\* sched_yield never lets two processors run the same environment.
THEOREM KernelOneCpuPerEnv ==
  ASSUME Disciplined
  PROVE  Spec => []OneCpuPerEnv
  <1>1. IInv => OneCpuPerEnv BY DEF IInv, CpuInv
  <1> QED BY <1>1, KernelInvariant, PTL

\* Status and processors agree: what sched_yield, sched_halt and env_destroy
\* conclude from env_status alone is true of the processors.
THEOREM KernelStatusMatchesCpus ==
  ASSUME Disciplined
  PROVE  Spec => []StatusMatchesCpus
  <1>1. IInv => StatusMatchesCpus BY DEF IInv, CpuInv
  <1> QED BY <1>1, KernelInvariant, PTL

\* No processor executes on a freed or reused page directory: env_destroy and
\* the zombie protocol never pull an address space from under a processor.
THEOREM KernelAddressSpaceAlive ==
  ASSUME Disciplined
  PROVE  Spec => []AddressSpaceAlive
  <1>1. IInv => AddressSpaceAlive BY DEF IInv, CpuInv
  <1> QED BY <1>1, KernelInvariant, PTL

\* The free list is exactly the set of free slots, without repetition.
THEOREM KernelFreeListExact ==
  ASSUME Disciplined
  PROVE  Spec => []FreeListExact
  <1>1. IInv => FreeListExact BY DEF IInv
  <1> QED BY <1>1, KernelInvariant, PTL

\* Only environments blocked in sys_ipc_recv can be sent a message.
THEOREM KernelReceiverParked ==
  ASSUME Disciplined
  PROVE  Spec => []ReceiverParked
  <1>1. IInv => ReceiverParked BY DEF IInv
  <1> QED BY <1>1, KernelInvariant, PTL

\* A processor that gives up for good, with the kernel lock, cuts off nobody:
\* sched_halt's scan of the table sees what every other processor executes.
\* The monitor that int3 enters regardless is another matter.
THEOREM KernelMonitorOnlyWhenIdle ==
  ASSUME Disciplined
  PROVE  Spec => []MonitorOnlyWhenIdle
  <1>1. Init => IInv /\ MonitorOnlyWhenIdle
    BY InitIInv DEF Init, MonitorOnlyWhenIdle
  <1>2. ASSUME IInv, MonitorOnlyWhenIdle, [Next]_vars
        PROVE  (IInv /\ MonitorOnlyWhenIdle)'
    <2>1. IInv' /\ \E c \in CPU : Moves(c) \/ Handled(c)
      BY <1>2, NextIInv
    <2>2. ASSUME NEW c \in CPU, Handled(c) PROVE MonitorOnlyWhenIdle'
      BY <1>2, <2>2, PassMonitor DEF Handled
    <2>3. ASSUME NEW c \in CPU, Moves(c) PROVE MonitorOnlyWhenIdle'
      BY <1>2, <2>3, MoveMonitor
    <2> QED BY <2>1, <2>2, <2>3
  <1> QED BY <1>1, <1>2, PTL DEF Spec

\* sched_yield's scan misses no runnable environment, wherever it is in the
\* table: a processor goes to hlt only when there is none.  A program that
\* sets itself RUNNABLE with sys_env_set_status is left out, since the scan
\* then takes slot cur only if it is RUNNING.
THEOREM KernelHaltsOnlyWithoutWork ==
  ASSUME Disciplined, "self" \notin Programs
  PROVE  Spec => HaltsOnlyWithoutWork
  <1>1. ASSUME IInv, [Next]_vars, NEW d \in CPU, pc[d] # "halt", pc'[d] = "halt",
               NEW e \in Envs
        PROVE  env_status'[e] # "ENV_RUNNABLE"
    <2>0. PICK c \in CPU : Moves(c) \/ Handled(c)
      BY <1>1, NextIInv
    <2>1. Handled(c)
      BY <1>1, <2>0, MoveKeeps
    <2>2. PICK st : Passes(c, st) /\ Effect(c, st)
      BY <2>1 DEF Handled
    <2> QED BY <1>1, <2>2, PassHalts DEF Effect
  <1>2. IInv /\ [Next]_vars =>
          [\A c \in CPU : pc[c] # "halt" /\ pc'[c] = "halt" =>
             \A e \in Envs : env_status'[e] # "ENV_RUNNABLE"]_vars
    BY <1>1
  <1> QED BY <1>2, KernelInvariant, PTL DEF Spec, HaltsOnlyWithoutWork

\* A received message is never overwritten before the receiver blocks for the
\* next: sys_ipc_try_send writes only into an environment it wakes.
THEOREM KernelMessageStable ==
  ASSUME Disciplined
  PROVE  Spec => MessageStable
  <1>1. ASSUME IInv, [Next]_vars, NEW e \in Envs, env_ipc_msg'[e] # env_ipc_msg[e]
        PROVE  /\ env_status[e] = "ENV_NOT_RUNNABLE"
               /\ env_status'[e] \in {"ENV_RUNNABLE", "ENV_RUNNING"}
    <2>0. PICK c \in CPU : Moves(c) \/ Handled(c)
      BY <1>1, NextIInv
    <2>1. Handled(c)
      BY <1>1, <2>0, MoveKeeps
    <2>2. PICK st : Passes(c, st) /\ Effect(c, st)
      BY <2>1 DEF Handled
    <2>3. env_status[e] = "ENV_NOT_RUNNABLE" /\ st[e] = "ENV_RUNNABLE"
      BY <1>1, <2>2 DEF Effect
    <2>4. CpuPost(st) BY <1>1, <2>2, PassPost DEF IInv
    <2> QED BY <2>3, <2>4 DEF CpuPost
  <1>2. IInv /\ [Next]_vars =>
          [\A e \in Envs :
             env_ipc_msg'[e] # env_ipc_msg[e] =>
                 /\ env_status[e] = "ENV_NOT_RUNNABLE"
                 /\ env_status'[e] \in {"ENV_RUNNABLE", "ENV_RUNNING"}]_vars
    BY <1>1
  <1> QED BY <1>2, KernelInvariant, PTL DEF Spec, MessageStable

=============================================================================
