-------------------------- MODULE KernelIdsProofs ---------------------------
(***************************************************************************)
(* Proofs about module KernelIds, for any number of processors, slots,     *)
(* generations and lives of a slot, and programs that keep away from the   *)
(* liberties "wake" and "rekill".                                          *)
(***************************************************************************)
EXTENDS KernelIds, KernelProofs

\* The generation given to life k of slot e.
Gen(e, k) == given[e][k][1]

HistoryType ==
    /\ given \in [Envs -> Seq(EnvId)]
    /\ creator \in [Envs -> (Envs \cup {NULL}) \X Nat]

\* Every life got an id of its own slot, of generation 1 or more.
GivenOwn ==
    \A e \in Envs : \A k \in 1 .. Lives(e) :
        given[e][k] = <<Gen(e, k), e>> /\ Gen(e, k) \in 1 .. MaxGen

\* Lives less than MaxGen apart are so many generations apart, around the wrap
\* or not.
GivenSpaced ==
    \A e \in Envs : \A j, k \in 1 .. Lives(e) :
        k <= j /\ j - k < MaxGen =>
            \/ Gen(e, j) = Gen(e, k) + (j - k)
            \/ Gen(e, j) = Gen(e, k) + (j - k) - MaxGen

\* The id in the table is the one given last, and a slot in use has one.
TableIds ==
    \A e \in Envs :
        /\ Lives(e) = 0 => env_id[e] = <<0, e>> /\ env_status[e] = "ENV_FREE"
        /\ Lives(e) # 0 => env_id[e] = given[e][Lives(e)]

\* env_parent_id is the id that the creator had when it created.
ParentIds ==
    \A e \in Envs :
        \/ env_parent_id[e] = Zero
        \/ /\ creator[e][1] \in Envs
           /\ creator[e][2] \in 1 .. Lives(creator[e][1])
           /\ env_parent_id[e] = given[creator[e][1]][creator[e][2]]

LifeInv == HistoryType /\ GivenOwn /\ GivenSpaced /\ TableIds /\ ParentIds

-----------------------------------------------------------------------------
\* A step that creates no environment.
NoBirth ==
    /\ UNCHANGED <<env_id, env_parent_id>>
    /\ \A e \in Envs : ~Born(e)

\* A step that creates one, in slot child, for the environment cur.
Birth(child, cur) ==
    /\ env_status[cur] # "ENV_FREE"
    /\ env_id' = [env_id EXCEPT ![child] = NextId(child)]
    /\ env_parent_id' = [env_parent_id EXCEPT ![child] = env_id[cur]]
    /\ \A e \in Envs : Born(e) <=> e = child
    /\ cpu_env[kernel_lock] = cur

\* A slot stays free as long as it is on the list.
LEMMA KeptFree ==
  ASSUME IInv, IInv', NEW e \in Envs, env_status[e] = "ENV_FREE",
         \A i \in DOMAIN env_free_list :
            \E j \in DOMAIN env_free_list' : env_free_list'[j] = env_free_list[i]
  PROVE  env_status'[e] = "ENV_FREE"
  <1>1. PICK i \in DOMAIN env_free_list : env_free_list[i] = e
    BY DEF IInv, FreeListExact
  <1>2. PICK j \in DOMAIN env_free_list' : env_free_list'[j] = e
    BY <1>1
  <1> QED BY <1>2 DEF IInv, FreeListExact

\* The list is longer by one at the front, or as it was.
LEMMA ListGrows ==
  ASSUME IInv,
         UNCHANGED env_free_list \/ \E e \in Envs : env_free_list' = <<e>> \o env_free_list
  PROVE  \A i \in DOMAIN env_free_list :
            \E j \in DOMAIN env_free_list' : env_free_list'[j] = env_free_list[i]
  <1>0. env_free_list \in Seq(Envs) BY DEF IInv, TypeOK
  <1>1. CASE UNCHANGED env_free_list BY <1>1
  <1>2. ASSUME NEW e \in Envs, env_free_list' = <<e>> \o env_free_list,
               NEW i \in DOMAIN env_free_list
        PROVE  \E j \in DOMAIN env_free_list' : env_free_list'[j] = env_free_list[i]
    <2>1. i \in 1 .. Len(env_free_list) BY <1>0, <1>2
    <2>2. i + 1 \in DOMAIN env_free_list' /\ env_free_list'[i + 1] = env_free_list[i]
      BY <1>0, <1>2, <2>1
    <2> QED BY <2>2
  <1> QED BY <1>1, <1>2

\* env_destroy frees a slot or leaves the table alone.
LEMMA DestroyTable ==
  ASSUME NEW c, NEW e \in Envs, env_destroy(c, e)
  PROVE  /\ UNCHANGED <<env_id, env_parent_id>>
         /\ UNCHANGED env_free_list \/ \E f \in Envs : env_free_list' = <<f>> \o env_free_list
  BY DEF env_destroy, env_free, idVars

\* What a step does to ids: nothing, or sys_exofork gives a new one.
LEMMA StepIds ==
  ASSUME Disciplined, IInv, IInv', [Next]_vars
  PROVE  NoBirth \/ \E child, cur \in Envs : Birth(child, cur)
  <1>1. ASSUME UNCHANGED <<env_id, env_parent_id>>,
               UNCHANGED env_free_list \/ \E e \in Envs : env_free_list' = <<e>> \o env_free_list
        PROVE  NoBirth
    BY <1>1, ListGrows, KeptFree DEF NoBirth, Born
  <1>2. ASSUME NEW c \in CPU, sys_exofork(c)
        PROVE  \E child, cur \in Envs : Birth(child, cur)
    <2> DEFINE child == Head(env_free_list)
               cur   == cpu_env[c]
    <2>0. /\ env_free_list \in Seq(Envs) /\ env_free_list # << >>
          /\ Serving(c) /\ env_alloc(child, env_id[cur])
      BY <1>2 DEF sys_exofork, IInv, TypeOK
    <2>1. /\ cur \in Envs /\ env_status[cur] = "ENV_RUNNING" /\ kernel_lock = c
      BY <2>0, ServingFacts
    <2>2. child \in Envs /\ child = env_free_list[1] /\ 1 \in DOMAIN env_free_list
      BY <2>0
    <2>3. /\ env_free_list' = Tail(env_free_list)
          /\ env_id' = [env_id EXCEPT ![child] = NextId(child)]
          /\ env_parent_id' = [env_parent_id EXCEPT ![child] = env_id[cur]]
      BY <2>0 DEF env_alloc
    <2>4. /\ DOMAIN Tail(env_free_list) = 1 .. Len(env_free_list) - 1
          /\ \A j \in 1 .. Len(env_free_list) - 1 :
               Tail(env_free_list)[j] = env_free_list[j + 1]
      BY <2>0
    <2> HIDE DEF child, cur
    <2>5. env_status[child] = "ENV_FREE" BY <2>2 DEF IInv, FreeListExact
    <2>6. env_status'[child] # "ENV_FREE"
      <3>1. ASSUME NEW j \in 1 .. Len(env_free_list) - 1,
                   env_free_list[j + 1] = child
            PROVE  FALSE
        <4>1. j + 1 \in DOMAIN env_free_list /\ j + 1 # 1 BY <2>0, <3>1
        <4> QED BY <2>2, <3>1, <4>1 DEF IInv, FreeListExact
      <3> QED BY <2>2, <2>3, <2>4, <3>1 DEF IInv, FreeListExact
    <2>7. ASSUME NEW e \in Envs, e # child, env_status[e] = "ENV_FREE"
          PROVE  env_status'[e] = "ENV_FREE"
      <3>1. PICK i \in DOMAIN env_free_list : env_free_list[i] = e
        BY <2>7 DEF IInv, FreeListExact
      <3>2. i \in 2 .. Len(env_free_list) BY <2>0, <2>2, <2>7, <3>1
      <3>3. i - 1 \in 1 .. Len(env_free_list) - 1 /\ (i - 1) + 1 = i BY <2>0, <3>2
      <3>4. i - 1 \in DOMAIN env_free_list' /\ env_free_list'[i - 1] = e
        BY <2>3, <2>4, <3>1, <3>3
      <3> QED BY <3>4 DEF IInv, FreeListExact
    <2>8. Birth(child, cur)
      BY <2>1, <2>2, <2>3, <2>5, <2>6, <2>7 DEF Birth, Born, cur
    <2> QED BY <2>1, <2>2, <2>8
  <1>3. ASSUME NEW c \in CPU,
               \/ Trap(c) \/ Hlt(c) \/ KeyInterrupt(c) \/ lock_kernel(c)
               \/ EnterScheduler(c) \/ env_pop_tf(c) \/ Monitor(c)
               \/ Yield(c) \/ Return(c) \/ Breakpoint(c)
        PROVE  NoBirth
    <2>1. UNCHANGED idVars
      BY <1>3 DEF Trap, Hlt, KeyInterrupt, lock_kernel, EnterScheduler, env_pop_tf,
                  Monitor, Yield, Return, Breakpoint, vars, idVars
    <2> QED BY <1>1, <2>1 DEF idVars
  <1>4. ASSUME NEW c \in CPU, CollectZombie(c) PROVE NoBirth
    <2>1. cpu_env[c] \in Envs
      BY <1>4 DEF CollectZombie, IInv, CpuInv, StatusMatchesCpus, TypeOK, Executing
    <2> QED BY <1>1, <1>4, <2>1 DEF CollectZombie, env_free
  <1>5. ASSUME NEW c \in CPU, Fault(c) PROVE NoBirth
    <2>1. cpu_env[c] \in Envs BY <1>5, ServingFacts DEF Fault
    <2> QED BY <1>1, <1>5, <2>1, DestroyTable DEF Fault
  <1>6. ASSUME NEW c \in CPU, NEW id \in EnvId, sys_env_destroy(c, id) PROVE NoBirth
    <2>1. envid2env(c, id, TRUE) \in Envs
      BY <1>6, Envid2envFacts DEF sys_env_destroy
    <2> QED BY <1>1, <1>6, <2>1, DestroyTable DEF sys_env_destroy
  <1>7. ASSUME NEW c \in CPU, NEW id \in EnvId, NEW v,
               sys_env_set_status(c, id, v) \/ sys_ipc_try_send(c, id, v)
        PROVE  NoBirth
    BY <1>1, <1>7 DEF sys_env_set_status, sys_ipc_try_send, idVars
  <1>8. ASSUME NEW c \in CPU, sys_ipc_recv(c) PROVE NoBirth
    BY <1>1, <1>8 DEF sys_ipc_recv, idVars
  <1>9. ASSUME UNCHANGED vars PROVE NoBirth
    BY <1>1, <1>9 DEF vars, idVars
  <1> QED BY <1>2, <1>3, <1>4, <1>5, <1>6, <1>7, <1>8, <1>9 DEF Next, Syscall

-----------------------------------------------------------------------------
\* The initial states.
LEMMA InitLife ==
  ASSUME InitH
  PROVE  LifeInv
  <1> USE ConstantsAssumption
  <1>0. /\ env_id = [e \in Envs |-> IF e < NInit THEN <<1, e>> ELSE <<0, e>>]
        /\ env_parent_id = [e \in Envs |-> Zero]
        /\ env_status = [e \in Envs |-> IF e < NInit THEN "ENV_RUNNABLE" ELSE "ENV_FREE"]
    BY DEF InitH, Init, env_init
  <1>1. ASSUME NEW e \in Envs
        PROVE  /\ e < NInit => given[e] = <<(<<1, e>>)>> /\ <<1, e>> \in EnvId
               /\ ~(e < NInit) => given[e] = << >>
    BY <1>0, <1>1 DEF InitH, EnvId
  <1>2. ASSUME NEW e \in Envs
        PROVE  /\ given[e] \in Seq(EnvId)
               /\ e < NInit => Lives(e) = 1 /\ given[e][1] = <<1, e>>
               /\ ~(e < NInit) => Lives(e) = 0
    <2>1. CASE e < NInit
      <3>1. PICK x : x = <<1, e>> OBVIOUS
      <3>2. given[e] = <<x>> /\ x \in EnvId BY <1>1, <1>2, <2>1, <3>1
      <3> QED BY <2>1, <3>1, <3>2 DEF Lives
    <2>2. CASE ~(e < NInit)
      <3>1. given[e] = << >> BY <1>1, <1>2, <2>2
      <3> QED BY <2>2, <3>1 DEF Lives
    <2> QED BY <2>1, <2>2
  <1>3. HistoryType
    <2>1. given = [e \in Envs |-> given[e]] BY DEF InitH
    <2>2. given \in [Envs -> Seq(EnvId)] BY <1>2, <2>1
    <2>3. creator \in [Envs -> (Envs \cup {NULL}) \X Nat] BY DEF InitH, Nobody
    <2> QED BY <2>2, <2>3 DEF HistoryType
  <1>4. GivenOwn BY <1>2 DEF GivenOwn, Gen
  <1>5. GivenSpaced BY <1>2 DEF GivenSpaced, Gen
  <1>6. TableIds
    <2>1. ASSUME NEW e \in Envs
          PROVE  /\ Lives(e) = 0 => env_id[e] = <<0, e>> /\ env_status[e] = "ENV_FREE"
                 /\ Lives(e) # 0 => env_id[e] = given[e][Lives(e)]
      <3>1. CASE e < NInit BY <1>0, <1>2, <2>1, <3>1
      <3>2. CASE ~(e < NInit) BY <1>0, <1>2, <2>1, <3>2
      <3> QED BY <3>1, <3>2
    <2> QED BY <2>1 DEF TableIds
  <1>7. ParentIds BY <1>0 DEF ParentIds
  <1> QED BY <1>3, <1>4, <1>5, <1>6, <1>7 DEF LifeInv

\* Nothing is recorded when nobody is born.
LEMMA NoBirthLife ==
  ASSUME LifeInv, IInv, IInv', NoBirth, RecordBirths \/ UNCHANGED history
  PROVE  LifeInv'
  <1>1. given' = given /\ creator' = creator
    <2>1. CASE RecordBirths
      BY <2>1 DEF RecordBirths, NoBirth, LifeInv, HistoryType
    <2> QED BY <2>1 DEF history
  <1>2. \A e \in Envs : env_status[e] = "ENV_FREE" => env_status'[e] = "ENV_FREE"
    BY DEF NoBirth, Born
  <1>3. UNCHANGED <<env_id, env_parent_id>> BY DEF NoBirth
  <1>4. HistoryType' /\ GivenOwn' /\ GivenSpaced'
    BY <1>1 DEF LifeInv, HistoryType, GivenOwn, GivenSpaced, Gen, Lives
  <1>5. TableIds' BY <1>1, <1>2, <1>3 DEF LifeInv, TableIds, Lives
  <1>6. ParentIds' BY <1>1, <1>3 DEF LifeInv, ParentIds, Lives
  <1> QED BY <1>4, <1>5, <1>6 DEF LifeInv

\* The generation after g, and how it moves the distances.
LEMMA NextGenSpaced ==
  ASSUME NEW M \in Nat \ {0}, NEW g \in 1 .. M, NEW h \in 1 .. M, NEW n \in Nat,
         n + 1 < M, h = g + n \/ h = g + n - M,
         NEW h2, h2 = IF h + 1 > M THEN 1 ELSE h + 1
  PROVE  h2 = g + (n + 1) \/ h2 = g + (n + 1) - M
  OBVIOUS

\* The birth of an environment.
LEMMA BirthLife ==
  ASSUME LifeInv, IInv, IInv', NEW child \in Envs, NEW cur \in Envs,
         Birth(child, cur), RecordBirths
  PROVE  LifeInv'
  <1> USE ConstantsAssumption
  <1> DEFINE n == Lives(child)
             g == NextId(child)[1]
  <1>0. /\ given \in [Envs -> Seq(EnvId)]
        /\ creator \in [Envs -> (Envs \cup {NULL}) \X Nat]
        /\ \A e \in Envs : Lives(e) \in Nat
    BY DEF LifeInv, HistoryType, Lives
  <1>1. env_id \in [Envs -> EnvId] /\ env_id[child][1] \in 0 .. MaxGen
    BY DEF IInv, TypeOK, EnvId
  <1>2. /\ NextId(child) = <<g, child>> /\ g \in 1 .. MaxGen
        /\ g = IF env_id[child][1] + 1 > MaxGen THEN 1 ELSE env_id[child][1] + 1
        /\ env_id'[child] = NextId(child) /\ NextId(child) \in EnvId
    BY <1>1 DEF NextId, Birth, EnvId
  <1>3. ASSUME NEW e \in Envs, e # child
        PROVE  given'[e] = given[e] /\ creator'[e] = creator[e]
               /\ env_id'[e] = env_id[e] /\ env_parent_id'[e] = env_parent_id[e]
               /\ (env_status[e] = "ENV_FREE" => env_status'[e] = "ENV_FREE")
    BY <1>3 DEF RecordBirths, Birth, Born
  <1>4. /\ given'[child] = Append(given[child], <<g, child>>)
        /\ creator'[child] = <<cur, Lives(cur)>>
        /\ env_parent_id'[child] = env_id[cur]
        /\ env_status'[child] # "ENV_FREE"
    <2>1. Born(child) BY DEF Birth
    <2>2. env_parent_id \in [Envs -> EnvId] BY DEF IInv, TypeOK
    <2> QED BY <1>2, <2>1, <2>2 DEF RecordBirths, Birth, Born, Caller
  <1> HIDE DEF g
  <1>5. /\ given'[child] \in Seq(EnvId)
        /\ Lives(child)' = n + 1
        /\ \A k \in 1 .. n : given'[child][k] = given[child][k]
        /\ given'[child][n + 1] = <<g, child>>
    BY <1>0, <1>2, <1>4 DEF Lives
  <1>6. \A e \in Envs : /\ Lives(e)' >= Lives(e)
                        /\ \A k \in 1 .. Lives(e) : given'[e][k] = given[e][k]
    BY <1>0, <1>3, <1>5 DEF Lives
  <1>7. \A e \in Envs \ {child} : Lives(e)' = Lives(e)
    BY <1>3 DEF Lives
  <1>8. HistoryType'
    <2>1. ASSUME NEW e \in Envs
          PROVE  given'[e] \in Seq(EnvId) /\ creator'[e] \in (Envs \cup {NULL}) \X Nat
      <3>1. CASE e = child
        <4>1. <<cur, Lives(cur)>> \in (Envs \cup {NULL}) \X Nat BY <1>0
        <4> QED BY <1>4, <1>5, <3>1, <4>1
      <3>2. CASE e # child BY <1>0, <1>3, <3>2
      <3> QED BY <3>1, <3>2
    <2>2. given' = [e \in Envs |-> given'[e]] /\ creator' = [e \in Envs |-> creator'[e]]
      BY DEF RecordBirths
    <2> QED BY <2>1, <2>2 DEF HistoryType
  <1>9. GivenOwn'
    <2>1. ASSUME NEW e \in Envs, NEW k \in 1 .. Lives(e)'
          PROVE  given'[e][k] = <<given'[e][k][1], e>> /\ given'[e][k][1] \in 1 .. MaxGen
      <3>1. CASE k \in 1 .. Lives(e)
        BY <1>6, <3>1 DEF LifeInv, GivenOwn, Gen
      <3>2. CASE k \notin 1 .. Lives(e)
        <4>1. e = child /\ k = n + 1 BY <1>0, <1>5, <1>7, <2>1, <3>2
        <4> QED BY <1>2, <1>5, <4>1
      <3> QED BY <3>1, <3>2
    <2> QED BY <2>1 DEF GivenOwn, Gen
  <1>10. ASSUME n # 0 PROVE env_id[child][1] = Gen(child, n) /\ n \in 1 .. n
    BY <1>0, <1>10 DEF LifeInv, TableIds, Gen
  <1>11. GivenSpaced'
    <2>1. ASSUME NEW e \in Envs, NEW j \in 1 .. Lives(e)', NEW k \in 1 .. Lives(e)',
                 k <= j, j - k < MaxGen
          PROVE  \/ given'[e][j][1] = given'[e][k][1] + (j - k)
                 \/ given'[e][j][1] = given'[e][k][1] + (j - k) - MaxGen
      <3>1. CASE j \in 1 .. Lives(e)
        <4>1. k \in 1 .. Lives(e) BY <1>0, <2>1, <3>1
        <4>2. given'[e][j] = given[e][j] /\ given'[e][k] = given[e][k] BY <1>6, <3>1, <4>1
        <4> QED BY <2>1, <3>1, <4>1, <4>2 DEF LifeInv, GivenSpaced, Gen
      <3>2. CASE j \notin 1 .. Lives(e)
        <4>1. e = child /\ j = n + 1 BY <1>0, <1>5, <1>7, <2>1, <3>2
        <4>2. given'[e][j][1] = g BY <1>5, <4>1
        <4>3. CASE k = j
          <5>1. given'[e][k][1] = g /\ j - k = 0 BY <4>1, <4>2, <4>3, <1>0
          <5> QED BY <1>2, <4>2, <5>1
        <4>4. CASE k # j
          <5>1. k \in 1 .. n /\ n # 0 /\ n - k \in Nat /\ (n - k) + 1 < MaxGen
                /\ j - k = (n - k) + 1
            BY <1>0, <2>1, <4>1, <4>4
          <5>2. given'[e][k][1] = Gen(child, k) BY <1>5, <4>1, <5>1 DEF Gen
          <5>3. Gen(child, k) \in 1 .. MaxGen /\ Gen(child, n) \in 1 .. MaxGen
            BY <1>10, <5>1 DEF LifeInv, GivenOwn
          <5>4. \/ Gen(child, n) = Gen(child, k) + (n - k)
                \/ Gen(child, n) = Gen(child, k) + (n - k) - MaxGen
            BY <1>0, <1>10, <5>1 DEF LifeInv, GivenSpaced
          <5>5. g = IF Gen(child, n) + 1 > MaxGen THEN 1 ELSE Gen(child, n) + 1
            BY <1>2, <1>10, <5>1
          <5>6. PICK d \in Nat : d = n - k BY <5>1
          <5>7. PICK a \in 1 .. MaxGen : a = Gen(child, k) BY <5>3
          <5>8. PICK b \in 1 .. MaxGen : b = Gen(child, n) BY <5>3
          <5>9. d + 1 < MaxGen /\ (b = a + d \/ b = a + d - MaxGen)
                /\ g = IF b + 1 > MaxGen THEN 1 ELSE b + 1
            BY <5>1, <5>4, <5>5, <5>6, <5>7, <5>8
          <5>10. g = a + (d + 1) \/ g = a + (d + 1) - MaxGen
            BY <5>9, NextGenSpaced
          <5> QED BY <4>2, <5>1, <5>2, <5>6, <5>7, <5>10
        <4> QED BY <4>3, <4>4
      <3> QED BY <3>1, <3>2
    <2> QED BY <2>1 DEF GivenSpaced, Gen
  <1>12. TableIds'
    <2>1. ASSUME NEW e \in Envs
          PROVE  /\ Lives(e)' = 0 => env_id'[e] = <<0, e>> /\ env_status'[e] = "ENV_FREE"
                 /\ Lives(e)' # 0 => env_id'[e] = given'[e][Lives(e)']
      <3>1. CASE e = child
        <4>1. Lives(e)' = n + 1 /\ given'[e][n + 1] = env_id'[e] /\ n \in Nat
          BY <1>0, <1>2, <1>5, <3>1
        <4> QED BY <4>1
      <3>2. CASE e # child
        BY <1>3, <1>7, <3>2 DEF LifeInv, TableIds
      <3> QED BY <3>1, <3>2
    <2> QED BY <2>1 DEF TableIds
  <1>13. ParentIds'
    <2>0. Lives(cur) \in 1 .. Lives(cur) /\ env_id[cur] = given[cur][Lives(cur)]
      BY <1>0 DEF LifeInv, TableIds, Birth
    <2>1. ASSUME NEW e \in Envs
          PROVE  \/ env_parent_id'[e] = Zero
                 \/ /\ creator'[e][1] \in Envs
                    /\ creator'[e][2] \in 1 .. Len(given'[creator'[e][1]])
                    /\ env_parent_id'[e] = given'[creator'[e][1]][creator'[e][2]]
      <3>1. CASE e = child
        <4>1. creator'[e][1] = cur /\ creator'[e][2] = Lives(cur) BY <1>4, <3>1
        <4>2. Lives(cur) \in 1 .. Lives(cur)' /\ given'[cur][Lives(cur)] = env_id[cur]
          BY <1>0, <1>5, <1>6, <1>7, <2>0
        <4> QED BY <1>4, <3>1, <4>1, <4>2 DEF Lives
      <3>2. CASE e # child
        <4>1. creator'[e] = creator[e] /\ env_parent_id'[e] = env_parent_id[e]
          BY <1>3, <3>2
        <4>2. CASE env_parent_id[e] = Zero BY <4>1, <4>2
        <4>3. CASE env_parent_id[e] # Zero
          <5>1. PICK p, q : p = creator[e][1] /\ q = creator[e][2] OBVIOUS
          <5>2. p \in Envs /\ q \in 1 .. Lives(p) /\ env_parent_id[e] = given[p][q]
            BY <4>3, <5>1 DEF LifeInv, ParentIds
          <5>3. given'[p][q] = given[p][q] /\ q \in 1 .. Lives(p)'
            <6>1. given'[p][q] = given[p][q] BY <1>6, <5>2
            <6>2. Lives(p)' >= Lives(p) /\ Lives(p)' \in Nat /\ Lives(p) \in Nat
              <7>1. CASE p = child BY <1>0, <1>5, <7>1
              <7>2. CASE p # child BY <1>0, <1>7, <5>2, <7>2
              <7> QED BY <7>1, <7>2
            <6> QED BY <5>2, <6>1, <6>2
          <5> QED BY <4>1, <5>1, <5>2, <5>3 DEF Lives
        <4> QED BY <4>2, <4>3
      <3> QED BY <3>1, <3>2
    <2> QED BY <2>1 DEF ParentIds, Lives
  <1> QED BY <1>8, <1>9, <1>11, <1>12, <1>13 DEF LifeInv

\* Two lives of a slot less than MaxGen apart have different generations.
LEMMA GensDiffer ==
  ASSUME LifeInv, NEW e \in Envs, NEW j \in 1 .. Lives(e), NEW k \in 1 .. Lives(e),
         k < j, j - k < MaxGen
  PROVE  Gen(e, j) # Gen(e, k)
  <1>1. Gen(e, j) \in 1 .. MaxGen /\ Gen(e, k) \in 1 .. MaxGen /\ Lives(e) \in Nat
    BY DEF LifeInv, GivenOwn, HistoryType, Lives
  <1>2. \/ Gen(e, j) = Gen(e, k) + (j - k)
        \/ Gen(e, j) = Gen(e, k) + (j - k) - MaxGen
    BY <1>1 DEF LifeInv, GivenSpaced
  <1> QED BY <1>1, <1>2, ConstantsAssumption

\* An environment that is served has an id other than 0, given in its life.
LEMMA ServedId ==
  ASSUME IInv, LifeInv, NEW c \in CPU, Serving(c)
  PROVE  /\ cpu_env[c] \in Envs
         /\ Lives(cpu_env[c]) \in 1 .. Lives(cpu_env[c])
         /\ env_id[cpu_env[c]] = given[cpu_env[c]][Lives(cpu_env[c])]
         /\ env_id[cpu_env[c]] # Zero
  <1>1. PICK e : e = cpu_env[c] OBVIOUS
  <1>2. e \in Envs /\ env_status[e] # "ENV_FREE" BY <1>1, ServingFacts
  <1>3. Lives(e) \in Nat /\ Lives(e) # 0
    BY <1>2 DEF LifeInv, HistoryType, TableIds, Lives
  <1>4. Lives(e) \in 1 .. Lives(e) /\ env_id[e] = given[e][Lives(e)]
    BY <1>2, <1>3 DEF LifeInv, TableIds
  <1>5. Gen(e, Lives(e)) \in 1 .. MaxGen /\ env_id[e] = <<Gen(e, Lives(e)), e>>
    BY <1>2, <1>4 DEF LifeInv, GivenOwn
  <1>6. env_id[e] # Zero BY <1>5, ConstantsAssumption DEF Zero
  <1> QED BY <1>1, <1>2, <1>4, <1>6

\* The invariant makes stale ids fail.
LEMMA LifeStale ==
  ASSUME IInv, LifeInv
  PROVE  StaleIdsFail
  <1> SUFFICES ASSUME NEW c \in CPU, NEW e \in Envs, NEW k \in 1 .. Lives(e),
                      Serving(c), k < Lives(e), Lives(e) - k < MaxGen
               PROVE  envid2env(c, given[e][k], FALSE) = NULL
    BY DEF StaleIdsFail
  <1>1. Lives(e) \in Nat BY DEF LifeInv, HistoryType, Lives
  <1>2. Lives(e) \in 1 .. Lives(e) /\ Lives(e) # 0 BY <1>1
  <1>3. Gen(e, Lives(e)) # Gen(e, k) BY <1>2, GensDiffer
  <1>4. given[e][k] = <<Gen(e, k), e>> /\ Gen(e, k) \in 1 .. MaxGen
    BY DEF LifeInv, GivenOwn
  <1>5. env_id[e] = <<Gen(e, Lives(e)), e>>
    BY <1>2 DEF LifeInv, GivenOwn, TableIds
  <1>6. given[e][k] # Zero BY <1>4, ConstantsAssumption DEF Zero
  <1>7. ENVX(given[e][k]) = e BY <1>4 DEF ENVX
  <1>8. env_id[e] # given[e][k] BY <1>3, <1>4, <1>5
  <1> QED BY <1>6, <1>7, <1>8 DEF envid2env

\* The invariant keeps power with the creator.
LEMMA LifeCreator ==
  ASSUME IInv, LifeInv
  PROVE  OnlyCreatorControls
  <1> SUFFICES ASSUME NEW c \in CPU, NEW e \in Envs, NEW id \in EnvId,
                      Serving(c), e # cpu_env[c], envid2env(c, id, TRUE) = e
               PROVE  /\ creator[e][1] = cpu_env[c]
                      /\ \/ creator[e][2] = Lives(cpu_env[c])
                         \/ Lives(cpu_env[c]) - creator[e][2] >= MaxGen
    BY DEF OnlyCreatorControls
  <1>1. PICK cur, n : cur = cpu_env[c] /\ n = Lives(cur) OBVIOUS
  <1>2. cur \in Envs /\ n \in 1 .. Lives(cur) /\ env_id[cur] = given[cur][n] /\ env_id[cur] # Zero
    BY <1>1, ServedId
  <1>3. env_parent_id[e] = env_id[cur]
    BY <1>1, NullNotEnv DEF envid2env
  <1>4. PICK p, q : p = creator[e][1] /\ q = creator[e][2] OBVIOUS
  <1>5. p \in Envs /\ q \in 1 .. Lives(p) /\ env_parent_id[e] = given[p][q]
    BY <1>2, <1>3, <1>4 DEF LifeInv, ParentIds
  <1>6. given[p][q] = <<Gen(p, q), p>> /\ given[cur][n] = <<Gen(cur, n), cur>>
    BY <1>2, <1>5 DEF LifeInv, GivenOwn
  <1>7. p = cur /\ Gen(cur, q) = Gen(cur, n)
    <2>1. PICK a, b : a = Gen(p, q) /\ b = Gen(cur, n) OBVIOUS
    <2>2. <<a, p>> = <<b, cur>> BY <1>2, <1>3, <1>5, <1>6, <2>1
    <2>3. a = b /\ p = cur BY <2>2
    <2> QED BY <2>1, <2>3
  <1>8. n \in Nat /\ q \in Nat /\ q <= n BY <1>1, <1>5, <1>7 DEF LifeInv, HistoryType, Lives
  <1>9. q = n \/ n - q >= MaxGen
    <2>1. CASE q < n /\ n - q < MaxGen
      <3>1. q \in 1 .. Lives(cur) BY <1>5, <1>7
      <3>2. Gen(cur, n) # Gen(cur, q) BY <1>2, <2>1, <3>1, GensDiffer
      <3> QED BY <1>7, <3>2
    <2> QED BY <1>8, <2>1, ConstantsAssumption
  <1> QED BY <1>1, <1>4, <1>7, <1>9

-----------------------------------------------------------------------------
\* The history never interferes with the kernel: it runs as module Kernel says.
THEOREM IdsRunKernel == SpecH => Spec
  <1>1. InitH => Init BY DEF InitH
  <1>2. [NextH]_<<vars, history>> => [Next]_vars BY DEF NextH
  <1> QED BY <1>1, <1>2, PTL DEF SpecH, Spec

\* The ids in the table, of the creators and of all lives stay what the history
\* says, however often slots are reused and generations wrap.
THEOREM IdsInvariant ==
  ASSUME Disciplined
  PROVE  SpecH => []LifeInv
  <1>1. InitH => LifeInv BY InitLife
  <1>2. ASSUME IInv, IInv', LifeInv, [NextH]_<<vars, history>> PROVE LifeInv'
    <2>0. [Next]_vars /\ (RecordBirths \/ UNCHANGED history)
      BY <1>2 DEF NextH
    <2>1. CASE NoBirth BY <1>2, <2>0, <2>1, NoBirthLife
    <2>2. ASSUME NEW child \in Envs, NEW cur \in Envs, Birth(child, cur) PROVE LifeInv'
      <3>1. CASE RecordBirths BY <1>2, <2>2, <3>1, BirthLife
      <3>2. CASE UNCHANGED <<vars, history>>
        BY <2>2, <3>2 DEF Birth, Born, vars
      <3> QED BY <1>2, <3>1, <3>2 DEF NextH
    <2> QED BY <1>2, <2>0, <2>1, <2>2, StepIds
  <1> QED BY <1>1, <1>2, IdsRunKernel, KernelInvariant, PTL DEF SpecH

\* envid2env rejects every id of an earlier environment of a slot, for any
\* number of reuses, as long as the generations have not gone round.
THEOREM IdsStaleFail ==
  ASSUME Disciplined
  PROVE  SpecH => []StaleIdsFail
  <1>1. IInv /\ LifeInv => StaleIdsFail BY LifeStale
  <1> QED BY <1>1, IdsInvariant, IdsRunKernel, KernelInvariant, PTL

\* The permission check of envid2env, which compares ids only, gives power over
\* an environment to nobody but its creator, although slots and ids of dead
\* parents are reused.
THEOREM IdsCreatorControls ==
  ASSUME Disciplined
  PROVE  SpecH => []OnlyCreatorControls
  <1>1. IInv /\ LifeInv => OnlyCreatorControls BY LifeCreator
  <1> QED BY <1>1, IdsInvariant, IdsRunKernel, KernelInvariant, PTL

=============================================================================
