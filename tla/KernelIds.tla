----------------------------- MODULE KernelIds ------------------------------
(***************************************************************************)
(* What an envid_t is worth over time.  Programs keep ids (of children, of *)
(* the environments they talk to) while slots of envs[] are freed and used *)
(* again; only the generation in the id tells the environments that lived  *)
(* in a slot apart, and it wraps.  This module runs module Kernel beside a *)
(* history of the lives of every slot, which no step of Kernel reads.      *)
(***************************************************************************)
EXTENDS Kernel

CONSTANT MaxBirths      \* bound on the environments there ever are

ASSUME BirthsAssumption == MaxBirths \in Nat \ {0}

VARIABLES
    given,      \* the ids that env_alloc gave out for each slot, in order
    creator     \* who created the environment in each slot: slot and life

history == <<given, creator>>

\* The number of environments that slot e has seen.
Lives(e) == Len(given[e])

\* ENV_CREATE has no environment to answer to.
Nobody == <<NULL, 0>>

InitH ==
    /\ Init
    /\ given = [e \in Envs |-> IF e < NInit THEN <<env_id[e]>> ELSE << >>]
    /\ creator = [e \in Envs |-> Nobody]

\* env_alloc took slot e in this step.
Born(e) == env_status[e] = "ENV_FREE" /\ env_status'[e] # "ENV_FREE"

\* The environment that the processor in the kernel works for.
Caller == <<cpu_env[kernel_lock], Lives(cpu_env[kernel_lock])>>

RecordBirths ==
    /\ given' = [e \in Envs |-> IF Born(e) THEN Append(given[e], env_id'[e])
                                ELSE given[e]]
    /\ Cardinality(UNION {{e} \X DOMAIN given'[e] : e \in Envs}) <= MaxBirths
    /\ creator' = [e \in Envs |-> IF Born(e) THEN Caller ELSE creator[e]]

NextH == Next /\ RecordBirths

SpecH == InitH /\ [][NextH]_<<vars, history>>

-----------------------------------------------------------------------------
\* The id of an environment that is gone reaches nobody: no system call of any
\* environment finds the new owner of the slot with it, unless the slot went
\* through all MaxGen generations in between.
StaleIdsFail ==
    \A c \in CPU, e \in Envs : \A k \in 1 .. Lives(e) :
        /\ Serving(c)
        /\ k < Lives(e)
        /\ Lives(e) - k < MaxGen
        => envid2env(c, given[e][k], FALSE) = NULL

\* Calls that check permission reach another environment only for the very one
\* that created it: an environment that got the slot of a dead parent has no
\* power over the orphans, unless the slot went through all MaxGen
\* generations in between.
OnlyCreatorControls ==
    \A c \in CPU, e \in Envs : \A id \in EnvId :
        /\ Serving(c)
        /\ e # cpu_env[c]
        /\ envid2env(c, id, TRUE) = e
        => /\ creator[e][1] = cpu_env[c]
           /\ \/ creator[e][2] = Lives(cpu_env[c])
              \/ Lives(cpu_env[c]) - creator[e][2] >= MaxGen

\* The uniqueifier distinguishes environments created at different times that
\* share a slot, as the comment in inc/env.h says: no two get the same id.
IdsUnique ==
    \A e \in Envs : \A j, k \in 1 .. Lives(e) :
        given[e][j] = given[e][k] => j = k

=============================================================================
