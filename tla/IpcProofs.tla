------------------------------ MODULE IpcProofs ------------------------------
(***************************************************************************)
(* The IPC library implements a rendezvous, for any number of              *)
(* environments and values: every step of module Ipc is a step of module   *)
(* Rendezvous under the mapping of Abstract, or leaves the mapped state as *)
(* it is.                                                                  *)
(***************************************************************************)
EXTENDS Ipc, TLAPS

Pc == {"idle", "try", "yield", "recv", "blocked", "from", "perm", "value", "dead"}

\* Types of the control state and of the kernel's fields.
IpcTypeOK ==
    /\ pc \in [Env -> Pc]
    /\ env_status \in [Env -> {"ENV_RUNNABLE", "ENV_NOT_RUNNABLE"}]
    /\ env_ipc_recving \in [Env -> BOOLEAN]
    /\ env_ipc_page \in [Env -> BOOLEAN]
    /\ env_ipc_from \in [Env -> Env \cup {None}]
    /\ env_ipc_perm \in [Env -> BOOLEAN]
    /\ env_ipc_value \in [Env -> Value \cup {None}]
    /\ DOMAIN arg = Env /\ DOMAIN loaded = Env /\ DOMAIN result = Env

\* The arguments of the call in progress are there.
ArgsKept ==
    \A e \in Env :
        /\ Sending(e) => arg[e] \in SendArg
        /\ Waiting(e) => arg[e] \in RecvArg

\* The kernel and the library agree who waits: the receiving flag is set, and
\* the environment not runnable, exactly while it is blocked in the library,
\* and the kernel knows whether it wants a page.
KernelAgrees ==
    \A e \in Env :
        /\ env_ipc_recving[e] <=> pc[e] = "blocked"
        /\ env_status[e] = "ENV_NOT_RUNNABLE" <=> pc[e] = "blocked"
        /\ pc[e] = "blocked" => env_ipc_page[e] = arg[e].page

\* A woken receiver has a whole message in its fields, and what it has read so
\* far is still what is there.
ReadIsCurrent ==
    \A e \in Env :
        /\ Woken(e) => env_ipc_from[e] \in Env /\ env_ipc_value[e] \in Value
        /\ pc[e] = "perm" => loaded[e] = [from |-> env_ipc_from[e]]
        /\ pc[e] = "value" => loaded[e] = [from |-> env_ipc_from[e],
                                           perm |-> env_ipc_perm[e]]

IpcInv == IpcTypeOK /\ ArgsKept /\ KernelAgrees /\ ReadIsCurrent

-----------------------------------------------------------------------------
\* Initially nobody is in the library.
LEMMA InitInv == Init => IpcInv
  BY DEF Init, IpcInv, IpcTypeOK, ArgsKept, KernelAgrees, ReadIsCurrent, Pc,
         Sending, Waiting, Woken

\* Entering ipc_send with its arguments.
LEMMA CallSendInv ==
  ASSUME IpcInv, NEW e \in Env, NEW to \in Receiver, NEW v \in Value,
         NEW page \in BOOLEAN, CallSend(e, to, v, page)
  PROVE  IpcInv'
  <1> USE DEF IpcInv, CallSend, At, Goto, kernelVars, fieldVars
  <1>1. IpcTypeOK' BY DEF IpcTypeOK, Pc
  <1>2. ArgsKept' BY DEF IpcTypeOK, ArgsKept, Sending, Waiting, SendArg
  <1>3. KernelAgrees' BY DEF IpcTypeOK, KernelAgrees
  <1>4. ReadIsCurrent' BY DEF IpcTypeOK, ReadIsCurrent, Woken
  <1> QED BY <1>1, <1>2, <1>3, <1>4

\* Entering ipc_recv with its argument.
LEMMA CallRecvInv ==
  ASSUME IpcInv, NEW e \in Env, NEW page \in BOOLEAN, CallRecv(e, page)
  PROVE  IpcInv'
  <1> USE DEF IpcInv, CallRecv, At, Goto, kernelVars, fieldVars
  <1>1. IpcTypeOK' BY DEF IpcTypeOK, Pc
  <1>2. ArgsKept' BY DEF IpcTypeOK, ArgsKept, Sending, Waiting, RecvArg
  <1>3. KernelAgrees' BY DEF IpcTypeOK, KernelAgrees
  <1>4. ReadIsCurrent' BY DEF IpcTypeOK, ReadIsCurrent, Woken
  <1> QED BY <1>1, <1>2, <1>3, <1>4

\* Ending while idle or in a send.
LEMMA EndInv ==
  ASSUME IpcInv, NEW e \in Env, pc[e] \in {"idle", "try"}, End(e)
  PROVE  IpcInv'
  <1> USE DEF IpcInv, End, Goto, kernelVars, fieldVars
  <1>1. IpcTypeOK' BY DEF IpcTypeOK, Pc
  <1>2. ArgsKept' BY DEF IpcTypeOK, ArgsKept, Sending, Waiting
  <1>3. KernelAgrees' BY DEF IpcTypeOK, KernelAgrees
  <1>4. ReadIsCurrent' BY DEF IpcTypeOK, ReadIsCurrent, Woken
  <1> QED BY <1>1, <1>2, <1>3, <1>4

\* A successful send: the target was blocked, so it is neither the sender nor
\* in the middle of reading another message.
LEMMA TrySendInv ==
  ASSUME IpcInv, NEW e \in Env, try_send(e)
  PROVE  IpcInv'
  <1> DEFINE to == arg[e].to
  <1> USE DEF IpcInv
  <1>1. /\ arg[e] \in SendArg /\ to \in Env /\ to # e
        /\ pc[e] = "try" /\ pc[to] = "blocked"
        /\ arg[e].value \in Value /\ arg[e].page \in BOOLEAN
    BY IpcAssumption
    DEF try_send, At, ArgsKept, KernelAgrees, Sending, SendArg
  <1>2. IpcTypeOK' BY <1>1 DEF IpcTypeOK, Pc, try_send
  <1>3. ArgsKept' BY <1>1 DEF IpcTypeOK, ArgsKept, Sending, Waiting, try_send
  <1>4. KernelAgrees' BY <1>1 DEF IpcTypeOK, KernelAgrees, try_send
  <1>5. ReadIsCurrent' BY <1>1 DEF IpcTypeOK, ReadIsCurrent, Woken, try_send
  <1> QED BY <1>2, <1>3, <1>4, <1>5

\* Going round the polling loop of ipc_send.
LEMMA PollInv ==
  ASSUME IpcInv, NEW e \in Env, try_not_recv(e) \/ sys_yield(e)
  PROVE  IpcInv'
  <1> USE DEF IpcInv, try_not_recv, sys_yield, At, Goto, kernelVars, fieldVars
  <1>1. IpcTypeOK' BY DEF IpcTypeOK, Pc
  <1>2. ArgsKept' BY DEF IpcTypeOK, ArgsKept, Sending, Waiting
  <1>3. KernelAgrees' BY DEF IpcTypeOK, KernelAgrees
  <1>4. ReadIsCurrent' BY DEF IpcTypeOK, ReadIsCurrent, Woken
  <1> QED BY <1>1, <1>2, <1>3, <1>4

\* Blocking in the kernel.
LEMMA RecvInv ==
  ASSUME IpcInv, NEW e \in Env, sys_ipc_recv(e)
  PROVE  IpcInv'
  <1> USE DEF IpcInv, sys_ipc_recv, At, Goto, fieldVars
  <1>1. arg[e].page \in BOOLEAN BY DEF ArgsKept, Waiting, RecvArg
  <1>2. IpcTypeOK' BY <1>1 DEF IpcTypeOK, Pc
  <1>3. ArgsKept' BY DEF IpcTypeOK, ArgsKept, Sending, Waiting
  <1>4. KernelAgrees' BY DEF IpcTypeOK, KernelAgrees
  <1>5. ReadIsCurrent' BY DEF IpcTypeOK, ReadIsCurrent, Woken
  <1> QED BY <1>2, <1>3, <1>4, <1>5

\* An ipc_recv that the kernel refuses.
LEMMA RecvFailsInv ==
  ASSUME IpcInv, NEW e \in Env, recv_fails(e)
  PROVE  IpcInv'
  <1> USE DEF IpcInv, recv_fails, At, Goto, kernelVars, fieldVars
  <1>1. IpcTypeOK' BY DEF IpcTypeOK, Pc
  <1>2. ArgsKept' BY DEF IpcTypeOK, ArgsKept, Sending, Waiting
  <1>3. KernelAgrees' BY DEF IpcTypeOK, KernelAgrees
  <1>4. ReadIsCurrent' BY DEF IpcTypeOK, ReadIsCurrent, Woken
  <1> QED BY <1>1, <1>2, <1>3, <1>4

\* Reading the message, a field at a time.
LEMMA LoadInv ==
  ASSUME IpcInv, NEW e \in Env, load_from(e) \/ load_perm(e) \/ load_value(e)
  PROVE  IpcInv'
  <1> USE DEF IpcInv, load_from, load_perm, load_value, At, Goto, kernelVars, fieldVars
  <1>1. IpcTypeOK' BY DEF IpcTypeOK, Pc
  <1>2. ArgsKept' BY DEF IpcTypeOK, ArgsKept, Sending, Waiting
  <1>3. KernelAgrees' BY DEF IpcTypeOK, KernelAgrees
  <1>4. ReadIsCurrent' BY DEF IpcTypeOK, ReadIsCurrent, Woken
  <1> QED BY <1>1, <1>2, <1>3, <1>4

\* Every step keeps the invariant.
LEMMA NextInv == IpcInv /\ [Next]_vars => IpcInv'
  <1> SUFFICES ASSUME IpcInv, [Next]_vars PROVE IpcInv'
    OBVIOUS
  <1>1. ASSUME NEW e \in Env, LibStep(e) PROVE IpcInv'
    BY <1>1, TrySendInv, PollInv, RecvInv, RecvFailsInv, LoadInv, EndInv
    DEF LibStep, try_fails, At
  <1>2. ASSUME NEW e \in Env, exit(e) PROVE IpcInv'
    BY <1>2, EndInv DEF exit, At
  <1>3. CASE UNCHANGED vars
    BY <1>3 DEF vars, kernelVars, fieldVars, IpcInv, IpcTypeOK, ArgsKept,
                KernelAgrees, ReadIsCurrent, Sending, Waiting, Woken
  <1> QED BY <1>1, <1>2, <1>3, CallSendInv, CallRecvInv DEF Next

(***************************************************************************)
(* In every reachable state the kernel's flags agree with where the        *)
(* library is, and what a receiver has read of its message so far is still *)
(* what the kernel's fields hold.                                          *)
(***************************************************************************)
THEOREM IpcInvariant == Spec => []IpcInv
  BY InitInv, NextInv, PTL DEF Spec

-----------------------------------------------------------------------------
(***************************************************************************)
(* The refinement, one lemma per step of Rendezvous.                       *)
(***************************************************************************)

\* Nobody has been created yet: no offers, no messages.
LEMMA InitRefines == Init => Abstract!Init
  BY DEF Init, Abstract!Init, Alive, Offer, Want, Box, Sending, Waiting, Woken

\* Calling ipc_send makes an offer.
LEMMA SendRefines ==
  ASSUME IpcInv, NEW e \in Env, NEW to \in Receiver, NEW v \in Value,
         NEW page \in BOOLEAN, CallSend(e, to, v, page)
  PROVE  Abstract!Send(e, to, v, page)
  <1> USE DEF IpcInv, IpcTypeOK, CallSend, At, Goto, kernelVars, fieldVars,
              Sending, Waiting, Woken
  <1>1. Abstract!Idle(e) BY DEF Abstract!Idle, Alive, Offer, Want, Box
  <1>2. Offer' = [Offer EXCEPT ![e] = [to |-> to, value |-> v, page |-> page]]
    BY DEF Offer
  <1>3. UNCHANGED <<Alive, Want, Box>> BY DEF Alive, Want, Box
  <1> QED BY <1>1, <1>2, <1>3 DEF Abstract!Send

\* Calling ipc_recv asks for a message.
LEMMA ReceiveRefines ==
  ASSUME IpcInv, NEW e \in Env, NEW page \in BOOLEAN, CallRecv(e, page)
  PROVE  Abstract!Receive(e, page)
  <1> USE DEF IpcInv, IpcTypeOK, CallRecv, At, Goto, kernelVars, fieldVars,
              Sending, Waiting, Woken
  <1>1. Abstract!Idle(e) BY DEF Abstract!Idle, Alive, Offer, Want, Box
  <1>2. Want' = [Want EXCEPT ![e] = [page |-> page]] BY DEF Want
  <1>3. UNCHANGED <<Alive, Offer, Box>> BY DEF Alive, Offer, Box
  <1> QED BY <1>1, <1>2, <1>3 DEF Abstract!Receive

\* The refused receiver asks for nothing any more.
LEMMA RefuseRefines ==
  ASSUME IpcInv, NEW e \in Env, recv_fails(e)
  PROVE  Abstract!Refuse(e)
  <1> USE DEF IpcInv, IpcTypeOK, recv_fails, At, Goto, kernelVars, fieldVars,
              Sending, Waiting, Woken
  <1>1. Want[e] = arg[e] /\ arg[e] # None /\ arg[e].page
    BY IpcAssumption DEF Want, ArgsKept, RecvArg
  <1>2. Want' = [Want EXCEPT ![e] = None] BY DEF Want
  <1>3. UNCHANGED <<Alive, Offer, Box>> BY DEF Alive, Offer, Box
  <1> QED BY <1>1, <1>2, <1>3 DEF Abstract!Refuse

\* The try that finds the target waiting is the meeting: it is at that moment
\* that sender, value and permission reach the receiver together.
LEMMA MeetRefines ==
  ASSUME IpcInv, NEW e \in Env, try_send(e)
  PROVE  \E r \in Env : Abstract!Meet(e, r)
  <1> DEFINE to == arg[e].to
  <1> USE DEF IpcInv
  <1>1. /\ arg[e] \in SendArg /\ to \in Env /\ to # e
        /\ pc[e] = "try" /\ pc[to] = "blocked"
        /\ arg[to] \in RecvArg /\ env_ipc_page[to] = arg[to].page
    BY IpcAssumption
    DEF try_send, At, ArgsKept, KernelAgrees, Sending, Waiting, SendArg
  <1>2. Offer[e] = arg[e] /\ Want[to] = arg[to] /\ Offer[e] # None /\ Want[to] # None
    BY <1>1, IpcAssumption DEF Offer, Want, Sending, Waiting
  <1>3. pc' = [pc EXCEPT ![e] = "idle", ![to] = "from"]
    BY DEF try_send
  <1>4. Offer' = [Offer EXCEPT ![e] = None]
    BY <1>1, <1>3 DEF Offer, Sending, try_send, IpcTypeOK
  <1>5. Want' = [Want EXCEPT ![to] = None]
    BY <1>1, <1>3 DEF Want, Waiting, try_send, IpcTypeOK
  <1>6. Box' = [Box EXCEPT ![to] = [from |-> e, value |-> Offer[e].value,
                                    perm |-> Offer[e].page /\ Want[to].page]]
    BY <1>1, <1>2, <1>3 DEF Box, Woken, try_send, IpcTypeOK
  <1>7. Alive' = Alive
    BY <1>1, <1>3 DEF Alive, IpcTypeOK
  <1>8. Abstract!Meet(e, to)
    BY <1>1, <1>2, <1>4, <1>5, <1>6, <1>7 DEF Abstract!Meet, try_send
  <1> QED BY <1>1, <1>8

\* Reading the last field is the return: the fields read before are the ones
\* of the same message.
LEMMA ReturnRefines ==
  ASSUME IpcInv, NEW e \in Env, load_value(e)
  PROVE  Abstract!Return(e)
  <1> USE DEF IpcInv, load_value, At, Goto, kernelVars, fieldVars
  <1>0. loaded[e] = [from |-> env_ipc_from[e], perm |-> env_ipc_perm[e]]
    BY DEF ReadIsCurrent
  <1>1. Box[e] = [from |-> loaded[e].from, perm |-> loaded[e].perm,
                  value |-> env_ipc_value[e]]
    <2>1. loaded[e].from = env_ipc_from[e] /\ loaded[e].perm = env_ipc_perm[e]
      BY <1>0
    <2>2. Box[e] = [from |-> env_ipc_from[e], perm |-> env_ipc_perm[e],
                    value |-> env_ipc_value[e]]
      BY DEF Box, Woken
    <2> QED BY <2>1, <2>2
  <1>2. Box[e] # None
    BY IpcAssumption DEF Box, Woken, ReadIsCurrent, IpcTypeOK, Msg
  <1>3. Box' = [Box EXCEPT ![e] = None]
    BY DEF Box, Woken, IpcTypeOK
  <1>4. UNCHANGED <<Alive, Offer, Want>>
    BY DEF Alive, Offer, Want, Sending, Waiting, IpcTypeOK
  <1> QED BY <1>1, <1>2, <1>3, <1>4 DEF Abstract!Return

\* Ending.
LEMMA EndRefines ==
  ASSUME IpcInv, NEW e \in Env, pc[e] \in {"idle", "try"}, End(e)
  PROVE  Abstract!End(e)
  <1> USE DEF IpcInv, IpcTypeOK, End, Goto, kernelVars, fieldVars,
              Sending, Waiting, Woken
  <1>1. e \in Alive /\ Want[e] = None /\ Box[e] = None BY DEF Alive, Want, Box
  <1>2. Alive' = Alive \ {e} BY DEF Alive
  <1>3. Offer' = [Offer EXCEPT ![e] = None] BY DEF Offer
  <1>4. UNCHANGED <<Want, Box>> BY DEF Want, Box
  <1> QED BY <1>1, <1>2, <1>3, <1>4 DEF Abstract!End

\* Polling, blocking and reading the first two fields do not show.
LEMMA Stutters ==
  ASSUME IpcInv, NEW e \in Env,
         \/ try_not_recv(e) \/ sys_yield(e) \/ sys_ipc_recv(e)
         \/ load_from(e) \/ load_perm(e)
  PROVE  UNCHANGED Abstract!vars
  <1> USE DEF IpcInv, IpcTypeOK, try_not_recv, sys_yield, sys_ipc_recv, load_from,
              load_perm, At, Goto, kernelVars, fieldVars
  <1>1. Alive' = Alive BY DEF Alive
  <1>2. Offer' = Offer BY DEF Offer, Sending
  <1>3. Want' = Want BY DEF Want, Waiting
  <1>4. Box' = Box BY DEF Box, Woken
  <1> QED BY <1>1, <1>2, <1>3, <1>4 DEF Abstract!vars

\* Every step is a step of the rendezvous or none.
LEMMA NextRefines == IpcInv /\ [Next]_vars => [Abstract!Next]_(Abstract!vars)
  <1> SUFFICES ASSUME IpcInv, [Next]_vars
               PROVE  Abstract!Next \/ UNCHANGED Abstract!vars
    OBVIOUS
  <1>1. ASSUME NEW e \in Env, NEW to \in Receiver, NEW v \in Value,
               NEW page \in BOOLEAN, CallSend(e, to, v, page)
        PROVE  Abstract!Next
    BY <1>1, SendRefines, IpcAssumption DEF Abstract!Next
  <1>2. ASSUME NEW e \in Env, NEW page \in BOOLEAN, CallRecv(e, page)
        PROVE  Abstract!Next
    BY <1>2, ReceiveRefines DEF Abstract!Next
  <1>3. ASSUME NEW e \in Env, try_send(e) PROVE Abstract!Next
    BY <1>3, MeetRefines DEF Abstract!Next
  <1>4. ASSUME NEW e \in Env, load_value(e) PROVE Abstract!Next
    BY <1>4, ReturnRefines DEF Abstract!Next
  <1>5. ASSUME NEW e \in Env, try_fails(e) \/ exit(e) PROVE Abstract!Next
    <2>1. Abstract!End(e) BY <1>5, EndRefines DEF try_fails, exit, At
    <2> QED BY <2>1 DEF Abstract!Next
  <1>7. ASSUME NEW e \in Env, recv_fails(e) PROVE Abstract!Next
    BY <1>7, RefuseRefines DEF Abstract!Next
  <1>6. CASE UNCHANGED vars
    BY <1>6 DEF vars, kernelVars, fieldVars, Abstract!vars, Alive, Offer, Want, Box,
                Sending, Waiting, Woken
  <1> QED BY <1>1, <1>2, <1>3, <1>4, <1>5, <1>6, <1>7, Stutters DEF Next, LibStep

(***************************************************************************)
(* The library of lib/ipc.c on the system calls of kern/syscall.c is a     *)
(* rendezvous: a message is delivered once, to the environment it was sent *)
(* to, while that one waits, and ipc_recv returns the sender, permission   *)
(* and value of one and the same message although it reads them unlocked.  *)
(***************************************************************************)
THEOREM IpcRefinesRendezvous == Spec => IsRendezvous
  <1>1. Init /\ [][Next]_vars => []IpcInv
    BY InitInv, NextInv, PTL
  <1> QED
    BY <1>1, InitRefines, NextRefines, PTL DEF Spec, IsRendezvous, Abstract!Spec
=============================================================================
