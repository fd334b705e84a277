--------------------------------- MODULE Ipc ---------------------------------
(***************************************************************************)
(* The IPC library of lib/ipc.c on top of the two IPC system calls of      *)
(* kern/syscall.c.  ipc_send polls: it tries, and yields while the target  *)
(* is not waiting.  ipc_recv blocks in the kernel, and when it is woken it *)
(* reads the three fields of its struct Env one after the other, from user *)
(* space and without any lock, while other environments go on sending.     *)
(***************************************************************************)
EXTENDS Integers, FiniteSets

CONSTANTS
    Env,        \* the environments, all created before they talk
    Sender,     \* those whose program calls ipc_send
    Receiver,   \* those whose program calls ipc_recv, and that are sent to
    Value,
    None

\* The arguments of a call, and a message.
SendArg == [to : Receiver, value : Value, page : BOOLEAN]
RecvArg == [page : BOOLEAN]
Msg == [from : Env, perm : BOOLEAN, value : Value]

ASSUME IpcAssumption ==
    /\ Sender \subseteq Env /\ Receiver \subseteq Env
    /\ None \notin Env \cup Value \cup SendArg \cup RecvArg \cup Msg

VARIABLES
    pc,         \* idle; try, yield: in ipc_send; recv: about to call
                \* sys_ipc_recv; blocked; from, perm, value: the field that
                \* ipc_recv reads next; dead: exited or panicked
    arg,        \* the arguments of the ipc_send or ipc_recv in progress
    env_status,
    env_ipc_recving,
    env_ipc_page,   \* env_ipc_dstva is below UTOP
    env_ipc_from, env_ipc_perm, env_ipc_value,
    loaded,     \* the fields that ipc_recv has read so far
    result      \* what ipc_recv returned, until the next call

kernelVars == <<env_status, env_ipc_recving, env_ipc_page>>
fieldVars == <<env_ipc_from, env_ipc_perm, env_ipc_value>>
vars == <<pc, arg, kernelVars, fieldVars, loaded, result>>

Init ==
    /\ pc = [e \in Env |-> "idle"]
    /\ arg = [e \in Env |-> None]
    /\ env_status = [e \in Env |-> "ENV_RUNNABLE"]
    /\ env_ipc_recving = [e \in Env |-> FALSE]
    /\ env_ipc_page = [e \in Env |-> FALSE]
    /\ env_ipc_from = [e \in Env |-> None]
    /\ env_ipc_perm = [e \in Env |-> FALSE]
    /\ env_ipc_value = [e \in Env |-> None]
    /\ loaded = [e \in Env |-> None]
    /\ result = [e \in Env |-> None]

\* The environment executes user code at this place.
At(e, s) == env_status[e] = "ENV_RUNNABLE" /\ pc[e] = s

Goto(e, s) == pc' = [pc EXCEPT ![e] = s]

-----------------------------------------------------------------------------
(***************************************************************************)
(* ipc_send                                                                *)
(***************************************************************************)
CallSend(e, to, v, page) ==
    /\ At(e, "idle")
    /\ arg' = [arg EXCEPT ![e] = [to |-> to, value |-> v, page |-> page]]
    /\ result' = [result EXCEPT ![e] = None]
    /\ Goto(e, "try")
    /\ UNCHANGED <<kernelVars, fieldVars, loaded>>

\* panic(), or exit: the environment neither sends nor receives any more.
End(e) ==
    /\ Goto(e, "dead")
    /\ arg' = [arg EXCEPT ![e] = None]
    /\ result' = [result EXCEPT ![e] = None]
    /\ UNCHANGED <<kernelVars, fieldVars, loaded>>

\* Mutant: the target stays open for another message.
MutStillRecving(e) ==
    LET to == arg[e].to
    IN  /\ At(e, "try")
        /\ pc[to] # "dead"
        /\ env_ipc_recving[to]
        /\ env_ipc_from' = [env_ipc_from EXCEPT ![to] = e]
        /\ env_ipc_value' = [env_ipc_value EXCEPT ![to] = arg[e].value]
        /\ env_ipc_perm' = [env_ipc_perm EXCEPT ![to] = arg[e].page /\ env_ipc_page[to]]
        /\ env_status' = [env_status EXCEPT ![to] = "ENV_RUNNABLE"]
        /\ pc' = [pc EXCEPT ![e] = "idle", ![to] = IF @ = "blocked" THEN "from" ELSE @]
        /\ arg' = [arg EXCEPT ![e] = None, ![to] = IF pc[to] = "blocked" THEN None ELSE @]
        /\ UNCHANGED <<env_ipc_recving, env_ipc_page, loaded, result>>

\* sys_ipc_try_send to a waiting target.  The page that both sides want to pass
\* is mapped first.
try_send(e) ==
    LET to == arg[e].to
    IN  /\ At(e, "try")
        /\ pc[to] # "dead"
        /\ env_ipc_recving[to]
        /\ env_ipc_recving' = [env_ipc_recving EXCEPT ![to] = FALSE]
        /\ env_ipc_from' = [env_ipc_from EXCEPT ![to] = e]
        /\ env_ipc_value' = [env_ipc_value EXCEPT ![to] = arg[e].value]
        /\ env_ipc_perm' = [env_ipc_perm EXCEPT ![to] = arg[e].page /\ env_ipc_page[to]]
        /\ env_status' = [env_status EXCEPT ![to] = "ENV_RUNNABLE"]
        /\ pc' = [pc EXCEPT ![e] = "idle", ![to] = "from"]
        /\ arg' = [arg EXCEPT ![e] = None, ![to] = None]
        /\ UNCHANGED <<env_ipc_page, loaded, result>>

\* -E_IPC_NOT_RECV: yield and try again.
try_not_recv(e) ==
    /\ At(e, "try")
    /\ pc[arg[e].to] # "dead"
    /\ ~env_ipc_recving[arg[e].to]
    /\ Goto(e, "yield")
    /\ UNCHANGED <<arg, kernelVars, fieldVars, loaded, result>>

\* -E_BAD_ENV, or -E_NO_MEM for the receiver's page table: panic.
try_fails(e) ==
    LET to == arg[e].to
    IN  /\ At(e, "try")
        /\ \/ pc[to] = "dead"
           \/ env_ipc_recving[to] /\ arg[e].page /\ env_ipc_page[to]
        /\ End(e)

sys_yield(e) ==
    /\ At(e, "yield")
    /\ Goto(e, "try")
    /\ UNCHANGED <<arg, kernelVars, fieldVars, loaded, result>>

-----------------------------------------------------------------------------
(***************************************************************************)
(* ipc_recv                                                                *)
(***************************************************************************)

\* Without a pg argument UTOP is passed, which asks for no page.
CallRecv(e, page) ==
    /\ At(e, "idle")
    /\ arg' = [arg EXCEPT ![e] = [page |-> page]]
    /\ result' = [result EXCEPT ![e] = None]
    /\ Goto(e, "recv")
    /\ UNCHANGED <<kernelVars, fieldVars, loaded>>

\* Mutant: the environment blocks before it has said that it receives.
MutBlocksFirst(e) ==
    /\ At(e, "recv")
    /\ env_status' = [env_status EXCEPT ![e] = "ENV_NOT_RUNNABLE"]
    /\ Goto(e, "blocked")
    /\ UNCHANGED <<arg, env_ipc_recving, env_ipc_page, fieldVars, loaded, result>>

sys_ipc_recv(e) ==
    /\ At(e, "recv")
    /\ env_ipc_page' = [env_ipc_page EXCEPT ![e] = arg[e].page]
    /\ env_ipc_recving' = [env_ipc_recving EXCEPT ![e] = TRUE]
    /\ env_status' = [env_status EXCEPT ![e] = "ENV_NOT_RUNNABLE"]
    /\ Goto(e, "blocked")
    /\ UNCHANGED <<arg, fieldVars, loaded, result>>

\* -E_INVAL, for a pg that is not page-aligned: ipc_recv stores zeros and returns
\* the error, and no message.
recv_fails(e) ==
    /\ At(e, "recv")
    /\ arg[e].page
    /\ arg' = [arg EXCEPT ![e] = None]
    /\ Goto(e, "idle")
    /\ UNCHANGED <<kernelVars, fieldVars, loaded, result>>

\* *from_env_store, *perm_store and the return value, read from thisenv.
load_from(e) ==
    /\ At(e, "from")
    /\ loaded' = [loaded EXCEPT ![e] = [from |-> env_ipc_from[e]]]
    /\ Goto(e, "perm")
    /\ UNCHANGED <<arg, kernelVars, fieldVars, result>>

load_perm(e) ==
    /\ At(e, "perm")
    /\ loaded' = [loaded EXCEPT ![e] = [from |-> @.from, perm |-> env_ipc_perm[e]]]
    /\ Goto(e, "value")
    /\ UNCHANGED <<arg, kernelVars, fieldVars, result>>

load_value(e) ==
    /\ At(e, "value")
    /\ result' = [result EXCEPT ![e] = [from |-> loaded[e].from, perm |-> loaded[e].perm,
                                        value |-> env_ipc_value[e]]]
    /\ loaded' = [loaded EXCEPT ![e] = None]
    /\ Goto(e, "idle")
    /\ UNCHANGED <<arg, kernelVars, fieldVars>>

exit(e) == At(e, "idle") /\ End(e)

-----------------------------------------------------------------------------
\* A step of code that e has begun.
LibStep(e) ==
    \/ try_send(e)
    \/ try_not_recv(e)
    \/ try_fails(e)
    \/ sys_yield(e)
    \/ sys_ipc_recv(e)
    \/ recv_fails(e)
    \/ load_from(e)
    \/ load_perm(e)
    \/ load_value(e)

Next ==
    \E e \in Env :
        \/ \E to \in Receiver, v \in Value, page \in BOOLEAN :
             e \in Sender /\ CallSend(e, to, v, page)
        \/ \E page \in BOOLEAN : e \in Receiver /\ CallRecv(e, page)
        \/ LibStep(e)
        \/ exit(e)

\* Every runnable environment runs again: the round robin of sched_yield with
\* environments that do not keep exiting (RoundRobinWithoutExits in Kernel).
Spec == Init /\ [][Next]_vars /\ \A e \in Env : WF_vars(LibStep(e))

-----------------------------------------------------------------------------
(***************************************************************************)
(* Properties                                                              *)
(***************************************************************************)
Sending(e) == pc[e] \in {"try", "yield"}
Waiting(e) == pc[e] \in {"recv", "blocked"}
Woken(e) == pc[e] \in {"from", "perm", "value"}

\* What the environments are doing, for one who does not see the polling, the
\* kernel's flags and the reading field by field.
Alive == {e \in Env : pc[e] # "dead"}
Offer == [e \in Env |-> IF Sending(e) THEN arg[e] ELSE None]
Want == [e \in Env |-> IF Waiting(e) THEN arg[e] ELSE None]
Box == [e \in Env |-> IF Woken(e) THEN [from |-> env_ipc_from[e],
                                        perm |-> env_ipc_perm[e],
                                        value |-> env_ipc_value[e]] ELSE None]

Abstract == INSTANCE Rendezvous
    WITH live <- Alive, offer <- Offer, want <- Want, box <- Box

\* Polling senders and a receiver that reads its message field by field are a
\* rendezvous: a message is delivered exactly once, to the environment it was
\* sent to, only while that one waits, and what ipc_recv returns is one whole
\* message even when other senders try in the middle of reading it.
IsRendezvous == Abstract!Spec

\* A receiver for which somebody keeps sending is woken: sender and receiver
\* never miss each other for ever (which of two senders comes first is open).
SomeSendArrives ==
    \A r \in Env :
        (pc[r] = "blocked" /\ \E s \in Env : Sending(s) /\ arg[s].to = r)
            ~> (pc[r] # "blocked" \/ ~\E s \in Env : Sending(s) /\ arg[s].to = r)

=============================================================================
