----------------------------- MODULE Rendezvous -----------------------------
(***************************************************************************)
(* What ipc_send and ipc_recv promise together: a message passes in one    *)
(* step from an environment that sends it to the one it is addressed to,   *)
(* while that one is waiting for a message, and the receiver gets sender,  *)
(* value and page permission of one and the same message.                  *)
(***************************************************************************)
CONSTANTS Env, Value, None

VARIABLES
    live,       \* environments that have not ended
    offer,      \* what each environment is sending: [to, value, page], or None
    want,       \* what each environment is waiting for: a value, and perhaps a
                \* page, as [page]; or None
    box,        \* the message handed to it and not yet returned, or None
    result      \* what its ipc_recv returned, until its next call

vars == <<live, offer, want, box, result>>

Init ==
    /\ live = Env
    /\ offer = [e \in Env |-> None]
    /\ want = [e \in Env |-> None]
    /\ box = [e \in Env |-> None]
    /\ result = [e \in Env |-> None]

Idle(e) == e \in live /\ offer[e] = None /\ want[e] = None /\ box[e] = None

Send(s, r, v, page) ==
    /\ Idle(s)
    /\ offer' = [offer EXCEPT ![s] = [to |-> r, value |-> v, page |-> page]]
    /\ result' = [result EXCEPT ![s] = None]
    /\ UNCHANGED <<live, want, box>>

Receive(r, page) ==
    /\ Idle(r)
    /\ want' = [want EXCEPT ![r] = [page |-> page]]
    /\ result' = [result EXCEPT ![r] = None]
    /\ UNCHANGED <<live, offer, box>>

Meet(s, r) ==
    /\ offer[s] # None /\ offer[s].to = r
    /\ want[r] # None
    /\ box' = [box EXCEPT ![r] = [from |-> s, value |-> offer[s].value,
                                  perm |-> offer[s].page /\ want[r].page]]
    /\ offer' = [offer EXCEPT ![s] = None]
    /\ want' = [want EXCEPT ![r] = None]
    /\ UNCHANGED <<live, result>>

Return(r) ==
    /\ box[r] # None
    /\ result' = [result EXCEPT ![r] = box[r]]
    /\ box' = [box EXCEPT ![r] = None]
    /\ UNCHANGED <<live, offer, want>>

\* The page that it asked for cannot be put there.
Refuse(r) ==
    /\ want[r] # None /\ want[r].page
    /\ want' = [want EXCEPT ![r] = None]
    /\ UNCHANGED <<live, offer, box, result>>

\* It exits while idle, or gives up a send that cannot succeed.
End(e) ==
    /\ e \in live
    /\ want[e] = None /\ box[e] = None
    /\ live' = live \ {e}
    /\ offer' = [offer EXCEPT ![e] = None]
    /\ result' = [result EXCEPT ![e] = None]
    /\ UNCHANGED <<want, box>>

Next ==
    \E e, f \in Env :
        \/ \E v \in Value, page \in BOOLEAN : Send(e, f, v, page)
        \/ \E page \in BOOLEAN : Receive(e, page)
        \/ Meet(e, f)
        \/ Refuse(e)
        \/ Return(e)
        \/ End(e)

Spec == Init /\ [][Next]_vars

=============================================================================
