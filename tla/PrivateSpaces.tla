---------------------------- MODULE PrivateSpaces ----------------------------
(***************************************************************************)
(* What fork promises: every environment has a memory of its own.  A store *)
(* changes the memory of the environment that makes it, a new environment  *)
(* starts with a copy of its parent's, and nothing else changes a memory.  *)
(* How the pages are shared to get there is module Fork.                   *)
(***************************************************************************)
CONSTANTS
    Env,        \* environment slots
    First,      \* the environment that runs first
    Location,   \* what a program can store to
    Value,
    Blank       \* the memory of a slot without an environment

VARIABLES
    live,       \* the environments that have started and not ended
    space       \* the memory of each slot

vars == <<live, space>>

Init ==
    /\ live = {First}
    /\ \E s \in [Location -> Value] :
         space = [e \in Env |-> IF e = First THEN s ELSE Blank]

Store(e, loc, v) ==
    /\ e \in live
    /\ space' = [space EXCEPT ![e][loc] = v]
    /\ UNCHANGED live

Fork(e, child) ==
    /\ e \in live
    /\ child \notin live
    /\ live' = live \cup {child}
    /\ space' = [space EXCEPT ![child] = space[e]]

Exit(e) ==
    /\ e \in live
    /\ live' = live \ {e}
    /\ space' = [space EXCEPT ![e] = Blank]

Next ==
    \E e \in Env :
        \/ \E loc \in Location, v \in Value : Store(e, loc, v)
        \/ \E child \in Env : Fork(e, child)
        \/ Exit(e)

Spec == Init /\ [][Next]_vars

=============================================================================
