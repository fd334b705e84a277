------------------------------- MODULE MCBoot --------------------------------
(***************************************************************************)
(* Machines with a good table, with more processors than NCPU, with an     *)
(* entry nobody knows, and without a table.                                *)
(***************************************************************************)
EXTENDS Boot

MCBios ==
    {[valid |-> TRUE, entries |-> <<"proc", "other", "proc", "proc">>],
     [valid |-> TRUE, entries |-> <<"proc", "proc", "proc", "proc", "proc">>],
     [valid |-> TRUE, entries |-> <<"proc", "proc", "unknown">>],
     [valid |-> FALSE, entries |-> <<>>]}
=============================================================================
