------------------------------- MODULE MCFork -------------------------------
(***************************************************************************)
(* Fork for TLC: the slots that the first environment does not use are     *)
(* interchangeable.                                                        *)
(***************************************************************************)
EXTENDS Fork, TLC

EnvSymmetry == Permutations(Env \ {First})

=============================================================================
