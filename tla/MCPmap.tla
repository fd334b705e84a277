------------------------------- MODULE MCPmap -------------------------------
(***************************************************************************)
(* Model checking of module Pmap.  Nothing in Pmap tells one physical page *)
(* from another, and Init allows every order of the free list, so states   *)
(* that differ by a renaming of pages are explored once.                   *)
(***************************************************************************)
EXTENDS Pmap, TLC

PageSymmetry == Permutations(Page)

=============================================================================
