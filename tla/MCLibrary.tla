------------------------------ MODULE MCLibrary ------------------------------
(***************************************************************************)
(* The inputs for the algorithms of Library.                               *)
(***************************************************************************)
EXTENDS Library

\* Values around the boundaries of digits, of bytes, of the int (16 bits here)
\* and of the long long (24 bits), the smallest numbers and what is outside.
SmallAndBig ==
    {-8388608, -65536, -32769, -32768, -255, -10, -1, 0, 1, 7, 8, 9, 10, 15, 16,
     99, 100, 4096, 32767, 32768, 65535, 65536, 8388607, 8388608, 16777215}

\* 640 KB below the hole and 20 to 64 MB above it, with a small and a large
\* kernel.
SomeMachines ==
    {[base |-> b, ext |-> e, end |-> k, bootstack |-> 300, percpu_kstacks |-> 310] :
        b \in {639, 640}, e \in {20480, 32768, 64512, 65535}, k \in {380, 500, 900}}
=============================================================================
