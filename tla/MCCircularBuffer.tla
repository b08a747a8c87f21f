-------------------------- MODULE MCCircularBuffer --------------------------
(***************************************************************************)
(* A small ring for TLC.                                                   *)
(***************************************************************************)
EXTENDS CircularBufferSpec, TLC

\* The ring compares pointers with NULL and with nothing else, so the blocks are
\* interchangeable.
Symmetry == Permutations(Ptrs)

=============================================================================
