---------------------------- MODULE MCAesdSocket ----------------------------
(***************************************************************************)
(* Small instances of the server for TLC.                                  *)
(***************************************************************************)
EXTENDS AesdSocket

\* The connections are alike, and so are the addresses of their nodes in Garbage.
Symmetry == Permutations(Conns)

=============================================================================
