--------------------------- MODULE CommandWindow ---------------------------
(***************************************************************************)
(* What the aesdchar device promises its writers: the bytes they are told  *)
(* were written form one stream, each newline ends a command, and the      *)
(* device keeps the Capacity most recent commands, oldest first, and the   *)
(* start of the command that is not complete yet.                          *)
(***************************************************************************)
EXTENDS Integers, Sequences, FiniteSets

CONSTANTS Capacity, NewLine, Writes

VARIABLES
  window,      \* the commands kept, oldest first
  pending      \* the bytes after the last newline

vars == <<window, pending>>

Init == window = <<>> /\ pending = <<>>

\* The positions of the newlines of a sequence of bytes, in order: the k-th one has
\* k newlines up to it.
Ends(bytes) ==
  LET at == {i \in 1..Len(bytes) : bytes[i] = NewLine}
  IN  [k \in 1..Cardinality(at) |->
         CHOOSE i \in at : Cardinality({j \in at : j <= i}) = k]

Start(ends, k) == IF k = 1 THEN 1 ELSE ends[k - 1] + 1

\* The device takes some bytes.
Accept(bytes) ==
  LET stream   == pending \o bytes
      ends     == Ends(stream)
      commands == [k \in 1..Len(ends) |-> SubSeq(stream, Start(ends, k), ends[k])]
      all      == window \o commands
      excess   == IF Len(all) > Capacity THEN Len(all) - Capacity ELSE 0
  IN  /\ window' = SubSeq(all, excess + 1, Len(all))
      /\ pending' = SubSeq(stream, Start(ends, Len(ends) + 1), Len(stream))

\* The module is unloaded and everything it kept is gone.
Forget == window' = <<>> /\ pending' = <<>>

Next == Forget \/ \E bytes \in Writes : Accept(bytes)

Spec == Init /\ [][Next]_vars

=============================================================================
