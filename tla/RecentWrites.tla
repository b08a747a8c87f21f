---------------------------- MODULE RecentWrites ----------------------------
(***************************************************************************)
(* What the circular buffer promises: it remembers the Capacity most recent *)
(* entries, oldest first, and hands the memory of the entry it forgets      *)
(* back to the caller, exactly when it forgets one.                         *)
(***************************************************************************)
EXTENDS Integers, Sequences

CONSTANTS Capacity, Entries, Null

VARIABLES
  recent,      \* the entries remembered, oldest first
  released     \* the pointer the last call handed back, or Null

vars == <<recent, released>>

Init == recent = <<>> /\ released = Null

Remember(e) ==
  IF Len(recent) < Capacity
  THEN /\ recent' = Append(recent, e)
       /\ released' = Null
  ELSE /\ recent' = Append(Tail(recent), e)
       /\ released' = Head(recent).buffptr

Next == \E e \in Entries : Remember(e)

Spec == Init /\ [][Next]_vars

=============================================================================
