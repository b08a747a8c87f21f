------------------------------ MODULE Examples ------------------------------
(***************************************************************************)
(* The two example libraries, threading and systemcalls. They share nothing *)
(* and nothing calls both, so a behaviour is that of a program which uses   *)
(* one of them; the state of the other stays as it was.                     *)
(***************************************************************************)
EXTENDS Threading, SystemCalls

VARIABLE program   \* the library in use

Vars == <<program, ThreadingVars, SystemCallsVars>>

Init ==
  /\ program \in {"threading", "systemcalls"}
  /\ ThreadingInit
  /\ SystemCallsInit

Next ==
  /\ UNCHANGED program
  /\ \/ /\ program = "threading"
        /\ ThreadingNext
        /\ UNCHANGED SystemCallsVars
     \/ /\ program = "systemcalls"
        /\ SystemCallsNext
        /\ UNCHANGED ThreadingVars

Spec == Init /\ [][Next]_Vars

\* The library that is not in use has nothing to be scheduled.
FairSpec == Spec /\ ThreadingFairness /\ SystemCallsFairness

\* The types of the state of both libraries.
ExamplesTypeOK == ThreadingTypeOK /\ SystemCallsTypeOK

=============================================================================
