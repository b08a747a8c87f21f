---------------------------- MODULE SystemCalls ----------------------------
(***************************************************************************)
(* examples/systemcalls: a program that prints to its buffered standard     *)
(* output and runs commands with do_system, do_exec and do_exec_redirect.   *)
(* The program is not part of the repository. Its calls are numbered in the *)
(* order it makes them, and call i has child process i.                     *)
(*                                                                          *)
(* The arguments are a command of Commands and, for do_exec_redirect, an    *)
(* output file; the copying of the argument list is left out.               *)
(***************************************************************************)
EXTENDS Integers, Sequences, FiniteSets

CONSTANTS
  OutputFiles,        \* the files a caller names as outputfile
  MaxCalls,           \* bound: calls made
  MaxLines,           \* bound: lines printed
  SystemCallsFaults   \* what may go wrong

ASSUME SystemCallsAssumption ==
  /\ "stdout" \notin OutputFiles
  /\ MaxCalls \in Nat /\ MaxLines \in Nat
  /\ SystemCallsFaults \subseteq {"noopen", "nofork", "nodup", "eintr"}

Calls == 1 .. MaxCalls
Places == OutputFiles \cup {"stdout"}

\* What a command does: it exits with 0 or another status, is killed by a signal,
\* or cannot be executed.
Commands == {"exits_0", "exits_1", "killed", "noexec"}

VARIABLES
  calls,        \* the calls, with their arguments and their results
  step,         \* where the last call is
  child,        \* the child process of each call
  printed,      \* the number of lines printed
  buffer,       \* the lines in the buffer of stdout
  written,      \* what has been written to each place
  descriptors   \* the calls whose fd is open in the caller

SystemCallsVars ==
  <<calls, step, child, printed, buffer, written, descriptors>>

NoChild == [state |-> "none", copy |-> <<>>, out |-> "stdout", status |-> "none"]

SystemCallsInit ==
  /\ calls = <<>>
  /\ step = "returned"
  /\ child = [i \in Calls |-> NoChild]
  /\ printed = 0
  /\ buffer = <<>>
  /\ written = [p \in Places |-> <<>>]
  /\ descriptors = {}

\* The call in progress.
This == Len(calls)

\* The caller prints a line; it stays in the buffer.
PrintLine ==
  /\ step = "returned" /\ printed < MaxLines
  /\ printed' = printed + 1
  /\ buffer' = Append(buffer, <<"line", printed'>>)
  /\ UNCHANGED <<calls, step, child, written, descriptors>>

\* The record of a new call.
NewCall(fn, command, file) ==
  [fn |-> fn, command |-> command, file |-> file, printed |-> printed,
   result |-> "none"]

\* do_system, up to the fork in system.
CallDoSystem(command) ==
  /\ step = "returned" /\ This < MaxCalls
  /\ calls' = Append(calls, NewCall("do_system", command, "stdout"))
  /\ step' = "fork"
  /\ UNCHANGED <<child, printed, buffer, written, descriptors>>

\* Mutant of FlushStdout: fflush is missing.
NoFlush == UNCHANGED <<written, buffer>>

\* fflush(stdout)
FlushStdout ==
  /\ written' = [written EXCEPT !["stdout"] = @ \o buffer]
  /\ buffer' = <<>>

\* do_exec, up to its fork.
CallDoExec(command) ==
  /\ step = "returned" /\ This < MaxCalls
  /\ FlushStdout
  /\ calls' = Append(calls, NewCall("do_exec", command, "stdout"))
  /\ step' = "fork"
  /\ UNCHANGED <<child, printed, descriptors>>

\* do_exec_redirect, up to its fork: the file is created or truncated.
CallDoExecRedirect(command, file) ==
  /\ step = "returned" /\ This < MaxCalls
  /\ LET call == NewCall("do_exec_redirect", command, file)
     IN \/ /\ calls' = Append(calls, call)
           /\ step' = "fork"
           /\ written' = [written EXCEPT ![file] = <<>>]
           /\ descriptors' = descriptors \cup {This + 1}
        \/ /\ "noopen" \in SystemCallsFaults
           /\ calls' = Append(calls, [call EXCEPT !.result = "false"])
           /\ UNCHANGED <<step, written, descriptors>>
  /\ UNCHANGED <<child, printed, buffer>>

\* Mutant of CloseOutput: the paths on which the call fails leave fd open.
LeaveOpenOnFailure(result) ==
  descriptors' = IF result = "true" THEN descriptors \ {This} ELSE descriptors

\* Each path out of do_exec_redirect closes fd.
CloseOutput(result) == descriptors' = descriptors \ {This}

\* The call in progress returns.
ReturnFromCall(result) ==
  /\ step' = "returned"
  /\ calls' = [calls EXCEPT ![This].result = result]
  /\ CloseOutput(result)

\* The first thing each child does; that of system becomes a shell, which runs
\* the command or reports that it could not.
FirstStateOf(call) ==
  CASE call.fn = "do_system" -> "running"
    [] call.fn = "do_exec" -> "exec"
    [] call.fn = "do_exec_redirect" -> "redirect"

\* fork, which copies the buffer, or its failure.
Fork ==
  /\ step = "fork"
  /\ \/ /\ child' = [child EXCEPT ![This].state = FirstStateOf(calls[This]),
                                  ![This].copy = buffer]
        /\ step' = "wait"
        /\ UNCHANGED <<calls, descriptors>>
     \/ /\ "nofork" \in SystemCallsFaults
        /\ ReturnFromCall("false")
        /\ UNCHANGED child
  /\ UNCHANGED <<printed, buffer, written>>

\* Mutant of ExitOne: the child does not exit, and lives on as a second caller.
NoExit(i) == UNCHANGED <<child, written>>

\* exit(1) in a child, which writes its copy of the buffer.
ExitOne(i) ==
  /\ child' = [child EXCEPT ![i].state = "ended", ![i].status = "exited_1",
                            ![i].copy = <<>>]
  /\ written' = [written EXCEPT ![child[i].out] = @ \o child[i].copy]

\* Mutant of RedirectedTo: the output stays where it was.
NotRedirected(i) == "stdout"

RedirectedTo(i) == calls[i].file

\* The child of do_exec_redirect: dup2, or its failure.
Redirect(i) ==
  /\ child[i].state = "redirect"
  /\ \/ /\ child' = [child EXCEPT ![i].state = "exec", ![i].out = RedirectedTo(i)]
        /\ UNCHANGED written
     \/ "nodup" \in SystemCallsFaults /\ ExitOne(i)
  /\ UNCHANGED <<calls, step, printed, buffer, descriptors>>

\* execv. The command starts without the copy of the buffer; if it cannot be
\* executed the child exits.
Exec(i) ==
  /\ child[i].state = "exec"
  /\ \/ /\ calls[i].command # "noexec"
        /\ child' = [child EXCEPT ![i].state = "running", ![i].copy = <<>>]
        /\ UNCHANGED written
     \/ /\ calls[i].command = "noexec"
        /\ ExitOne(i)
  /\ UNCHANGED <<calls, step, printed, buffer, descriptors>>

\* The command, or the shell, ends. It has written its output if it exited by
\* itself; one that is killed may have.
CommandEnds(i) ==
  /\ child[i].state = "running"
  /\ \E wrote \in BOOLEAN :
       /\ calls[i].command \in {"exits_0", "exits_1"} => wrote
       /\ calls[i].command = "noexec" => ~wrote
       /\ written' = [written EXCEPT ![child[i].out] =
                        IF wrote THEN Append(@, <<"output", i>>) ELSE @]
  /\ child' = [child EXCEPT ![i].state = "ended", ![i].copy = <<>>,
                            ![i].status = CASE calls[i].command = "exits_0" -> "exited_0"
                                            [] calls[i].command = "killed" -> "signalled"
                                            [] OTHER -> "exited_1"]
  /\ UNCHANGED <<calls, step, printed, buffer, descriptors>>

\* Mutant of Succeeded: WEXITSTATUS is read without WIFEXITED.
StatusUnchecked(status) == status # "exited_1"

\* WIFEXITED(status) and WEXITSTATUS(status) == 0.
Succeeded(status) == status = "exited_0"

\* do_system returns false only when system itself failed.
ResultOf(i) ==
  IF calls[i].fn = "do_system" \/ Succeeded(child[i].status) THEN "true" ELSE "false"

\* waitpid, or the wait in system, returns when the child has ended, and so does
\* the call.
Wait ==
  /\ step = "wait" /\ child[This].state = "ended"
  /\ child' = [child EXCEPT ![This].state = "reaped"]
  /\ ReturnFromCall(ResultOf(This))
  /\ UNCHANGED <<printed, buffer, written>>

\* waitpid fails because a signal interrupts it: status was never assigned, so it
\* decides either way, and the child goes on.
WaitInterrupted ==
  /\ "eintr" \in SystemCallsFaults
  /\ step = "wait" /\ calls[This].fn # "do_system"
  /\ \E result \in {"true", "false"} : ReturnFromCall(result)
  /\ UNCHANGED <<child, printed, buffer, written>>

SystemCallsNext ==
  \/ PrintLine \/ Fork \/ Wait \/ WaitInterrupted
  \/ \E command \in Commands :
       \/ CallDoSystem(command) \/ CallDoExec(command)
       \/ \E file \in OutputFiles : CallDoExecRedirect(command, file)
  \/ \E i \in Calls : Redirect(i) \/ Exec(i) \/ CommandEnds(i)

SystemCallsSpec == SystemCallsInit /\ [][SystemCallsNext]_SystemCallsVars

\* The processes are scheduled. That a command ends is not assumed.
SystemCallsFairness ==
  /\ WF_SystemCallsVars(Fork \/ Wait)
  /\ \A i \in Calls : WF_SystemCallsVars(Redirect(i) \/ Exec(i))

-----------------------------------------------------------------------------
(* Properties                                                              *)

Text == ({"line"} \X (1 .. MaxLines)) \cup ({"output"} \X Calls)

\* The types of the state.
SystemCallsTypeOK ==
  /\ calls \in Seq([fn : {"do_system", "do_exec", "do_exec_redirect"},
                    command : Commands, file : Places, printed : 0 .. MaxLines,
                    result : {"none", "true", "false"}])
  /\ Len(calls) <= MaxCalls
  /\ step \in {"returned", "fork", "wait"}
  /\ child \in [Calls -> [state : {"none", "redirect", "exec", "running", "ended", "reaped"},
                          copy : Seq(Text), out : Places,
                          status : {"none", "exited_0", "exited_1", "signalled"}]]
  /\ printed \in 0 .. MaxLines
  /\ buffer \in Seq(Text)
  /\ written \in [Places -> Seq(Text)]
  /\ descriptors \subseteq Calls

\* do_exec and do_exec_redirect return true exactly when the command was executed
\* and exited with 0, as their comment says, if the wait was not interrupted.
TruthfulResult ==
  \A i \in 1 .. Len(calls) :
    calls[i].fn # "do_system" /\ child[i].state = "reaped" =>
      (calls[i].result = "true" <=> calls[i].command = "exits_0" /\ child[i].status # "exited_1")

\* Where a line has been written: a place, and a position in it.
CopiesIn(p, n) == {k \in DOMAIN written[p] : written[p][k] = <<"line", n>>}
CopiesOf(n) == UNION {{p} \X CopiesIn(p, n) : p \in Places}

\* The caller's text is not written twice, although each child has a copy of the
\* buffer: do_exec flushes it before fork. do_exec_redirect does not, and each of
\* its children that calls exit(1) may write the text again.
TextWrittenOnce ==
  \A n \in 1 .. printed :
    Cardinality(CopiesOf(n)) <=
      1 + Cardinality({i \in 1 .. Len(calls) : /\ calls[i].fn = "do_exec_redirect"
                                               /\ child[i].status = "exited_1"})

\* What the caller printed before do_exec precedes the output of the command.
TextBeforeOutput ==
  \A i \in 1 .. Len(calls), k \in 1 .. Len(written["stdout"]) :
    calls[i].fn = "do_exec" /\ written["stdout"][k] = <<"output", i>> =>
      \A n \in 1 .. calls[i].printed :
        \E j \in 1 .. k - 1 : written["stdout"][j] = <<"line", n>>

\* The output of a command of do_exec_redirect never goes to standard output; and
\* when the call has returned true the file holds this output and nothing else,
\* provided that every earlier child was collected.
OutputInPlace ==
  /\ \A i \in 1 .. Len(calls), k \in 1 .. Len(written["stdout"]) :
       written["stdout"][k] = <<"output", i>> => calls[i].fn # "do_exec_redirect"
  /\ calls # <<>> /\ step = "returned" =>
       LET last == calls[This]
       IN last.fn = "do_exec_redirect" /\ last.result = "true"
            /\ (\A i \in 1 .. This : child[i].state \in {"none", "reaped"})
          => written[last.file] = <<<<"output", This>>>>

\* No descriptor outlives its call, whichever way the call ends: "This file will be
\* closed at completion of the function call."
DescriptorsClosed == step = "returned" => descriptors = {}

\* A call is kept waiting only by a command that never ends.
CommandsReturn ==
  []<>(step = "returned") \/ \E i \in Calls : <>[](child[i].state = "running")

=============================================================================
