--------------------------- MODULE ExamplesProofs ---------------------------
(***************************************************************************)
(* For any number of calls, lines and output files, and all failures: what  *)
(* do_exec and do_exec_redirect report, what is written where and how       *)
(* often, and that no descriptor stays open. At the end, the types of both  *)
(* example libraries.                                                       *)
(***************************************************************************)
EXTENDS Examples, ThreadingProofs, FiniteSetTheorems

-----------------------------------------------------------------------------
(* The calls and their children.                                           *)

CallType == [fn : {"do_system", "do_exec", "do_exec_redirect"},
             command : Commands, file : Places, printed : 0 .. MaxLines,
             result : {"none", "true", "false"}]
ChildType == [state : {"none", "redirect", "exec", "running", "ended", "reaped"},
              copy : Seq(Text), out : Places,
              status : {"none", "exited_0", "exited_1", "signalled"}]

\* What a child is, given the call it is the child of.
Fits(c, call) ==
  /\ c.state = "none" => c = NoChild
  /\ c.state = "redirect" => call.fn = "do_exec_redirect"
  /\ c.state = "exec" => call.fn # "do_system"
  /\ c.state \notin {"ended", "reaped"} => c.status = "none"
  /\ call.fn = "do_exec" => c.copy = <<>>
  /\ call.fn # "do_exec_redirect" => c.out = "stdout"
  /\ call.fn = "do_exec_redirect" =>
       /\ call.file \in OutputFiles
       /\ c.state \in {"exec", "running"} => c.out = call.file
  /\ c.state \in {"ended", "reaped"} =>
       \/ c.status = "exited_0" /\ call.command = "exits_0"
       \/ c.status = "exited_1"
       \/ c.status = "signalled" /\ call.command = "killed"
  /\ c.state = "reaped" /\ call.fn # "do_system" =>
       (call.result = "true" <=> c.status = "exited_0")

\* The call in progress has the last child, and no call has a descriptor but it.
ProcessInv ==
  /\ SystemCallsTypeOK
  /\ \A i \in Calls : i > This => child[i] = NoChild
  /\ \A i \in 1 .. This : Fits(child[i], calls[i])
  /\ \A i \in 1 .. This :
       child[i].state = "none" /\ (i < This \/ step = "returned") =>
         calls[i].result = "false"
  /\ step # "returned" => This >= 1
  /\ step = "fork" =>
       /\ child[This] = NoChild
       /\ calls[This].fn = "do_exec" => buffer = <<>>
  /\ step = "wait" => child[This].state \notin {"none", "reaped"}
  /\ descriptors \subseteq {This}
  /\ step = "returned" => descriptors = {}

\* The types, by name.
LEMMA TypesAre ==
  ASSUME SystemCallsTypeOK
  PROVE  /\ calls \in Seq(CallType) /\ child \in [Calls -> ChildType]
         /\ This \in Nat /\ This <= MaxCalls /\ MaxCalls \in Nat /\ MaxLines \in Nat
         /\ step \in {"returned", "fork", "wait"} /\ printed \in 0 .. MaxLines
         /\ buffer \in Seq(Text) /\ written \in [Places -> Seq(Text)]
         /\ "stdout" \in Places /\ OutputFiles \subseteq Places
         /\ \A i \in 1 .. This : i \in Calls /\ calls[i] \in CallType
  <1>1. /\ calls \in Seq(CallType) /\ child \in [Calls -> ChildType]
        /\ step \in {"returned", "fork", "wait"} /\ printed \in 0 .. MaxLines
        /\ buffer \in Seq(Text) /\ written \in [Places -> Seq(Text)]
        /\ Len(calls) <= MaxCalls
    BY DEF SystemCallsTypeOK, CallType, ChildType
  <1>2. /\ MaxCalls \in Nat /\ MaxLines \in Nat
        /\ "stdout" \in Places /\ OutputFiles \subseteq Places
    BY SystemCallsAssumption DEF Places
  <1>3. This \in Nat /\ This <= MaxCalls
    BY <1>1 DEF This
  <1>4. \A i \in 1 .. This : i \in Calls /\ calls[i] \in CallType
    BY <1>1, <1>2 DEF This, Calls
  <1> QED
    BY <1>1, <1>2, <1>3, <1>4

\* The other way round.
LEMMA TypesSuffice ==
  ASSUME calls \in Seq(CallType), Len(calls) <= MaxCalls,
         step \in {"returned", "fork", "wait"}, child \in [Calls -> ChildType],
         printed \in 0 .. MaxLines, buffer \in Seq(Text),
         written \in [Places -> Seq(Text)], descriptors \subseteq Calls
  PROVE  SystemCallsTypeOK
  BY DEF SystemCallsTypeOK, CallType, ChildType

\* A new call.
LEMMA NewCallFacts ==
  ASSUME ProcessInv, This < MaxCalls, NEW call \in CallType,
         calls' = Append(calls, call)
  PROVE  /\ This' = This + 1 /\ calls' \in Seq(CallType) /\ This + 1 \in Calls
         /\ \A i \in 1 .. This : calls'[i] = calls[i]
         /\ calls'[This + 1] = call /\ child[This + 1] = NoChild
  <1>1. /\ calls \in Seq(CallType) /\ This \in Nat /\ MaxCalls \in Nat
    BY TypesAre DEF ProcessInv
  <1>2. This + 1 \in Calls
    BY <1>1 DEF Calls
  <1> QED
    BY <1>1, <1>2 DEF This, ProcessInv

\* The arguments of a new call.
LEMMA NewCallType ==
  ASSUME SystemCallsTypeOK, NEW fn \in {"do_system", "do_exec", "do_exec_redirect"},
         NEW command \in Commands, NEW file \in Places
  PROVE  NewCall(fn, command, file) \in CallType
  BY TypesAre DEF NewCall, CallType

\* A call that returns.
LEMMA ReturnFacts ==
  ASSUME ProcessInv, This >= 1, NEW result \in {"true", "false"},
         ReturnFromCall(result)
  PROVE  /\ This' = This /\ calls' \in Seq(CallType) /\ step' = "returned"
         /\ \A i \in 1 .. This : i # This => calls'[i] = calls[i]
         /\ \A i \in 1 .. This :
              /\ calls'[i].fn = calls[i].fn /\ calls'[i].command = calls[i].command
              /\ calls'[i].file = calls[i].file
              /\ calls'[i].printed = calls[i].printed
         /\ calls'[This].result = result
         /\ descriptors' = {}
  <1>1. /\ calls \in Seq(CallType) /\ This \in Nat /\ This \in 1 .. This
        /\ calls[This] \in CallType
    BY TypesAre DEF ProcessInv
  <1> DEFINE k == This
             call == [calls[k] EXCEPT !.result = result]
  <1>2. calls' = [calls EXCEPT ![k] = call]
    BY DEF ReturnFromCall
  <1>3. /\ call \in CallType /\ call.result = result /\ call.fn = calls[k].fn
        /\ call.command = calls[k].command /\ call.file = calls[k].file
        /\ call.printed = calls[k].printed
    BY <1>1 DEF CallType
  <1> HIDE DEF call, k
  <1>4. k \in 1 .. Len(calls) /\ k = This
    BY <1>1 DEF k, This
  <1>5. /\ calls' \in Seq(CallType) /\ Len(calls') = Len(calls) /\ calls'[k] = call
        /\ \A i \in 1 .. Len(calls) : i # k => calls'[i] = calls[i]
    BY <1>1, <1>2, <1>3, <1>4
  <1>6. This' = This /\ Len(calls) = This
    BY <1>5 DEF This
  <1>7. step' = "returned" /\ descriptors' = descriptors \ {This}
    BY DEF ReturnFromCall, CloseOutput
  <1>8. descriptors' = {}
    BY <1>7 DEF ProcessInv
  <1> QED
    BY <1>3, <1>4, <1>5, <1>6, <1>7, <1>8

\* A step of the child of a call: the other children stay.
LEMMA ChildFacts ==
  ASSUME SystemCallsTypeOK, NEW i \in Calls, NEW c \in ChildType,
         child' = [child EXCEPT ![i] = c]
  PROVE  /\ child' \in [Calls -> ChildType] /\ child'[i] = c
         /\ \A j \in Calls : j # i => child'[j] = child[j]
  BY TypesAre


\* A call is made: it has no child yet.
LEMMA CallKeepsProcessInv ==
  ASSUME ProcessInv, step = "returned", This < MaxCalls, NEW call \in CallType,
         calls' = Append(calls, call), UNCHANGED <<child, printed>>,
         Fits(NoChild, call),
         buffer' \in Seq(Text), written' \in [Places -> Seq(Text)],
         \/ /\ step' = "fork" /\ (call.fn = "do_exec" => buffer' = <<>>)
            /\ descriptors' \in {descriptors, descriptors \cup {This + 1}}
         \/ step' = "returned" /\ call.result = "false" /\ UNCHANGED descriptors
  PROVE  ProcessInv'
  <1>0. /\ This \in Nat /\ child \in [Calls -> ChildType] /\ printed \in 0 .. MaxLines
        /\ MaxCalls \in Nat /\ step' \in {"returned", "fork", "wait"}
        /\ descriptors = {}
    BY TypesAre DEF ProcessInv
  <1>1. /\ This' = This + 1 /\ calls' \in Seq(CallType) /\ This + 1 \in Calls
        /\ \A i \in 1 .. This : calls'[i] = calls[i]
        /\ calls'[This + 1] = call /\ child[This + 1] = NoChild
    BY NewCallFacts
  <1>2. SystemCallsTypeOK'
    <2>1. Len(calls') <= MaxCalls
      BY <1>0, <1>1 DEF This
    <2>2. descriptors' \subseteq Calls
      BY <1>0, <1>1
    <2>3. calls' \in Seq(CallType) /\ child' \in [Calls -> ChildType]
      BY <1>0, <1>1
    <2> QED
      BY <1>0, <2>1, <2>2, <2>3 DEF SystemCallsTypeOK, CallType, ChildType
  <1>3. \A i \in Calls : i > This' => child'[i] = NoChild
    BY <1>0, <1>1 DEF ProcessInv, Calls
  <1>7. \A i \in 1 .. This' : i \in 1 .. This \/ i = This + 1
    BY <1>0, <1>1
  <1>4. \A i \in 1 .. This' : Fits(child'[i], calls'[i])
    BY <1>1, <1>7 DEF ProcessInv
  <1>5. ASSUME NEW i \in 1 .. This', child'[i].state = "none",
               i < This' \/ step' = "returned"
        PROVE  calls'[i].result = "false"
    <2>1. CASE i \in 1 .. This
      BY <1>1, <1>5, <2>1 DEF ProcessInv
    <2>2. CASE i = This + 1
      <3>1. step' = "returned"
        BY <1>0, <1>1, <1>5, <2>2
      <3>2. call.result = "false"
        BY <3>1
      <3> QED
        BY <1>1, <2>2, <3>2
    <2> QED
      BY <1>7, <2>1, <2>2
  <1>6. /\ This' >= 1 /\ child'[This'] = NoChild
        /\ step' = "fork" /\ calls'[This'].fn = "do_exec" => buffer' = <<>>
        /\ step' # "wait"
        /\ descriptors' \subseteq {This'} /\ (step' = "returned" => descriptors' = {})
    BY <1>0, <1>1
  <1> QED
    BY <1>2, <1>3, <1>4, <1>5, <1>6 DEF ProcessInv

\* A child that runs goes on: the call it belongs to is not affected.
LEMMA ChildKeepsProcessInv ==
  ASSUME ProcessInv, NEW i \in Calls, NEW c \in ChildType,
         child' = [child EXCEPT ![i] = c],
         child[i].state \notin {"none", "reaped"}, c.state \notin {"none", "reaped"},
         Fits(child[i], calls[i]) => Fits(c, calls[i]),
         UNCHANGED <<calls, step, printed, buffer, descriptors>>,
         written' \in [Places -> Seq(Text)]
  PROVE  ProcessInv'
  <1>0. /\ This \in Nat /\ step \in {"returned", "fork", "wait"}
        /\ child \in [Calls -> ChildType] /\ This <= MaxCalls
        /\ \A j \in 1 .. This : j \in Calls
    BY TypesAre DEF ProcessInv
  <1>1. i \in 1 .. This
    <2>1. child[i] # NoChild
      BY DEF NoChild
    <2> QED
      BY <1>0, <2>1 DEF ProcessInv, Calls
  <1>2. /\ child' \in [Calls -> ChildType] /\ child'[i] = c
        /\ \A j \in Calls : j # i => child'[j] = child[j]
    BY <1>0
  <1>3. This' = This /\ calls' = calls
    BY DEF This
  <1>4. SystemCallsTypeOK'
    BY <1>2 DEF ProcessInv, SystemCallsTypeOK, ChildType
  <1>5. \A j \in Calls : j > This' => child'[j] = NoChild
    BY <1>0, <1>1, <1>2, <1>3 DEF ProcessInv
  <1>6. \A j \in 1 .. This' : Fits(child'[j], calls'[j])
    BY <1>0, <1>1, <1>2, <1>3 DEF ProcessInv
  <1>7. \A j \in 1 .. This' :
          child'[j].state = "none" /\ (j < This' \/ step' = "returned") =>
            calls'[j].result = "false"
    BY <1>0, <1>1, <1>2, <1>3 DEF ProcessInv
  <1>8. /\ step' # "returned" => This' >= 1
        /\ descriptors' \subseteq {This'} /\ (step' = "returned" => descriptors' = {})
    BY <1>3 DEF ProcessInv
  <1>9. step' = "fork" => /\ child'[This'] = NoChild
                          /\ calls'[This'].fn = "do_exec" => buffer' = <<>>
    <2>1. step = "fork" => This # i /\ This \in Calls
      BY <1>0, <1>1 DEF ProcessInv, NoChild
    <2> QED
      BY <1>2, <1>3, <2>1 DEF ProcessInv
  <1>10. step' = "wait" => child'[This'].state \notin {"none", "reaped"}
    BY <1>0, <1>1, <1>2, <1>3 DEF ProcessInv
  <1> QED
    BY <1>4, <1>5, <1>6, <1>7, <1>8, <1>9, <1>10 DEF ProcessInv

\* A call returns; its child is the one it had, or has just been collected.
LEMMA ReturnKeepsProcessInv ==
  ASSUME ProcessInv, This >= 1, NEW result \in {"true", "false"},
         ReturnFromCall(result), UNCHANGED <<printed, buffer, written>>,
         NEW c \in ChildType, child' = [child EXCEPT ![This] = c],
         c.state = "none" => result = "false",
         Fits(c, calls'[This])
  PROVE  ProcessInv'
  <1>0. /\ This \in Nat /\ child \in [Calls -> ChildType]
        /\ \A j \in 1 .. This : j \in Calls
        /\ This \in 1 .. This
    BY TypesAre DEF ProcessInv
  <1>1. /\ This' = This /\ calls' \in Seq(CallType) /\ step' = "returned"
        /\ \A j \in 1 .. This : j # This => calls'[j] = calls[j]
        /\ calls'[This].result = result
        /\ descriptors' = {}
    BY ReturnFacts
  <1>2. /\ child' \in [Calls -> ChildType] /\ child'[This] = c
        /\ \A j \in Calls : j # This => child'[j] = child[j]
    BY <1>0
  <1>3. SystemCallsTypeOK'
    <2>1. Len(calls') <= MaxCalls
      BY <1>1 DEF This, ProcessInv, SystemCallsTypeOK
    <2> QED
      BY <1>1, <1>2, <2>1 DEF ProcessInv, SystemCallsTypeOK, ChildType, CallType
  <1>4. \A j \in Calls : j > This' => child'[j] = NoChild
    BY <1>0, <1>1, <1>2 DEF ProcessInv, Calls
  <1>5. \A j \in 1 .. This' : Fits(child'[j], calls'[j])
    BY <1>0, <1>1, <1>2 DEF ProcessInv
  <1>6. \A j \in 1 .. This' :
          child'[j].state = "none" /\ (j < This' \/ step' = "returned") =>
            calls'[j].result = "false"
    BY <1>0, <1>1, <1>2 DEF ProcessInv
  <1> QED
    BY <1>1, <1>3, <1>4, <1>5, <1>6 DEF ProcessInv


\* A sequence of text put behind another one.
LEMMA WrittenType ==
  ASSUME SystemCallsTypeOK, NEW p \in Places, NEW s \in Seq(Text)
  PROVE  [written EXCEPT ![p] = @ \o s] \in [Places -> Seq(Text)]
  <1>1. written \in [Places -> Seq(Text)] /\ written[p] \o s \in Seq(Text)
    BY TypesAre
  <1> QED
    BY <1>1

\* exit(1) in a child.
LEMMA ExitOneFacts ==
  ASSUME SystemCallsTypeOK, NEW i \in Calls, ExitOne(i)
  PROVE  LET c == [child[i] EXCEPT !.state = "ended", !.status = "exited_1",
                                   !.copy = <<>>]
         IN  /\ child' = [child EXCEPT ![i] = c] /\ c \in ChildType
             /\ c.state = "ended" /\ c.status = "exited_1" /\ c.copy = <<>>
             /\ c.out = child[i].out
             /\ written' \in [Places -> Seq(Text)]
  <1> DEFINE c == [child[i] EXCEPT !.state = "ended", !.status = "exited_1",
                                   !.copy = <<>>]
  <1>1. child[i] \in ChildType /\ <<>> \in Seq(Text)
    BY TypesAre
  <1>2. /\ c \in ChildType /\ c.state = "ended" /\ c.status = "exited_1"
        /\ c.copy = <<>> /\ c.out = child[i].out
    BY <1>1 DEF ChildType
  <1>3. child' = [child EXCEPT ![i] = c]
    BY DEF ExitOne
  <1>4. child[i].out \in Places /\ child[i].copy \in Seq(Text)
    BY <1>1 DEF ChildType
  <1>5. written' \in [Places -> Seq(Text)]
    BY <1>4, WrittenType DEF ExitOne
  <1> QED
    BY <1>2, <1>3, <1>5

\* The steps of a child keep ProcessInv.
LEMMA ChildStepKeepsProcessInv ==
  ASSUME ProcessInv, NEW i \in Calls, Redirect(i) \/ Exec(i) \/ CommandEnds(i)
  PROVE  ProcessInv'
  <1>0. /\ child[i] \in ChildType /\ written \in [Places -> Seq(Text)]
        /\ <<>> \in Seq(Text) /\ OutputFiles \subseteq Places
    BY TypesAre DEF ProcessInv
  <1>1. i \in 1 .. This
    <2>1. child[i] # NoChild /\ This \in Nat
      BY TypesAre
      DEF ProcessInv, NoChild, Redirect, Exec, CommandEnds
    <2> QED
      BY <2>1 DEF ProcessInv, Calls
  <1>2. Fits(child[i], calls[i]) /\ calls[i] \in CallType
    BY <1>1, TypesAre DEF ProcessInv
  <1>3. UNCHANGED <<calls, step, printed, buffer, descriptors>>
    BY DEF Redirect, Exec, CommandEnds
  <1>4. ASSUME ExitOne(i), child[i].state \in {"redirect", "exec"} PROVE ProcessInv'
    <2> DEFINE c == [child[i] EXCEPT !.state = "ended", !.status = "exited_1",
                                     !.copy = <<>>]
    <2>1. /\ child' = [child EXCEPT ![i] = c] /\ c \in ChildType
          /\ c.state = "ended" /\ c.status = "exited_1" /\ c.copy = <<>>
          /\ c.out = child[i].out
          /\ written' \in [Places -> Seq(Text)]
      BY <1>4, ExitOneFacts DEF ProcessInv
    <2> HIDE DEF c
    <2>2. Fits(c, calls[i])
      BY <1>2, <2>1 DEF Fits
    <2> QED
      BY <1>3, <1>4, <2>1, <2>2, ChildKeepsProcessInv
  <1>5. CASE Redirect(i) /\ ~ExitOne(i)
    <2> DEFINE c == [child[i] EXCEPT !.state = "exec", !.out = calls[i].file]
    <2>1. /\ child' = [child EXCEPT ![i] = c] /\ child[i].state = "redirect"
          /\ written' = written
      BY <1>5 DEF Redirect, RedirectedTo
    <2>2. /\ c \in ChildType /\ c.state = "exec" /\ c.out = calls[i].file
          /\ c.status = child[i].status /\ c.copy = child[i].copy
      BY <1>0, <1>2 DEF ChildType, CallType
    <2> HIDE DEF c
    <2>3. Fits(c, calls[i])
      BY <1>2, <2>1, <2>2 DEF Fits
    <2> QED
      BY <1>0, <1>3, <2>1, <2>2, <2>3, ChildKeepsProcessInv
  <1>6. CASE Exec(i) /\ ~ExitOne(i)
    <2> DEFINE c == [child[i] EXCEPT !.state = "running", !.copy = <<>>]
    <2>1. /\ child' = [child EXCEPT ![i] = c] /\ child[i].state = "exec"
          /\ written' = written
      BY <1>6 DEF Exec
    <2>2. /\ c \in ChildType /\ c.state = "running" /\ c.out = child[i].out
          /\ c.status = child[i].status /\ c.copy = <<>>
      BY <1>0 DEF ChildType
    <2> HIDE DEF c
    <2>3. Fits(c, calls[i])
      BY <1>2, <2>1, <2>2 DEF Fits
    <2> QED
      BY <1>0, <1>3, <2>1, <2>2, <2>3, ChildKeepsProcessInv
  <1>7. CASE CommandEnds(i)
    <2> DEFINE st == CASE calls[i].command = "exits_0" -> "exited_0"
                       [] calls[i].command = "killed" -> "signalled"
                       [] OTHER -> "exited_1"
               c == [child[i] EXCEPT !.state = "ended", !.copy = <<>>, !.status = st]
    <2>1. /\ child' = [child EXCEPT ![i] = c] /\ child[i].state = "running"
      BY <1>7 DEF CommandEnds
    <2>2. \/ st = "exited_0" /\ calls[i].command = "exits_0"
          \/ st = "exited_1"
          \/ st = "signalled" /\ calls[i].command = "killed"
      OBVIOUS
    <2> HIDE DEF st
    <2>3. /\ c \in ChildType /\ c.state = "ended" /\ c.out = child[i].out
          /\ c.status = st /\ c.copy = <<>>
      BY <1>0, <2>2 DEF ChildType
    <2> HIDE DEF c
    <2>4. Fits(c, calls[i])
      BY <1>2, <2>1, <2>2, <2>3 DEF Fits
    <2>5. written' \in [Places -> Seq(Text)]
      <3>1. child[i].out \in Places /\ <<"output", i>> \in Text
        BY <1>0 DEF ChildType, Text
      <3> DEFINE o == child[i].out
                 x == <<"output", i>>
      <3>2. written' = [written EXCEPT ![o] = Append(@, x)] \/ written' = written
        <4>1. PICK wrote \in BOOLEAN :
                written' = [written EXCEPT ![o] = IF wrote THEN Append(@, x) ELSE @]
          BY <1>7 DEF CommandEnds
        <4> QED
          BY <1>0, <3>1, <4>1
      <3>3. o \in Places /\ x \in Text
        BY <3>1
      <3> HIDE DEF o, x
      <3>4. Append(written[o], x) \in Seq(Text)
        BY <1>0, <3>3
      <3> QED
        BY <1>0, <3>2, <3>3, <3>4
    <2> QED
      BY <1>3, <2>1, <2>3, <2>4, <2>5, ChildKeepsProcessInv
  <1> QED
    BY <1>4, <1>5, <1>6, <1>7 DEF Redirect, Exec

\* The steps of the caller keep ProcessInv.
LEMMA NextKeepsProcessInv ==
  ProcessInv /\ [SystemCallsNext]_SystemCallsVars => ProcessInv'
  <1> SUFFICES ASSUME ProcessInv, [SystemCallsNext]_SystemCallsVars PROVE ProcessInv'
    OBVIOUS
  <1>0. /\ SystemCallsTypeOK /\ This \in Nat /\ child \in [Calls -> ChildType]
        /\ written \in [Places -> Seq(Text)] /\ buffer \in Seq(Text)
        /\ <<>> \in Seq(Text) /\ "stdout" \in Places /\ OutputFiles \subseteq Places
        /\ This >= 1 => This \in Calls /\ calls[This] \in CallType
                        /\ child[This] \in ChildType /\ Fits(child[This], calls[This])
        /\ printed \in 0 .. MaxLines /\ MaxLines \in Nat
    BY TypesAre DEF ProcessInv
  <1>1. CASE UNCHANGED SystemCallsVars
    BY <1>1 DEF SystemCallsVars, ProcessInv, SystemCallsTypeOK, This
  <1>2. CASE PrintLine
    <2>1. <<"line", printed + 1>> \in Text /\ printed + 1 \in 0 .. MaxLines
      BY <1>0, <1>2 DEF PrintLine, Text
    <2> DEFINE x == <<"line", printed + 1>>
    <2>2. buffer' = Append(buffer, x)
      BY <1>2 DEF PrintLine
    <2> HIDE DEF x
    <2>3. buffer' \in Seq(Text)
      BY <1>0, <2>1, <2>2 DEF x
    <2>4. SystemCallsTypeOK'
      BY <1>0, <1>2, <2>1, <2>3 DEF PrintLine, SystemCallsTypeOK
    <2> QED
      BY <1>2, <2>4 DEF PrintLine, ProcessInv, This
  <1>3. ASSUME NEW command \in Commands, CallDoSystem(command) PROVE ProcessInv'
    <2> DEFINE call == NewCall("do_system", command, "stdout")
    <2>1. call \in CallType
      BY <1>0, NewCallType
    <2>2. call.fn = "do_system" /\ Fits(NoChild, call)
      BY DEF NewCall, Fits, NoChild
    <2>3. /\ step = "returned" /\ This < MaxCalls /\ calls' = Append(calls, call)
          /\ step' = "fork" /\ UNCHANGED <<child, printed, buffer, written, descriptors>>
      BY <1>3 DEF CallDoSystem
    <2> HIDE DEF call
    <2> QED
      BY <1>0, <2>1, <2>2, <2>3, CallKeepsProcessInv
  <1>4. ASSUME NEW command \in Commands, CallDoExec(command) PROVE ProcessInv'
    <2> DEFINE call == NewCall("do_exec", command, "stdout")
    <2>1. call \in CallType
      BY <1>0, NewCallType
    <2>2. Fits(NoChild, call)
      BY DEF NewCall, Fits, NoChild
    <2>3. /\ step = "returned" /\ This < MaxCalls /\ calls' = Append(calls, call)
          /\ step' = "fork" /\ UNCHANGED <<child, printed, descriptors>>
          /\ buffer' = <<>>
      BY <1>4 DEF CallDoExec, FlushStdout
    <2>4. written' \in [Places -> Seq(Text)]
      BY <1>0, <1>4, WrittenType DEF CallDoExec, FlushStdout
    <2> HIDE DEF call
    <2> QED
      BY <1>0, <2>1, <2>2, <2>3, <2>4, CallKeepsProcessInv
  <1>5. ASSUME NEW command \in Commands, NEW file \in OutputFiles,
               CallDoExecRedirect(command, file)
        PROVE  ProcessInv'
    <2> DEFINE call == NewCall("do_exec_redirect", command, file)
               fails == [call EXCEPT !.result = "false"]
    <2>1. call \in CallType
      BY <1>0, NewCallType
    <2>2. /\ call.fn = "do_exec_redirect" /\ Fits(NoChild, call) /\ Fits(NoChild, fails)
          /\ fails.result = "false"
      BY DEF NewCall, Fits, NoChild
    <2>3. fails \in CallType
      BY <2>1 DEF CallType
    <2>4. /\ step = "returned" /\ This < MaxCalls /\ UNCHANGED <<child, printed, buffer>>
          /\ \/ /\ calls' = Append(calls, call) /\ step' = "fork"
                /\ written' = [written EXCEPT ![file] = <<>>]
                /\ descriptors' = descriptors \cup {This + 1}
             \/ /\ calls' = Append(calls, fails)
                /\ UNCHANGED <<step, written, descriptors>>
      BY <1>5 DEF CallDoExecRedirect
    <2> HIDE DEF call, fails
    <2>5. written' \in [Places -> Seq(Text)]
      BY <1>0, <2>4
    <2>6. CASE calls' = Append(calls, call) /\ step' = "fork"
               /\ descriptors' = descriptors \cup {This + 1}
      BY <1>0, <2>1, <2>2, <2>4, <2>5, <2>6, CallKeepsProcessInv
    <2>7. CASE calls' = Append(calls, fails) /\ UNCHANGED <<step, written, descriptors>>
      BY <1>0, <2>2, <2>3, <2>4, <2>5, <2>7, CallKeepsProcessInv
    <2> QED
      BY <2>4, <2>6, <2>7
  <1>6. CASE Fork
    <2>1. /\ This >= 1 /\ child[This] = NoChild
          /\ calls[This].fn = "do_exec" => buffer = <<>>
      BY <1>6 DEF Fork, ProcessInv
    <2>2. CASE ReturnFromCall("false") /\ UNCHANGED child
      <3>1. UNCHANGED <<printed, buffer, written>>
        BY <1>6 DEF Fork
      <3>2. child' = [child EXCEPT ![This] = NoChild] /\ NoChild \in ChildType
        BY <1>0, <2>1, <2>2
      <3>3. Fits(NoChild, calls'[This])
        <4>1. /\ calls'[This].fn = calls[This].fn /\ calls'[This].file = calls[This].file
          BY <1>0, <2>1, <2>2, ReturnFacts
        <4> QED
          BY <1>0, <2>1, <4>1 DEF Fits, NoChild
      <3> QED
        BY <2>1, <2>2, <3>1, <3>2, <3>3, ReturnKeepsProcessInv
    <2>3. CASE ~(ReturnFromCall("false") /\ UNCHANGED child)
      <3> DEFINE k == This
                 st == FirstStateOf(calls[k])
                 c == [child[k] EXCEPT !.state = st, !.copy = buffer]
      <3>1. /\ child' = [child EXCEPT ![k] = c] /\ step' = "wait"
            /\ UNCHANGED <<calls, descriptors, printed, buffer, written>>
        BY <1>6, <2>3 DEF Fork
      <3>2. \/ calls[k].fn = "do_system" /\ st = "running"
            \/ calls[k].fn = "do_exec" /\ st = "exec"
            \/ calls[k].fn = "do_exec_redirect" /\ st = "redirect"
        BY <1>0, <2>1 DEF FirstStateOf, CallType
      <3> HIDE DEF st
      <3>3. /\ c \in ChildType /\ c.state = st /\ c.copy = buffer /\ c.out = "stdout"
            /\ c.status = "none"
        <4>1. child[k] \in ChildType
          BY <1>0, <2>1
        <4>2. child[k].out = "stdout" /\ child[k].status = "none"
          BY <2>1 DEF NoChild
        <4>3. st \in {"running", "exec", "redirect"}
          BY <3>2
        <4> HIDE DEF k
        <4> QED
          BY <1>0, <4>1, <4>2, <4>3 DEF ChildType
      <3> HIDE DEF c
      <3>4. Fits(c, calls[k])
        BY <1>0, <2>1, <3>2, <3>3 DEF Fits
      <3>5. k = This /\ k \in Calls
        BY <1>0, <2>1
      <3> HIDE DEF k
      <3>6. /\ child' \in [Calls -> ChildType] /\ child'[k] = c
            /\ \A j \in Calls : j # k => child'[j] = child[j]
        BY <1>0, <3>1, <3>3, <3>5
      <3>7. This' = This
        BY <3>1 DEF This
      <3>8. \A j \in 1 .. This : j \in Calls
        BY <1>0, TypesAre
      <3>9. SystemCallsTypeOK'
        BY <1>0, <3>1, <3>6 DEF SystemCallsTypeOK, ChildType
      <3> QED
        BY <1>0, <2>1, <3>1, <3>2, <3>3, <3>4, <3>5, <3>6, <3>7, <3>8, <3>9
        DEF ProcessInv
    <2> QED
      BY <2>2, <2>3
  <1>7. CASE Wait
    <2>1. /\ This >= 1 /\ child[This].state = "ended"
          /\ ResultOf(This) \in {"true", "false"}
          /\ calls[This].fn # "do_system" =>
               (ResultOf(This) = "true" <=> child[This].status = "exited_0")
      BY <1>7 DEF Wait, ProcessInv, ResultOf, Succeeded
    <2> DEFINE r == ResultOf(This)
               c == [child[This] EXCEPT !.state = "reaped"]
    <2>2. /\ ReturnFromCall(r) /\ UNCHANGED <<printed, buffer, written>>
          /\ child' = [child EXCEPT ![This] = c]
      BY <1>7 DEF Wait
    <2>3. /\ c \in ChildType /\ c.state = "reaped" /\ c.copy = child[This].copy
          /\ c.out = child[This].out /\ c.status = child[This].status
      BY <1>0, <2>1 DEF ChildType
    <2> HIDE DEF r, c
    <2>4. /\ calls'[This].fn = calls[This].fn /\ calls'[This].file = calls[This].file
          /\ calls'[This].command = calls[This].command /\ calls'[This].result = r
      BY <1>0, <2>1, <2>2, ReturnFacts DEF r
    <2>5. Fits(c, calls'[This])
      BY <1>0, <2>1, <2>3, <2>4 DEF Fits, r
    <2> QED
      BY <2>1, <2>2, <2>3, <2>5, ReturnKeepsProcessInv DEF r
  <1>8. CASE WaitInterrupted
    <2>1. /\ This >= 1 /\ child[This].state \notin {"none", "reaped"}
          /\ UNCHANGED <<child, printed, buffer, written>>
      BY <1>8 DEF WaitInterrupted, ProcessInv
    <2>2. PICK result \in {"true", "false"} : ReturnFromCall(result)
      BY <1>8 DEF WaitInterrupted
    <2>3. /\ calls'[This].fn = calls[This].fn /\ calls'[This].file = calls[This].file
          /\ calls'[This].command = calls[This].command
      BY <1>0, <2>1, <2>2, ReturnFacts
    <2>4. Fits(child[This], calls'[This])
      BY <1>0, <2>1, <2>3 DEF Fits
    <2>5. child' = [child EXCEPT ![This] = child[This]]
      BY <1>0, <2>1
    <2> QED
      BY <1>0, <2>1, <2>2, <2>4, <2>5, ReturnKeepsProcessInv
  <1> QED
    BY <1>1, <1>2, <1>3, <1>4, <1>5, <1>6, <1>7, <1>8, ChildStepKeepsProcessInv
    DEF SystemCallsNext


\* ProcessInv at the start.
LEMMA InitProcessInv == SystemCallsInit => ProcessInv
  <1> SUFFICES ASSUME SystemCallsInit PROVE ProcessInv
    OBVIOUS
  <1>1. /\ calls = <<>> /\ This = 0 /\ step = "returned" /\ descriptors = {}
        /\ printed = 0 /\ buffer = <<>>
    BY DEF SystemCallsInit, This
  <1>2. MaxCalls \in Nat /\ MaxLines \in Nat /\ "stdout" \in Places
    BY SystemCallsAssumption DEF Places
  <1>3. NoChild \in ChildType
    <2>1. <<>> \in Seq(Text)
      OBVIOUS
    <2> QED
      BY <1>2, <2>1 DEF NoChild, ChildType
  <1>4. child \in [Calls -> ChildType] /\ \A i \in Calls : child[i] = NoChild
    BY <1>3 DEF SystemCallsInit
  <1>5. written \in [Places -> Seq(Text)]
    BY DEF SystemCallsInit
  <1>6. calls \in Seq(CallType) /\ Len(calls) = 0 /\ buffer \in Seq(Text)
    BY <1>1
  <1>7. SystemCallsTypeOK
    BY <1>1, <1>2, <1>4, <1>5, <1>6 DEF SystemCallsTypeOK, CallType, ChildType
  <1> QED
    BY <1>1, <1>4, <1>7 DEF ProcessInv

\* Every path out of do_exec_redirect closes the output file, for any number of
\* calls and whatever fails.
THEOREM OutputsAreClosed == SystemCallsSpec => []DescriptorsClosed
  <1>1. ProcessInv => DescriptorsClosed
    BY DEF ProcessInv, DescriptorsClosed
  <1> QED
    BY <1>1, InitProcessInv, NextKeepsProcessInv, PTL DEF SystemCallsSpec

\* A child that was collected was reported as a success exactly when its command
\* exited with 0: not when it was killed, could not be executed or redirected.
THEOREM ResultsAreTruthful == SystemCallsSpec => []TruthfulResult
  <1>1. ASSUME ProcessInv PROVE TruthfulResult
    <2>1. \A i \in 1 .. Len(calls) : Fits(child[i], calls[i])
      BY <1>1 DEF ProcessInv, This
    <2> QED
      BY <2>1 DEF TruthfulResult, Fits
  <1>2. ProcessInv => TruthfulResult
    BY <1>1
  <1> QED
    BY <1>2, InitProcessInv, NextKeepsProcessInv, PTL DEF SystemCallsSpec

-----------------------------------------------------------------------------
(* The text.                                                               *)

Lines == {"line"} \X (1 .. MaxLines)
Line(n) == <<"line", n>>
Output(i) == <<"output", i>>

In(s, x) == \E k \in 1 .. Len(s) : s[k] = x
Distinct(s) == \A j, k \in 1 .. Len(s) : s[j] = s[k] => j = k

\* Lines that the caller has printed, each at most once.
Printed(s, number) ==
  /\ s \in Seq(Lines) /\ Distinct(s)
  /\ \A n \in 1 .. MaxLines : In(s, Line(n)) => n <= number

\* What is in the buffers are printed lines; what has been written are printed
\* lines and outputs of calls.
SourceInv ==
  /\ Printed(buffer, printed)
  /\ \A i \in Calls : Printed(child[i].copy, printed)
  /\ \A p \in Places :
       /\ \A n \in 1 .. MaxLines : In(written[p], Line(n)) => n <= printed
       /\ \A i \in Calls : In(written[p], Output(i)) => i <= This

\* No line is lost, and what was printed before do_exec has been written.
FlushInv ==
  /\ \A n \in 1 .. printed : In(written["stdout"], Line(n)) \/ In(buffer, Line(n))
  /\ \A i \in 1 .. This : calls[i].fn = "do_exec" =>
       \A n \in 1 .. calls[i].printed : In(written["stdout"], Line(n))
  /\ TextBeforeOutput

\* What a sequence holds after another one was put behind it.
LEMMA InConcat ==
  ASSUME NEW S, NEW s \in Seq(S), NEW t \in Seq(S)
  PROVE  /\ s \o t \in Seq(S) /\ Len(s \o t) = Len(s) + Len(t)
         /\ \A k \in 1 .. Len(s) : (s \o t)[k] = s[k]
         /\ \A k \in 1 .. Len(t) : (s \o t)[Len(s) + k] = t[k]
         /\ \A x : In(s \o t, x) <=> In(s, x) \/ In(t, x)
  <1>1. /\ s \o t \in Seq(S) /\ Len(s \o t) = Len(s) + Len(t)
        /\ Len(s) \in Nat /\ Len(t) \in Nat
        /\ \A k \in 1 .. Len(s) : (s \o t)[k] = s[k]
        /\ \A k \in 1 .. Len(t) : (s \o t)[Len(s) + k] = t[k]
    OBVIOUS
  <1> DEFINE r == s \o t
  <1> HIDE DEF r
  <1>2. ASSUME NEW x, In(r, x) PROVE In(s, x) \/ In(t, x)
    <2>1. PICK k \in 1 .. Len(r) : r[k] = x
      BY <1>2 DEF In
    <2>2. CASE k \in 1 .. Len(s)
      BY <1>1, <2>1, <2>2 DEF In, r
    <2>3. CASE k \notin 1 .. Len(s)
      <3>1. k - Len(s) \in 1 .. Len(t) /\ Len(s) + (k - Len(s)) = k
        BY <1>1, <2>3 DEF r
      <3>2. t[k - Len(s)] = x
        BY <1>1, <2>1, <3>1 DEF r
      <3> QED
        BY <3>1, <3>2 DEF In
    <2> QED
      BY <2>2, <2>3
  <1>3. ASSUME NEW x, In(s, x) PROVE In(r, x)
    <2>1. PICK k \in 1 .. Len(s) : s[k] = x
      BY <1>3 DEF In
    <2>2. k \in 1 .. Len(r) /\ r[k] = x
      BY <1>1, <2>1 DEF r
    <2> QED
      BY <2>2 DEF In
  <1>4. ASSUME NEW x, In(t, x) PROVE In(r, x)
    <2>1. PICK k \in 1 .. Len(t) : t[k] = x
      BY <1>4 DEF In
    <2>2. Len(s) + k \in 1 .. Len(r) /\ r[Len(s) + k] = x
      BY <1>1, <2>1 DEF r
    <2> QED
      BY <2>2 DEF In
  <1> QED
    BY <1>1, <1>2, <1>3, <1>4 DEF r

\* Nothing is in an empty sequence.
LEMMA InEmpty == Len(<<>>) = 0 /\ Distinct(<<>>) /\ \A x : ~In(<<>>, x)
  BY DEF In, Distinct

\* A sequence of one element.
LEMMA InOne ==
  ASSUME NEW S, NEW e \in S
  PROVE  /\ <<e>> \in Seq(S) /\ Len(<<e>>) = 1 /\ <<e>>[1] = e
         /\ \A x : In(<<e>>, x) <=> x = e
         /\ \A s \in Seq(S) : Append(s, e) = s \o <<e>>
  <1>1. <<e>> \in Seq(S) /\ Len(<<e>>) = 1 /\ <<e>>[1] = e
    OBVIOUS
  <1>2. \A x : In(<<e>>, x) <=> x = e
    BY <1>1 DEF In
  <1>3. \A s \in Seq(S) : Append(s, e) = s \o <<e>>
    OBVIOUS
  <1> QED
    BY <1>1, <1>2, <1>3

\* A line is not an output, and each has its number.
LEMMA TextDiffers ==
  /\ \A m, n : Line(m) = Line(n) => m = n
  /\ \A m, n : Output(m) = Output(n) => m = n
  /\ \A m, n : Line(m) # Output(n)
  /\ \A x \in Lines : \A i : x # Output(i)
  /\ \A n \in 1 .. MaxLines : Line(n) \in Lines
  /\ Lines \subseteq Text
  <1>1. /\ \A m, n : Line(m) = Line(n) => m = n
        /\ \A m, n : Output(m) = Output(n) => m = n
        /\ \A m, n : Line(m) # Output(n)
    BY DEF Line, Output
  <1>2. \A x \in Lines : \E n \in 1 .. MaxLines : x = Line(n)
    BY DEF Lines, Line
  <1> QED
    BY <1>1, <1>2 DEF Lines, Text, Line


\* What the steps do to the text. A text is put behind what a place holds.
Put(p, t) == written' = [written EXCEPT ![p] = @ \o t]

\* The calls are the same but for their results.
SameCalls ==
  /\ This' = This
  /\ \A i \in 1 .. This : /\ calls'[i].fn = calls[i].fn /\ calls'[i].file = calls[i].file
                          /\ calls'[i].printed = calls[i].printed

\* There is a new call.
MadeCall ==
  /\ This' = This + 1 /\ This + 1 \in Calls
  /\ \A i \in 1 .. This : calls'[i] = calls[i]
  /\ calls'[This + 1].printed = printed
  /\ UNCHANGED <<child, printed>>

PrintStep ==
  /\ printed < MaxLines /\ printed' = printed + 1
  /\ buffer' = Append(buffer, Line(printed + 1))
  /\ UNCHANGED <<calls, child, written, step>>

CallStep ==
  /\ MadeCall /\ step = "returned"
  /\ \/ /\ calls'[This + 1].fn # "do_exec"
        /\ UNCHANGED <<buffer, written>>
        /\ calls'[This + 1].fn # "do_exec_redirect" \/ step' = "returned"
     \/ /\ calls'[This + 1].fn = "do_exec_redirect" /\ step' = "fork"
        /\ calls'[This + 1].file \in OutputFiles
        /\ written' = [written EXCEPT ![calls'[This + 1].file] = <<>>]
        /\ UNCHANGED buffer
     \/ calls'[This + 1].fn = "do_exec" /\ Put("stdout", buffer) /\ buffer' = <<>>

ForkStep ==
  /\ SameCalls /\ This \in Calls /\ step = "fork" /\ step' = "wait"
  /\ child'[This].copy = buffer /\ child'[This].status = "none"
  /\ child'[This].state \in {"redirect", "exec", "running"}
  /\ \A j \in Calls : j # This => child'[j] = child[j]
  /\ UNCHANGED <<printed, buffer, written>>

ReturnStep ==
  /\ SameCalls /\ This \in Calls /\ step' = "returned"
  /\ child'[This] = child[This]
       \/ /\ child'[This].state = "reaped" /\ child[This].state = "ended"
          /\ child'[This].status = child[This].status
          /\ child'[This].copy = child[This].copy
  /\ \A j \in Calls : j # This => child'[j] = child[j]
  /\ UNCHANGED <<printed, buffer, written>>

\* A child is redirected or executed, calls exit(1), or its command ends.
ChildStep(i) ==
  /\ i \in 1 .. This /\ i \in Calls
  /\ UNCHANGED <<calls, step, printed, buffer>>
  /\ \A j \in Calls : j # i => child'[j] = child[j]
  /\ \/ /\ child[i].state \in {"redirect", "exec"}
        /\ child'[i].state \in {"exec", "running"}
        /\ child'[i].copy \in {child[i].copy, <<>>}
        /\ child[i].status = "none" /\ child'[i].status = "none"
        /\ UNCHANGED written
     \/ /\ child[i].state \in {"redirect", "exec"} /\ child[i].status = "none"
        /\ child'[i].state = "ended" /\ child'[i].status = "exited_1"
        /\ child'[i].copy = <<>>
        /\ Put(child[i].out, child[i].copy)
     \/ /\ child[i].state = "running" /\ child[i].status = "none"
        /\ child'[i].state = "ended" /\ child'[i].copy = <<>>
        /\ child'[i].status = "exited_0" => calls[i].command = "exits_0"
        /\ \/ Put(child[i].out, <<Output(i)>>)
           \/ calls[i].command # "exits_0" /\ UNCHANGED written

\* The steps of a child are such steps.
LEMMA ChildEffects ==
  ASSUME ProcessInv, NEW i \in Calls, Redirect(i) \/ Exec(i) \/ CommandEnds(i)
  PROVE  ChildStep(i)
  <1>0. /\ child \in [Calls -> ChildType] /\ child[i] \in ChildType
        /\ written \in [Places -> Seq(Text)]
    BY TypesAre DEF ProcessInv
  <1>1. i \in 1 .. This
    <2>1. child[i] # NoChild /\ This \in Nat
      BY TypesAre DEF ProcessInv, NoChild, Redirect, Exec, CommandEnds
    <2> QED
      BY <2>1 DEF ProcessInv, Calls
  <1>2. Fits(child[i], calls[i])
    BY <1>1 DEF ProcessInv
  <1>3. /\ UNCHANGED <<calls, step, printed, buffer>>
        /\ \A j \in Calls : j # i => child'[j] = child[j]
    BY <1>0 DEF Redirect, Exec, CommandEnds, ExitOne
  <1>4. child[i].state \in {"redirect", "exec", "running"} => child[i].status = "none"
    BY <1>2 DEF Fits
  <1>5. CASE ExitOne(i) /\ child[i].state \in {"redirect", "exec"}
    BY <1>0, <1>1, <1>3, <1>4, <1>5 DEF ExitOne, ChildStep, Put, ChildType
  <1>6. CASE Redirect(i) /\ ~ExitOne(i)
    BY <1>0, <1>1, <1>3, <1>4, <1>6 DEF Redirect, ChildStep, ChildType
  <1>7. CASE Exec(i) /\ ~ExitOne(i)
    BY <1>0, <1>1, <1>3, <1>4, <1>7 DEF Exec, ChildStep, ChildType
  <1>8. CASE CommandEnds(i)
    <2> DEFINE st == CASE calls[i].command = "exits_0" -> "exited_0"
                       [] calls[i].command = "killed" -> "signalled"
                       [] OTHER -> "exited_1"
               o == child[i].out
               x == Output(i)
    <2>1. st = "exited_0" => calls[i].command = "exits_0"
      OBVIOUS
    <2>2. /\ child[i].state = "running"
          /\ child' = [child EXCEPT ![i].state = "ended", ![i].copy = <<>>,
                                    ![i].status = st]
      BY <1>8 DEF CommandEnds
    <2> HIDE DEF st
    <2>3. /\ child'[i].state = "ended" /\ child'[i].copy = <<>> /\ child'[i].status = st
      BY <1>0, <2>2 DEF ChildType
    <2>4. o \in Places /\ x \in Text /\ written[o] \in Seq(Text)
      BY <1>0 DEF ChildType, Text, Output
    <2>5. PICK wrote \in BOOLEAN :
            /\ calls[i].command \in {"exits_0", "exits_1"} => wrote
            /\ written' = [written EXCEPT ![o] = IF wrote THEN Append(@, x) ELSE @]
      BY <1>8 DEF CommandEnds, Output
    <2> HIDE DEF o, x
    <2>6. Append(written[o], x) = written[o] \o <<x>>
      BY <2>4, InOne
    <2>7. CASE wrote
      <3>1. Put(o, <<x>>)
        BY <2>5, <2>6, <2>7 DEF Put
      <3> QED
        BY <1>1, <1>3, <1>4, <2>1, <2>2, <2>3, <3>1 DEF ChildStep, o, x
    <2>8. CASE ~wrote
      <3>1. UNCHANGED written /\ calls[i].command # "exits_0"
        BY <1>0, <2>4, <2>5, <2>8
      <3> QED
        BY <1>1, <1>3, <1>4, <2>1, <2>2, <2>3, <3>1 DEF ChildStep
    <2> QED
      BY <2>7, <2>8
  <1> QED
    BY <1>5, <1>6, <1>7, <1>8 DEF Redirect, Exec

\* Every step is one of the five.
LEMMA Effects ==
  ASSUME ProcessInv, SystemCallsNext
  PROVE  \/ PrintStep \/ CallStep \/ ForkStep \/ ReturnStep
         \/ \E i \in Calls : ChildStep(i)
  <1>0. /\ SystemCallsTypeOK /\ This \in Nat /\ child \in [Calls -> ChildType]
        /\ "stdout" \in Places /\ OutputFiles \subseteq Places
        /\ This >= 1 => This \in Calls /\ calls[This] \in CallType
                        /\ child[This] \in ChildType
    BY TypesAre DEF ProcessInv
  <1>1. CASE PrintLine
    BY <1>1 DEF PrintLine, PrintStep, Line
  <1>2. ASSUME NEW command \in Commands, CallDoSystem(command) PROVE CallStep
    <2> DEFINE call == NewCall("do_system", command, "stdout")
    <2>1. call \in CallType
      BY <1>0, NewCallType
    <2>2. call.fn = "do_system" /\ call.printed = printed
      BY DEF NewCall
    <2>3. /\ step = "returned" /\ This < MaxCalls /\ calls' = Append(calls, call)
          /\ UNCHANGED <<child, printed, buffer, written>>
      BY <1>2 DEF CallDoSystem
    <2> HIDE DEF call
    <2>4. MadeCall /\ calls'[This + 1] = call
      BY <2>1, <2>2, <2>3, NewCallFacts DEF MadeCall
    <2> QED
      BY <2>2, <2>3, <2>4 DEF CallStep
  <1>3. ASSUME NEW command \in Commands, CallDoExec(command) PROVE CallStep
    <2> DEFINE call == NewCall("do_exec", command, "stdout")
    <2>1. call \in CallType
      BY <1>0, NewCallType
    <2>2. call.fn = "do_exec" /\ call.printed = printed
      BY DEF NewCall
    <2>3. /\ step = "returned" /\ This < MaxCalls /\ calls' = Append(calls, call)
          /\ UNCHANGED <<child, printed>> /\ Put("stdout", buffer) /\ buffer' = <<>>
      BY <1>3 DEF CallDoExec, FlushStdout, Put
    <2> HIDE DEF call
    <2>4. MadeCall /\ calls'[This + 1] = call
      BY <2>1, <2>2, <2>3, NewCallFacts DEF MadeCall
    <2> QED
      BY <2>2, <2>3, <2>4 DEF CallStep
  <1>4. ASSUME NEW command \in Commands, NEW file \in OutputFiles,
               CallDoExecRedirect(command, file)
        PROVE  CallStep
    <2> DEFINE call == NewCall("do_exec_redirect", command, file)
               fails == [call EXCEPT !.result = "false"]
    <2>1. call \in CallType
      BY <1>0, NewCallType
    <2>2. /\ call.fn = "do_exec_redirect" /\ call.printed = printed /\ call.file = file
          /\ fails.fn = "do_exec_redirect" /\ fails.printed = printed
      BY DEF NewCall
    <2>3. fails \in CallType
      BY <2>1 DEF CallType
    <2>4. /\ step = "returned" /\ This < MaxCalls /\ UNCHANGED <<child, printed, buffer>>
          /\ \/ /\ calls' = Append(calls, call) /\ step' = "fork"
                /\ written' = [written EXCEPT ![file] = <<>>]
             \/ /\ calls' = Append(calls, fails) /\ UNCHANGED <<step, written>>
      BY <1>4 DEF CallDoExecRedirect
    <2> HIDE DEF call, fails
    <2>5. CASE /\ calls' = Append(calls, call) /\ step' = "fork"
               /\ written' = [written EXCEPT ![file] = <<>>]
      <3>1. MadeCall /\ calls'[This + 1] = call
        BY <2>1, <2>2, <2>4, <2>5, NewCallFacts DEF MadeCall
      <3> QED
        BY <2>2, <2>4, <2>5, <3>1 DEF CallStep
    <2>6. CASE calls' = Append(calls, fails) /\ UNCHANGED <<step, written>>
      <3>1. MadeCall /\ calls'[This + 1] = fails
        BY <2>2, <2>3, <2>4, <2>6, NewCallFacts DEF MadeCall
      <3> QED
        BY <2>2, <2>4, <2>6, <3>1 DEF CallStep
    <2> QED
      BY <2>4, <2>5, <2>6
  <1>5. ASSUME This >= 1, NEW result \in {"true", "false"}, ReturnFromCall(result),
               UNCHANGED <<child, printed, buffer, written>>
        PROVE  ReturnStep
    <2>1. SameCalls /\ step' = "returned"
      BY <1>5, ReturnFacts DEF SameCalls
    <2> QED
      BY <1>0, <1>5, <2>1 DEF ReturnStep
  <1>6. CASE Fork
    <2>1. This >= 1 /\ child[This] = NoChild
      BY <1>6 DEF Fork, ProcessInv
    <2>2. CASE ReturnFromCall("false") /\ UNCHANGED child
      BY <1>5, <1>6, <2>1, <2>2 DEF Fork
    <2>3. CASE ~(ReturnFromCall("false") /\ UNCHANGED child)
      <3> DEFINE k == This
                 st == FirstStateOf(calls[k])
      <3>1. /\ child' = [child EXCEPT ![k].state = st, ![k].copy = buffer]
            /\ step = "fork" /\ step' = "wait"
            /\ UNCHANGED <<calls, printed, buffer, written>>
        BY <1>6, <2>3 DEF Fork
      <3>2. st \in {"running", "exec", "redirect"}
        BY <1>0, <2>1 DEF FirstStateOf, CallType
      <3> HIDE DEF st
      <3>3. child[k].status = "none"
        BY <2>1 DEF NoChild
      <3>4. k = This /\ k \in Calls /\ child[k] \in ChildType
        BY <1>0, <2>1
      <3> HIDE DEF k
      <3>5. /\ child'[k].state = st /\ child'[k].copy = buffer
            /\ child'[k].status = "none"
            /\ \A j \in Calls : j # k => child'[j] = child[j]
        BY <1>0, <3>1, <3>3, <3>4 DEF ChildType
      <3>6. SameCalls
        BY <3>1 DEF SameCalls, This
      <3> QED
        BY <3>1, <3>2, <3>4, <3>5, <3>6 DEF ForkStep
    <2> QED
      BY <2>2, <2>3
  <1>7. CASE Wait
    <2>1. /\ This >= 1 /\ child[This].state = "ended"
          /\ ResultOf(This) \in {"true", "false"}
          /\ ReturnFromCall(ResultOf(This)) /\ UNCHANGED <<printed, buffer, written>>
          /\ child' = [child EXCEPT ![This].state = "reaped"]
      BY <1>7 DEF Wait, ProcessInv, ResultOf, Succeeded
    <2>2. SameCalls /\ step' = "returned"
      BY <2>1, ReturnFacts DEF SameCalls
    <2>3. /\ child'[This].state = "reaped" /\ child'[This].copy = child[This].copy
          /\ child'[This].status = child[This].status
          /\ \A j \in Calls : j # This => child'[j] = child[j]
      BY <1>0, <2>1 DEF ChildType
    <2> QED
      BY <1>0, <2>1, <2>2, <2>3 DEF ReturnStep
  <1>8. CASE WaitInterrupted
    BY <1>5, <1>8 DEF WaitInterrupted, ProcessInv
  <1> QED
    BY <1>1, <1>2, <1>3, <1>4, <1>6, <1>7, <1>8, ChildEffects DEF SystemCallsNext


\* A text put behind what a place holds.
LEMMA PutFacts ==
  ASSUME SystemCallsTypeOK, NEW p \in Places, NEW t \in Seq(Text), Put(p, t)
  PROVE  /\ written'[p] = written[p] \o t /\ written[p] \in Seq(Text)
         /\ \A q \in Places : q # p => written'[q] = written[q]
         /\ \A x : In(written'[p], x) <=> In(written[p], x) \/ In(t, x)
  <1>1. written \in [Places -> Seq(Text)]
    BY TypesAre
  <1>2. /\ written'[p] = written[p] \o t /\ written[p] \in Seq(Text)
        /\ \A q \in Places : q # p => written'[q] = written[q]
    BY <1>1 DEF Put
  <1> QED
    BY <1>2, InConcat

\* Lines that were printed stay so, and an empty buffer holds none.
LEMMA PrintedStays ==
  ASSUME NEW s, NEW m \in Nat, NEW n \in Nat, m <= n, MaxLines \in Nat
  PROVE  /\ Printed(s, m) => Printed(s, n)
         /\ Printed(<<>>, n)
         /\ Printed(s, m) => s \in Seq(Text) /\ \A i : ~In(s, Output(i))
  <1>1. Printed(s, m) => Printed(s, n)
    BY DEF Printed
  <1>2. Printed(<<>>, n)
    BY InEmpty DEF Printed
  <1>3. ASSUME Printed(s, m) PROVE s \in Seq(Text) /\ \A i : ~In(s, Output(i))
    BY <1>3, TextDiffers DEF Printed, In
  <1> QED
    BY <1>1, <1>2, <1>3

\* A text from the caller's lines or a call's output keeps what is known of the
\* origin of what is written.
LEMMA PutKeepsSource ==
  ASSUME SystemCallsTypeOK, SourceInv, NEW p \in Places, NEW t \in Seq(Text), Put(p, t),
         printed' = printed, This' >= This, This' \in Nat,
         Printed(t, printed) \/ \E i \in Calls : i <= This /\ t = <<Output(i)>>
  PROVE  \A q \in Places :
           /\ \A n \in 1 .. MaxLines : In(written'[q], Line(n)) => n <= printed'
           /\ \A i \in Calls : In(written'[q], Output(i)) => i <= This'
  <1>0. /\ printed \in Nat /\ MaxLines \in Nat /\ This \in Nat /\ Calls \subseteq Nat
    BY TypesAre DEF Calls
  <1>1. /\ \A q \in Places : q # p => written'[q] = written[q]
        /\ \A x : In(written'[p], x) <=> In(written[p], x) \/ In(t, x)
    BY PutFacts
  <1>2. /\ \A n \in 1 .. MaxLines : In(t, Line(n)) => n <= printed
        /\ \A i \in Calls : In(t, Output(i)) => i <= This
    <2>1. CASE Printed(t, printed)
      <3>1. printed <= printed
        BY <1>0
      <3>2. \A i : ~In(t, Output(i))
        BY <1>0, <2>1, <3>1, PrintedStays
      <3> QED
        BY <2>1, <3>2 DEF Printed
    <2>2. CASE \E i \in Calls : i <= This /\ t = <<Output(i)>>
      <3>1. PICK i \in Calls : i <= This /\ t = <<Output(i)>>
        BY <2>2
      <3>2. \A x : In(t, x) <=> x = Output(i)
        BY <3>1, InOne
      <3> QED
        BY <3>1, <3>2, TextDiffers
    <2> QED
      BY <2>1, <2>2
  <1>3. ASSUME NEW q \in Places
        PROVE  /\ \A n \in 1 .. MaxLines : In(written'[q], Line(n)) => n <= printed'
               /\ \A i \in Calls : In(written'[q], Output(i)) => i <= This'
    <2>1. /\ \A n \in 1 .. MaxLines : In(written[q], Line(n)) => n <= printed
          /\ \A i \in Calls : In(written[q], Output(i)) => i <= This
      BY DEF SourceInv
    <2>2. CASE q = p
      BY <1>0, <1>1, <1>2, <2>1, <2>2
    <2>3. CASE q # p
      BY <1>0, <1>1, <2>1, <2>3
    <2> QED
      BY <2>2, <2>3
  <1> QED
    BY <1>3

\* The five steps keep SourceInv.
LEMMA NextKeepsSourceInv ==
  ASSUME ProcessInv, SourceInv,
         \/ PrintStep \/ CallStep \/ ForkStep \/ ReturnStep
         \/ \E i \in Calls : ChildStep(i)
  PROVE  SourceInv'
  <1>0. /\ printed \in Nat /\ printed <= MaxLines /\ MaxLines \in Nat /\ This \in Nat
        /\ Calls \subseteq Nat /\ written \in [Places -> Seq(Text)]
        /\ SystemCallsTypeOK /\ "stdout" \in Places /\ OutputFiles \subseteq Places
        /\ \A i \in Calls : child[i].out \in Places
    BY TypesAre DEF Calls, ProcessInv, ChildType
  <1>1. /\ Printed(buffer, printed) /\ \A i \in Calls : Printed(child[i].copy, printed)
        /\ Printed(<<>>, printed)
    BY <1>0, PrintedStays DEF SourceInv
  <1>2. /\ buffer \in Seq(Text) /\ \A i \in Calls : child[i].copy \in Seq(Text)
    BY <1>0, <1>1, PrintedStays
  <1>3. CASE PrintStep
    <2>1. printed' = printed + 1 /\ printed <= printed + 1 /\ printed + 1 \in 1 .. MaxLines
      BY <1>0, <1>3 DEF PrintStep
    <2> DEFINE x == Line(printed + 1)
    <2>2. /\ buffer \in Seq(Lines) /\ x \in Lines
          /\ \A n \in 1 .. MaxLines : In(buffer, Line(n)) => n <= printed
          /\ Distinct(buffer)
      BY <1>1, <2>1, TextDiffers DEF Printed
    <2>3. ~In(buffer, x)
      BY <1>0, <2>1, <2>2
    <2>4. \A n \in 1 .. MaxLines : x = Line(n) => n <= printed + 1
      BY <1>0, <2>1, TextDiffers
    <2>5. buffer' = Append(buffer, x)
      BY <1>3 DEF PrintStep
    <2> HIDE DEF x
    <2>6. /\ buffer' \in Seq(Lines) /\ Len(buffer') = Len(buffer) + 1
          /\ \A k \in 1 .. Len(buffer) : buffer'[k] = buffer[k]
          /\ buffer'[Len(buffer) + 1] = x /\ Len(buffer) \in Nat
      BY <2>2, <2>5
    <2>7. Distinct(buffer')
      BY <2>2, <2>3, <2>6 DEF Distinct, In
    <2>8. \A n \in 1 .. MaxLines : In(buffer', Line(n)) => n <= printed + 1
      <3>1. \A y : In(buffer', y) => In(buffer, y) \/ y = x
        BY <2>6 DEF In
      <3> QED
        BY <1>0, <2>2, <2>4, <3>1
    <2>9. Printed(buffer', printed')
      BY <2>1, <2>6, <2>7, <2>8 DEF Printed
    <2>10. \A i \in Calls : Printed(child'[i].copy, printed')
      BY <1>0, <1>1, <1>3, <2>1, PrintedStays DEF PrintStep
    <2>11. /\ This' = This /\ written' = written
      BY <1>3 DEF PrintStep, This
    <2> QED
      BY <1>0, <2>1, <2>9, <2>10, <2>11 DEF SourceInv
  <1>4. CASE CallStep
    <2>1. /\ This' = This + 1 /\ This' >= This /\ This' \in Nat
          /\ UNCHANGED <<child, printed>>
      BY <1>0, <1>4 DEF CallStep, MadeCall
    <2>2. Printed(buffer', printed') /\ \A i \in Calls : Printed(child'[i].copy, printed')
      BY <1>1, <1>4, <2>1 DEF CallStep
    <2>3. CASE Put("stdout", buffer)
      BY <1>0, <1>1, <1>2, <2>1, <2>2, <2>3, PutKeepsSource DEF SourceInv
    <2>4. CASE UNCHANGED written
      <3>1. \A q \in Places :
              /\ \A n \in 1 .. MaxLines : In(written'[q], Line(n)) => n <= printed'
              /\ \A i \in Calls : In(written'[q], Output(i)) => i <= This'
        <4>1. \A i \in Calls : i <= This => i <= This'
          BY <1>0, <2>1
        <4> QED
          BY <2>1, <2>4, <4>1 DEF SourceInv
      <3> QED
        BY <2>2, <3>1 DEF SourceInv
    <2>5. CASE \E file \in Places : written' = [written EXCEPT ![file] = <<>>]
      <3>1. \A q \in Places : written'[q] = written[q] \/ written'[q] = <<>>
        BY <1>0, <2>5
      <3>2. \A q \in Places : \A x : In(written'[q], x) => In(written[q], x)
        BY <3>1, InEmpty
      <3> QED
        BY <1>0, <2>1, <2>2, <3>2 DEF SourceInv
    <2> QED
      BY <1>0, <1>4, <2>3, <2>4, <2>5 DEF CallStep
  <1>5. CASE ForkStep
    <2>1. /\ This' = This /\ UNCHANGED <<printed, buffer, written>>
          /\ \A i \in Calls : child'[i].copy \in {buffer, child[i].copy}
      BY <1>5 DEF ForkStep, SameCalls
    <2> QED
      BY <1>1, <2>1 DEF SourceInv
  <1>6. CASE ReturnStep
    <2>1. /\ This' = This /\ UNCHANGED <<printed, buffer, written>>
          /\ \A i \in Calls : child'[i].copy = child[i].copy
      BY <1>6 DEF ReturnStep, SameCalls
    <2> QED
      BY <1>1, <2>1 DEF SourceInv
  <1>7. ASSUME NEW i \in Calls, ChildStep(i) PROVE SourceInv'
    <2>1. /\ This' = This /\ UNCHANGED <<printed, buffer>> /\ i <= This
          /\ \A j \in Calls : child'[j].copy \in {<<>>, child[j].copy}
          /\ \/ UNCHANGED written
             \/ Put(child[i].out, child[i].copy)
             \/ Put(child[i].out, <<Output(i)>>)
      BY <1>0, <1>7 DEF ChildStep, This
    <2>2. Printed(buffer', printed') /\ \A j \in Calls : Printed(child'[j].copy, printed')
      BY <1>1, <2>1
    <2>3. CASE UNCHANGED written
      BY <2>1, <2>2, <2>3 DEF SourceInv
    <2>4. CASE Put(child[i].out, child[i].copy)
      <3>1. Printed(child[i].copy, printed) /\ child[i].copy \in Seq(Text)
        BY <1>1, <1>2
      <3> QED
        BY <1>0, <2>1, <2>2, <2>4, <3>1, PutKeepsSource DEF SourceInv
    <2>5. CASE Put(child[i].out, <<Output(i)>>)
      <3> DEFINE t == <<Output(i)>>
                 p == child[i].out
      <3>1. t \in Seq(Text) /\ p \in Places /\ Put(p, t)
        BY <1>0, <2>5 DEF Text, Output
      <3>2. \E j \in Calls : j <= This /\ t = <<Output(j)>>
        BY <2>1
      <3> HIDE DEF t, p
      <3>3. \A q \in Places :
              /\ \A n \in 1 .. MaxLines : In(written'[q], Line(n)) => n <= printed'
              /\ \A j \in Calls : In(written'[q], Output(j)) => j <= This'
        <4>1. /\ This' >= This /\ This' \in Nat /\ printed' = printed
              /\ Printed(t, printed) \/ \E j \in Calls : j <= This /\ t = <<Output(j)>>
          BY <1>0, <2>1, <3>2
        <4> QED
          BY <1>0, <3>1, <4>1, PutKeepsSource
      <3> QED
        BY <2>2, <3>3 DEF SourceInv
    <2> QED
      BY <2>1, <2>3, <2>4, <2>5
  <1> QED
    BY <1>3, <1>4, <1>5, <1>6, <1>7


\* When standard output grows, what precedes an output still does, and new outputs
\* of do_exec come after what was printed before the call.
LEMMA StdoutGrows ==
  ASSUME ProcessInv, SourceInv, FlushInv, NEW t \in Seq(Text),
         written'["stdout"] = written["stdout"] \o t,
         This' \in Nat, This' >= This, This' <= MaxCalls,
         \A i \in 1 .. This : /\ calls'[i].fn = calls[i].fn
                              /\ calls'[i].printed = calls[i].printed,
         \A i \in Calls : In(t, Output(i)) => i <= This,
         \A i \in 1 .. This' : i > This /\ calls'[i].fn = "do_exec" =>
           \A n \in 1 .. calls'[i].printed : In(written'["stdout"], Line(n)),
         \A n \in 1 .. printed' : In(written'["stdout"], Line(n)) \/ In(buffer', Line(n))
  PROVE  FlushInv'
  <1> DEFINE w == written["stdout"]
             v == written'["stdout"]
  <1>0. /\ This \in Nat /\ w \in Seq(Text) /\ "stdout" \in Places /\ MaxCalls \in Nat
        /\ \A i \in 1 .. This' : i \in Calls
    BY TypesAre DEF ProcessInv, Calls
  <1>1. /\ v = w \o t
        /\ \A i \in Calls : In(w, Output(i)) => i <= This
        /\ \A i \in 1 .. This : calls[i].fn = "do_exec" =>
             \A n \in 1 .. calls[i].printed : In(w, Line(n))
    BY <1>0 DEF SourceInv, FlushInv
  <1>2. \A i \in 1 .. This, k \in 1 .. Len(w) :
          calls[i].fn = "do_exec" /\ w[k] = Output(i) =>
            \A n \in 1 .. calls[i].printed : \E j \in 1 .. k - 1 : w[j] = Line(n)
    BY DEF FlushInv, TextBeforeOutput, This, Output, Line
  <1> HIDE DEF w, v
  <1>3. /\ Len(v) = Len(w) + Len(t) /\ Len(w) \in Nat /\ Len(t) \in Nat
        /\ \A k \in 1 .. Len(w) : v[k] = w[k]
        /\ \A k \in 1 .. Len(t) : v[Len(w) + k] = t[k]
        /\ \A x : In(v, x) <=> In(w, x) \/ In(t, x)
    <2>1. Len(w) \in Nat /\ Len(t) \in Nat
      BY <1>0
    <2> QED
      BY <1>0, <1>1, <2>1, InConcat
  <1>4. \A i \in 1 .. This' : calls'[i].fn = "do_exec" =>
          \A n \in 1 .. calls'[i].printed : In(v, Line(n))
    <2>1. \A i \in 1 .. This' : i \in 1 .. This \/ i > This
      BY <1>0
    <2>2. \A i \in 1 .. This : calls'[i].fn = "do_exec" =>
            \A n \in 1 .. calls'[i].printed : In(v, Line(n))
      BY <1>1, <1>3
    <2>3. \A i \in 1 .. This' : i > This /\ calls'[i].fn = "do_exec" =>
            \A n \in 1 .. calls'[i].printed : In(v, Line(n))
      BY DEF v
    <2> QED
      BY <2>1, <2>2, <2>3
  <1>5. ASSUME NEW i \in 1 .. This', NEW k \in 1 .. Len(v),
               calls'[i].fn = "do_exec", v[k] = Output(i),
               NEW n \in 1 .. calls'[i].printed
        PROVE  \E j \in 1 .. k - 1 : v[j] = Line(n)
    <2>1. i \in Calls
      BY <1>0
    <2>2. CASE k \in 1 .. Len(w)
      <3>1. w[k] = Output(i)
        BY <1>3, <1>5, <2>2
      <3>2. i \in 1 .. This
        BY <1>0, <1>1, <2>1, <2>2, <3>1 DEF In
      <3>3. PICK j \in 1 .. k - 1 : w[j] = Line(n)
        BY <1>2, <1>5, <2>2, <3>1, <3>2
      <3>4. j \in 1 .. Len(w)
        BY <1>3, <2>2
      <3> QED
        BY <1>3, <3>3, <3>4
    <2>3. CASE k \notin 1 .. Len(w)
      <3>1. k - Len(w) \in 1 .. Len(t) /\ Len(w) + (k - Len(w)) = k
        BY <1>3, <2>3
      <3>2. t[k - Len(w)] = Output(i)
        BY <1>3, <1>5, <3>1
      <3>3. i \in 1 .. This
        BY <1>0, <2>1, <3>1, <3>2 DEF In
      <3>4. In(w, Line(n))
        BY <1>1, <1>5, <3>3
      <3>5. PICK j \in 1 .. Len(w) : w[j] = Line(n)
        BY <3>4 DEF In
      <3>6. j \in 1 .. k - 1
        BY <1>3, <2>3
      <3> QED
        BY <1>3, <3>5, <3>6
    <2> QED
      BY <2>2, <2>3
  <1>6. TextBeforeOutput'
    BY <1>5 DEF TextBeforeOutput, This, v, Output, Line
  <1> QED
    BY <1>4, <1>6 DEF FlushInv, v

\* The five steps keep FlushInv.
LEMMA NextKeepsFlushInv ==
  ASSUME ProcessInv, ProcessInv', SourceInv, FlushInv,
         \/ PrintStep \/ CallStep \/ ForkStep \/ ReturnStep
         \/ \E i \in Calls : ChildStep(i)
  PROVE  FlushInv'
  <1> DEFINE w == written["stdout"]
  <1>0. /\ printed \in Nat /\ This \in Nat /\ Calls \subseteq Nat
        /\ MaxLines \in Nat /\ buffer \in Seq(Text)
        /\ written \in [Places -> Seq(Text)] /\ SystemCallsTypeOK
        /\ "stdout" \in Places /\ OutputFiles \subseteq Places
        /\ \A i \in Calls : child[i].out \in Places /\ child[i].copy \in Seq(Text)
        /\ <<>> \in Seq(Text) /\ w \in Seq(Text)
    <2>1. SystemCallsTypeOK
      BY DEF ProcessInv
    <2>2. /\ child \in [Calls -> ChildType] /\ written \in [Places -> Seq(Text)]
          /\ "stdout" \in Places
      BY <2>1, TypesAre
    <2>3. \A i \in Calls : child[i].out \in Places /\ child[i].copy \in Seq(Text)
      BY <2>2 DEF ChildType
    <2>4. w \in Seq(Text) /\ <<>> \in Seq(Text)
      BY <2>2
    <2> QED
      BY <2>1, <2>3, <2>4, TypesAre DEF Calls
  <1>1. This' \in Nat /\ This' <= MaxCalls
    <2>1. SystemCallsTypeOK'
      BY DEF ProcessInv
    <2> QED
      BY <2>1 DEF SystemCallsTypeOK, This
  <1>2. \A n \in 1 .. printed : In(w, Line(n)) \/ In(buffer, Line(n))
    BY DEF FlushInv
  <1>3. w \o <<>> = w /\ \A i : ~In(<<>>, Output(i))
    BY <1>0, InEmpty
  <1>4. /\ \A i : ~In(buffer, Output(i))
        /\ \A j \in Calls : \A i : ~In(child[j].copy, Output(i))
    <2>1. printed <= printed
      BY <1>0
    <2> QED
      BY <1>0, <2>1, PrintedStays DEF SourceInv
  <1> HIDE DEF w
  <1>5. ASSUME UNCHANGED printed, SameCalls,
               written'["stdout"] = w, UNCHANGED buffer
        PROVE  FlushInv'
    <2>1. /\ This' >= This /\ \A i \in 1 .. This' : ~(i > This)
      BY <1>0, <1>5 DEF SameCalls
    <2>2. /\ \A n \in 1 .. printed' : In(written'["stdout"], Line(n)) \/ In(buffer', Line(n))
          /\ written'["stdout"] = written["stdout"] \o <<>>
      BY <1>2, <1>3, <1>5 DEF w
    <2> QED
      BY <1>0, <1>1, <1>3, <1>5, <2>1, <2>2, StdoutGrows DEF SameCalls
  <1>6. CASE PrintStep
    <2>1. /\ This' = This /\ calls' = calls /\ written'["stdout"] = w
          /\ This' >= This /\ \A i \in 1 .. This' : ~(i > This)
      BY <1>0, <1>6 DEF PrintStep, This, w
    <2> DEFINE x == Line(printed + 1)
    <2>2. /\ printed' = printed + 1 /\ buffer' = Append(buffer, x) /\ x \in Text
      BY <1>0, <1>6, TextDiffers DEF PrintStep
    <2> HIDE DEF x
    <2>3. \A y : In(buffer', y) <=> In(buffer, y) \/ y = x
      <3>1. /\ <<x>> \in Seq(Text) /\ \A y : In(<<x>>, y) <=> y = x
            /\ buffer' = buffer \o <<x>>
        BY <1>0, <2>2, InOne
      <3> DEFINE t == <<x>>
      <3> HIDE DEF t
      <3>2. \A y : In(buffer \o t, y) <=> In(buffer, y) \/ In(t, y)
        BY <1>0, <3>1, InConcat DEF t
      <3> QED
        BY <3>1, <3>2 DEF t
    <2>4. \A n \in 1 .. printed' : In(w, Line(n)) \/ In(buffer', Line(n))
      <3>1. \A n \in 1 .. printed' : n \in 1 .. printed \/ Line(n) = x
        BY <1>0, <2>2 DEF x
      <3> QED
        BY <1>2, <2>3, <3>1
    <2>5. written'["stdout"] = written["stdout"] \o <<>>
      BY <1>3, <2>1 DEF w
    <2> QED
      BY <1>0, <1>1, <1>3, <2>1, <2>4, <2>5, StdoutGrows
  <1>7. CASE CallStep
    <2>1. /\ This' = This + 1 /\ This' >= This /\ UNCHANGED printed
          /\ \A i \in 1 .. This : calls'[i] = calls[i]
          /\ calls'[This + 1].printed = printed
          /\ \A i \in 1 .. This' : i > This => i = This + 1
      BY <1>0, <1>7 DEF CallStep, MadeCall
    <2>2. CASE calls'[This + 1].fn # "do_exec"
      <3>1. written'["stdout"] = w /\ UNCHANGED buffer
        BY <1>0, <1>7, <2>2, SystemCallsAssumption DEF CallStep, w
      <3>2. /\ \A n \in 1 .. printed' : In(written'["stdout"], Line(n)) \/ In(buffer', Line(n))
            /\ written'["stdout"] = written["stdout"] \o <<>>
        BY <1>2, <1>3, <2>1, <3>1 DEF w
      <3> QED
        BY <1>0, <1>1, <1>3, <2>1, <2>2, <3>2, StdoutGrows
    <2>3. CASE calls'[This + 1].fn = "do_exec"
      <3>1. Put("stdout", buffer)
        BY <1>7, <2>3 DEF CallStep
      <3>2. /\ written'["stdout"] = written["stdout"] \o buffer
            /\ \A x : In(written'["stdout"], x) <=> In(w, x) \/ In(buffer, x)
        BY <1>0, <3>1, PutFacts DEF w
      <3>3. \A n \in 1 .. printed : In(written'["stdout"], Line(n))
        BY <1>2, <3>2
      <3> QED
        BY <1>0, <1>1, <1>4, <2>1, <3>2, <3>3, StdoutGrows
    <2> QED
      BY <2>2, <2>3
  <1>8. CASE ForkStep
    BY <1>5, <1>8 DEF ForkStep, w
  <1>9. CASE ReturnStep
    BY <1>5, <1>9 DEF ReturnStep, w
  <1>10. ASSUME NEW i \in Calls, ChildStep(i) PROVE FlushInv'
    <2> DEFINE o == child[i].out
    <2>1. /\ SameCalls /\ This' >= This /\ i <= This
          /\ \A j \in 1 .. This' : ~(j > This)
          /\ UNCHANGED <<printed, buffer>>
          /\ \/ UNCHANGED written
             \/ Put(o, child[i].copy)
             \/ Put(o, <<Output(i)>>)
      BY <1>0, <1>10 DEF ChildStep, SameCalls, This
    <2>2. ASSUME NEW t \in Seq(Text), Put(o, t),
                 \A j \in Calls : In(t, Output(j)) => j <= This
          PROVE  FlushInv'
      <3>1. CASE o = "stdout"
        <4>1. /\ written'["stdout"] = written["stdout"] \o t
              /\ \A x : In(written'["stdout"], x) <=> In(w, x) \/ In(t, x)
          BY <1>0, <2>2, <3>1, PutFacts DEF w
        <4>2. \A n \in 1 .. printed' :
                In(written'["stdout"], Line(n)) \/ In(buffer', Line(n))
          BY <1>2, <2>1, <4>1
        <4> QED
          BY <1>1, <2>1, <2>2, <4>1, <4>2, StdoutGrows DEF SameCalls
      <3>2. CASE o # "stdout"
        <4>1. o \in Places
          BY <1>0
        <4>2. written'["stdout"] = w
          BY <1>0, <2>2, <3>2, <4>1, PutFacts DEF w
        <4> QED
          BY <1>5, <2>1, <4>2
      <3> QED
        BY <3>1, <3>2
    <2>3. CASE UNCHANGED written
      BY <1>5, <2>1, <2>3 DEF w
    <2>4. CASE Put(o, child[i].copy)
      BY <1>0, <1>4, <2>2, <2>4
    <2>5. CASE Put(o, <<Output(i)>>)
      <3> DEFINE t == <<Output(i)>>
      <3>1. Output(i) \in Text
        BY DEF Text, Output
      <3>2. t \in Seq(Text) /\ \A j \in Calls : In(t, Output(j)) => j <= This
        BY <2>1, <3>1, InOne, TextDiffers
      <3> HIDE DEF t
      <3> QED
        BY <2>2, <2>5, <3>2 DEF t
    <2> QED
      BY <2>1, <2>3, <2>4, <2>5
  <1> QED
    BY <1>6, <1>7, <1>8, <1>9, <1>10


\* The children of the earlier calls have been collected.
Collected == \A i \in 1 .. This - 1 : child[i].state \in {"none", "reaped"}

\* The output of do_exec_redirect is not on standard output; if no earlier child is
\* at work the file is empty until the command ends, and then holds its output.
PlaceInv ==
  /\ \A i \in 1 .. This :
       calls[i].fn = "do_exec_redirect" => ~In(written["stdout"], Output(i))
  /\ This >= 1 /\ calls[This].fn = "do_exec_redirect" /\ Collected =>
       /\ step = "fork" \/ child[This].state \in {"redirect", "exec", "running"} =>
            written[calls[This].file] = <<>>
       /\ child[This].status = "exited_0" =>
            written[calls[This].file] = <<Output(This)>>

\* The five steps keep PlaceInv.
LEMMA NextKeepsPlaceInv ==
  ASSUME ProcessInv, SourceInv, PlaceInv,
         \/ PrintStep \/ CallStep \/ ForkStep \/ ReturnStep
         \/ \E i \in Calls : ChildStep(i)
  PROVE  PlaceInv'
  <1>0. /\ SystemCallsTypeOK /\ This \in Nat
        /\ Calls \subseteq Nat /\ written \in [Places -> Seq(Text)]
        /\ "stdout" \in Places /\ OutputFiles \subseteq Places /\ buffer \in Seq(Text)
        /\ child \in [Calls -> ChildType] /\ \A i \in 1 .. This : i \in Calls
        /\ "stdout" \notin OutputFiles
    BY TypesAre, SystemCallsAssumption DEF Calls, ProcessInv
  <1>1. \A i \in Calls : child[i].out \in Places /\ child[i].copy \in Seq(Text)
    BY <1>0 DEF ChildType
  <1>2. /\ \A i : ~In(buffer, Output(i))
        /\ \A j \in Calls : \A i : ~In(child[j].copy, Output(i))
    <2>1. printed \in Nat /\ printed <= printed /\ MaxLines \in Nat
      BY <1>0, TypesAre
    <2> QED
      BY <2>1, PrintedStays DEF SourceInv
  <1>3. CASE PrintStep
    BY <1>3 DEF PrintStep, PlaceInv, Collected, This
  <1>4. CASE CallStep
    <2>1. /\ This' = This + 1 /\ This + 1 \in Calls /\ child' = child
          /\ \A i \in 1 .. This : calls'[i] = calls[i]
          /\ \A i \in 1 .. This' : i \in 1 .. This \/ i = This + 1
          /\ child[This + 1] = NoChild
      BY <1>0, <1>4 DEF CallStep, MadeCall, ProcessInv
    <2>2. \A i : In(written'["stdout"], Output(i)) => In(written["stdout"], Output(i))
      <3>1. CASE Put("stdout", buffer)
        BY <1>0, <1>2, <3>1, PutFacts
      <3>2. CASE ~Put("stdout", buffer)
        BY <1>0, <1>4, <3>2 DEF CallStep
      <3> QED
        BY <3>1, <3>2
    <2>3. ~In(written["stdout"], Output(This + 1))
      BY <1>0, <2>1 DEF SourceInv
    <2>4. \A i \in 1 .. This' :
            calls'[i].fn = "do_exec_redirect" => ~In(written'["stdout"], Output(i))
      BY <2>1, <2>2, <2>3 DEF PlaceInv
    <2>5. child'[This'].state = "none" /\ child'[This'].status = "none"
      BY <2>1 DEF NoChild
    <2>6. calls'[This'].fn = "do_exec_redirect" /\ step' = "fork" =>
            written'[calls'[This'].file] = <<>>
      BY <1>0, <1>4, <2>1 DEF CallStep
    <2> QED
      BY <2>4, <2>5, <2>6 DEF PlaceInv
  <1>5. CASE ForkStep
    <2>1. /\ This' = This /\ This \in Calls /\ step = "fork" /\ step' = "wait"
          /\ \A i \in 1 .. This : calls'[i].fn = calls[i].fn /\ calls'[i].file = calls[i].file
          /\ \A j \in 1 .. This - 1 : child'[j] = child[j]
          /\ child'[This].status = "none" /\ written' = written
      BY <1>0, <1>5 DEF ForkStep, SameCalls
    <2>2. Collected' <=> Collected
      BY <2>1 DEF Collected
    <2>3. This \in 1 .. This
      BY <1>0, <2>1 DEF Calls
    <2> QED
      BY <2>1, <2>2, <2>3 DEF PlaceInv
  <1>6. CASE ReturnStep
    <2>1. /\ This' = This /\ This \in Calls /\ step' = "returned"
          /\ \A i \in 1 .. This : calls'[i].fn = calls[i].fn /\ calls'[i].file = calls[i].file
          /\ \A j \in 1 .. This - 1 : child'[j] = child[j]
          /\ child'[This].status = child[This].status
          /\ child'[This].state \in {child[This].state, "reaped"}
          /\ written' = written
      BY <1>0, <1>6 DEF ReturnStep, SameCalls
    <2>2. Collected' <=> Collected
      BY <2>1 DEF Collected
    <2>3. This \in 1 .. This
      BY <1>0, <2>1 DEF Calls
    <2> QED
      BY <2>1, <2>2, <2>3 DEF PlaceInv
  <1>7. ASSUME NEW i \in Calls, ChildStep(i) PROVE PlaceInv'
    <2> DEFINE o == child[i].out
               t == <<Output(i)>>
    <2>1. /\ This' = This /\ UNCHANGED <<calls, step>> /\ i \in 1 .. This
          /\ \A j \in Calls : j # i => child'[j] = child[j]
          /\ child[i].state \in {"redirect", "exec", "running"}
          /\ child'[i].state \in {"exec", "running", "ended"}
      BY <1>7 DEF ChildStep, This
    <2>2. Fits(child[i], calls[i])
      BY <2>1 DEF ProcessInv
    <2>3. /\ t \in Seq(Text) /\ \A j : In(t, Output(j)) => j = i
      <3>1. Output(i) \in Text
        BY DEF Output, Text
      <3> QED
        BY <3>1, InOne, TextDiffers
    <2>4. o \in Places /\ child[i].copy \in Seq(Text)
      BY <1>1
    <2> HIDE DEF o, t
    <2>5. \/ UNCHANGED written
          \/ Put(o, child[i].copy)
          \/ Put(o, t) /\ child[i].state = "running"
      BY <1>7 DEF ChildStep, o, t
    <2>6. \A j \in 1 .. This :
            calls'[j].fn = "do_exec_redirect" => ~In(written'["stdout"], Output(j))
      <3>1. CASE UNCHANGED written
        BY <2>1, <3>1 DEF PlaceInv
      <3>2. CASE Put(o, child[i].copy)
        <4>1. \A j : In(written'["stdout"], Output(j)) => In(written["stdout"], Output(j))
          BY <1>0, <1>2, <2>4, <3>2, PutFacts
        <4> QED
          BY <2>1, <4>1 DEF PlaceInv
      <3>3. CASE Put(o, t) /\ child[i].state = "running"
        <4>1. calls[i].fn = "do_exec_redirect" => o # "stdout"
          BY <1>0, <2>2, <3>3 DEF Fits, o
        <4>2. \A j : In(written'["stdout"], Output(j)) =>
                In(written["stdout"], Output(j)) \/ (o = "stdout" /\ j = i)
          BY <1>0, <2>3, <2>4, <3>3, PutFacts
        <4> QED
          BY <2>1, <4>1, <4>2 DEF PlaceInv
      <3> QED
        BY <2>5, <3>1, <3>2, <3>3
    <2>7. CASE i # This
      <3>1. i \in 1 .. This - 1
        BY <1>0, <2>1, <2>7
      <3>2. ~Collected'
        BY <2>1, <3>1 DEF Collected
      <3> QED
        BY <2>1, <2>6, <3>2 DEF PlaceInv
    <2>8. CASE i = This
      <3>1. Collected' <=> Collected
        BY <1>0, <2>1, <2>8 DEF Collected
      <3>2. step # "fork"
        BY <2>1, <2>8 DEF ProcessInv, NoChild
      <3>3. ASSUME calls[i].fn = "do_exec_redirect", Collected
            PROVE  /\ child'[i].state \in {"redirect", "exec", "running"} =>
                        written'[calls[i].file] = <<>>
                   /\ child'[i].status = "exited_0" => written'[calls[i].file] = t
        <4>1. written[calls[i].file] = <<>>
          BY <1>0, <2>1, <2>8, <3>3 DEF PlaceInv
        <4>2. CASE child'[i].state \in {"exec", "running"}
          BY <1>7, <4>1, <4>2 DEF ChildStep
        <4>3. CASE child'[i].state = "ended" /\ child[i].state = "running"
          <5>1. o = calls[i].file
            BY <2>2, <3>3, <4>3 DEF Fits, o
          <5>2. child'[i].status = "exited_0" => Put(o, t)
            BY <1>7, <4>3 DEF ChildStep, o, t
          <5>3. <<>> \o t = t
            BY <2>3
          <5>4. Put(o, t) => written'[o] = written[o] \o t
            BY <1>0, <2>3, <2>4, PutFacts
          <5> QED
            BY <4>1, <4>3, <5>1, <5>2, <5>3, <5>4
        <4>4. CASE child'[i].state = "ended" /\ child[i].state # "running"
          BY <1>7, <4>4 DEF ChildStep
        <4> QED
          BY <2>1, <4>2, <4>3, <4>4
      <3> QED
        BY <2>1, <2>6, <2>8, <3>1, <3>2, <3>3 DEF PlaceInv, t
    <2> QED
      BY <2>7, <2>8
  <1> QED
    BY <1>3, <1>4, <1>5, <1>6, <1>7


\* The calls whose child called exit(1) with its copy of the buffer.
Failed == {i \in 1 .. This : calls[i].fn = "do_exec_redirect" /\ child[i].status = "exited_1"}

\* A line that is still in the buffer has only been written by children that failed.
CopiesInv ==
  \A n \in 1 .. MaxLines :
    /\ IsFiniteSet(CopiesOf(n))
    /\ Cardinality(CopiesOf(n)) <=
         Cardinality(Failed) + (IF In(buffer, Line(n)) THEN 0 ELSE 1)

\* Where a line has been written.
LEMMA CopiesAre ==
  ASSUME SystemCallsTypeOK, NEW n
  PROVE  \A at : at \in CopiesOf(n) <=>
           \E p \in Places : \E k \in 1 .. Len(written[p]) :
             at = <<p, k>> /\ written[p][k] = Line(n)
  <1>1. \A p \in Places : DOMAIN written[p] = 1 .. Len(written[p])
    BY TypesAre
  <1>2. \A at : at \in CopiesOf(n) <=> \E p \in Places : at \in {p} \X CopiesIn(p, n)
    BY DEF CopiesOf
  <1>3. \A p \in Places : \A at : at \in {p} \X CopiesIn(p, n) <=>
          \E k \in 1 .. Len(written[p]) : at = <<p, k>> /\ written[p][k] = Line(n)
    BY <1>1 DEF CopiesIn, Line
  <1> QED
    BY <1>2, <1>3

\* The same after a step.
LEMMA NextCopiesAre ==
  ASSUME SystemCallsTypeOK', NEW n
  PROVE  \A at : at \in CopiesOf(n)' <=>
           \E p \in Places : \E k \in 1 .. Len(written'[p]) :
             at = <<p, k>> /\ written'[p][k] = Line(n)
  <1>1. \A p \in Places : DOMAIN written'[p] = 1 .. Len(written'[p])
    BY DEF SystemCallsTypeOK
  <1> DEFINE C(p) == {k \in DOMAIN written'[p] : written'[p][k] = <<"line", n>>}
  <1>2. \A at : at \in CopiesOf(n)' <=> \E p \in Places : at \in {p} \X C(p)
    BY DEF CopiesOf, CopiesIn
  <1>3. \A p \in Places : \A at : at \in {p} \X C(p) <=>
          \E k \in 1 .. Len(written'[p]) : at = <<p, k>> /\ written'[p][k] = Line(n)
    BY <1>1 DEF Line
  <1> QED
    BY <1>2, <1>3

\* One text, in which no line is twice, adds at most one copy of a line.
LEMMA PutAddsOneCopy ==
  ASSUME SystemCallsTypeOK, SystemCallsTypeOK', NEW p \in Places, NEW t \in Seq(Text),
         Put(p, t), Distinct(t), NEW n
  PROVE  /\ \E x : CopiesOf(n)' \subseteq CopiesOf(n) \cup {x}
         /\ ~In(t, Line(n)) => CopiesOf(n)' \subseteq CopiesOf(n)
  <1> DEFINE w == written[p]
             v == written'[p]
             L == Line(n)
  <1>1. /\ v = w \o t /\ w \in Seq(Text)
        /\ \A q \in Places : q # p => written'[q] = written[q]
    BY PutFacts
  <1>2. \A at : at \in CopiesOf(n) <=>
           \E q \in Places : \E k \in 1 .. Len(written[q]) :
             at = <<q, k>> /\ written[q][k] = L
    BY CopiesAre
  <1>3. \A at : at \in CopiesOf(n)' <=>
           \E q \in Places : \E k \in 1 .. Len(written'[q]) :
             at = <<q, k>> /\ written'[q][k] = L
    BY NextCopiesAre
  <1> HIDE DEF w, v, L
  <1>4. /\ Len(v) = Len(w) + Len(t) /\ Len(w) \in Nat /\ Len(t) \in Nat
        /\ \A k \in 1 .. Len(w) : v[k] = w[k]
        /\ \A k \in 1 .. Len(t) : v[Len(w) + k] = t[k]
    BY <1>1, InConcat
  <1>5. ASSUME NEW at \in CopiesOf(n)', at \notin CopiesOf(n)
        PROVE  \E j \in 1 .. Len(t) : at = <<p, Len(w) + j>> /\ t[j] = L
    <2>0. PICK q \in Places : \E k \in 1 .. Len(written'[q]) :
            at = <<q, k>> /\ written'[q][k] = L
      BY <1>3, <1>5
    <2>1. PICK k \in 1 .. Len(written'[q]) : at = <<q, k>> /\ written'[q][k] = L
      BY <2>0
    <2>2. q = p
      BY <1>1, <1>2, <1>5, <2>1
    <2>3. k \in 1 .. Len(v) /\ v[k] = L /\ at = <<p, k>>
      BY <2>1, <2>2 DEF v
    <2>4. k \notin 1 .. Len(w)
      BY <1>2, <1>4, <1>5, <2>3 DEF w
    <2>5. k - Len(w) \in 1 .. Len(t) /\ Len(w) + (k - Len(w)) = k
      BY <1>4, <2>3, <2>4
    <2>6. t[k - Len(w)] = L
      BY <1>4, <2>3, <2>5
    <2> QED
      BY <2>3, <2>5, <2>6
  <1>6. ~In(t, L) => CopiesOf(n)' \subseteq CopiesOf(n)
    BY <1>5 DEF In
  <1>7. CASE In(t, L)
    <2>1. PICK m \in 1 .. Len(t) : t[m] = L
      BY <1>7 DEF In
    <2>2. \A j \in 1 .. Len(t) : t[j] = L => j = m
      BY <2>1 DEF Distinct
    <2>3. CopiesOf(n)' \subseteq CopiesOf(n) \cup {<<p, Len(w) + m>>}
      BY <1>5, <2>2
    <2> QED
      BY <1>6, <2>3 DEF L
  <1> QED
    BY <1>6, <1>7 DEF L

\* How many elements a set has that is no larger, or larger by one element.
LEMMA OneMore ==
  ASSUME NEW S, IsFiniteSet(S), NEW T
  PROVE  /\ Cardinality(S) \in Nat
         /\ T \subseteq S =>
              /\ IsFiniteSet(T) /\ Cardinality(T) \in Nat
              /\ Cardinality(T) <= Cardinality(S)
         /\ \A x : T \subseteq S \cup {x} =>
              /\ IsFiniteSet(T) /\ Cardinality(T) \in Nat
              /\ Cardinality(T) <= Cardinality(S) + 1
  <1>1. Cardinality(S) \in Nat
    BY FS_CardinalityType
  <1>2. ASSUME T \subseteq S
        PROVE  /\ IsFiniteSet(T) /\ Cardinality(T) \in Nat
               /\ Cardinality(T) <= Cardinality(S)
    BY <1>2, FS_Subset, FS_CardinalityType
  <1>3. ASSUME NEW x, T \subseteq S \cup {x}
        PROVE  /\ IsFiniteSet(T) /\ Cardinality(T) \in Nat
               /\ Cardinality(T) <= Cardinality(S) + 1
    <2> DEFINE U == S \cup {x}
    <2>1. /\ IsFiniteSet(U)
          /\ Cardinality(U) = Cardinality(S) \/ Cardinality(U) = Cardinality(S) + 1
      BY FS_AddElement
    <2>2. T \subseteq U
      BY <1>3
    <2> HIDE DEF U
    <2>3. /\ IsFiniteSet(T) /\ Cardinality(T) \in Nat
          /\ Cardinality(T) <= Cardinality(U)
      BY <2>1, <2>2, FS_Subset, FS_CardinalityType
    <2> QED
      BY <1>1, <2>1, <2>3
  <1> QED
    BY <1>1, <1>2, <1>3


\* There are finitely many such calls.
LEMMA FailedIsFinite ==
  ASSUME This \in Nat
  PROVE  IsFiniteSet(Failed) /\ Cardinality(Failed) \in Nat
  <1>1. IsFiniteSet(1 .. This)
    BY FS_Interval
  <1>2. Failed \subseteq 1 .. This
    BY DEF Failed
  <1> HIDE DEF Failed
  <1> QED
    BY <1>1, <1>2, OneMore

\* The ways in which a step may add a copy.
LEMMA CopiesBound ==
  ASSUME CopiesInv, NEW n \in 1 .. MaxLines, This \in Nat,
         Cardinality(Failed') \in Nat, Cardinality(Failed') >= Cardinality(Failed),
         \/ /\ CopiesOf(n)' \subseteq CopiesOf(n)
            /\ In(buffer', Line(n)) => In(buffer, Line(n))
         \/ /\ \E x : CopiesOf(n)' \subseteq CopiesOf(n) \cup {x}
            /\ \/ In(buffer, Line(n)) /\ ~In(buffer', Line(n))
               \/ /\ Cardinality(Failed') = Cardinality(Failed) + 1
                  /\ UNCHANGED buffer
  PROVE  /\ IsFiniteSet(CopiesOf(n)')
         /\ Cardinality(CopiesOf(n)') <=
              Cardinality(Failed') + (IF In(buffer', Line(n)) THEN 0 ELSE 1)
  <1> DEFINE S == CopiesOf(n)
             T == CopiesOf(n)'
             f == Cardinality(Failed)
             g == Cardinality(Failed')
             b == In(buffer, Line(n))
             c == In(buffer', Line(n))
  <1>1. IsFiniteSet(S) /\ Cardinality(S) <= f + (IF b THEN 0 ELSE 1)
    BY DEF CopiesInv
  <1>2. f \in Nat /\ g \in Nat /\ g >= f
    BY FailedIsFinite
  <1>3. \/ T \subseteq S /\ (c => b)
        \/ /\ \E x : T \subseteq S \cup {x}
           /\ (b /\ ~c) \/ (g = f + 1 /\ (b <=> c))
    OBVIOUS
  <1> HIDE DEF S, T, f, g, b, c
  <1>4. Cardinality(S) \in Nat
    BY <1>1, OneMore
  <1>5. CASE T \subseteq S /\ (c => b)
    <2>1. IsFiniteSet(T) /\ Cardinality(T) \in Nat /\ Cardinality(T) <= Cardinality(S)
      BY <1>1, <1>5, OneMore
    <2>2. Cardinality(T) <= g + (IF c THEN 0 ELSE 1)
      BY <1>1, <1>2, <1>4, <1>5, <2>1
    <2> QED
      BY <2>1, <2>2 DEF T, g, c
  <1>6. CASE /\ \E x : T \subseteq S \cup {x}
             /\ (b /\ ~c) \/ (g = f + 1 /\ (b <=> c))
    <2>1. /\ IsFiniteSet(T) /\ Cardinality(T) \in Nat
          /\ Cardinality(T) <= Cardinality(S) + 1
      BY <1>1, <1>6, OneMore
    <2>2. Cardinality(T) <= g + (IF c THEN 0 ELSE 1)
      BY <1>1, <1>2, <1>4, <1>6, <2>1
    <2> QED
      BY <2>1, <2>2 DEF T, g, c
  <1> QED
    BY <1>3, <1>5, <1>6


\* The five steps keep CopiesInv.
LEMMA NextKeepsCopiesInv ==
  ASSUME ProcessInv, ProcessInv', SourceInv, CopiesInv,
         \/ PrintStep \/ CallStep \/ ForkStep \/ ReturnStep
         \/ \E i \in Calls : ChildStep(i)
  PROVE  CopiesInv'
  <1>0. /\ SystemCallsTypeOK /\ SystemCallsTypeOK' /\ This \in Nat /\ This' \in Nat
        /\ "stdout" \in Places /\ OutputFiles \subseteq Places
        /\ written \in [Places -> Seq(Text)] /\ child \in [Calls -> ChildType]
        /\ printed \in Nat /\ MaxLines \in Nat /\ \A i \in 1 .. This : i \in Calls
        /\ buffer \in Seq(Text)
    <2>1. SystemCallsTypeOK /\ SystemCallsTypeOK'
      BY DEF ProcessInv
    <2>2. This' \in Nat
      BY <2>1 DEF SystemCallsTypeOK, This
    <2> QED
      BY <2>1, <2>2, TypesAre
  <1>1. \A i \in Calls : child[i].out \in Places /\ child[i].copy \in Seq(Text)
    BY <1>0 DEF ChildType
  <1>2. /\ IsFiniteSet(Failed) /\ Cardinality(Failed) \in Nat
    BY <1>0, FailedIsFinite
  <1>3. /\ Distinct(buffer) /\ \A i \in Calls : Distinct(child[i].copy)
    BY DEF SourceInv, Printed
  <1>4. ASSUME NEW n, UNCHANGED written PROVE CopiesOf(n)' = CopiesOf(n)
    BY <1>4 DEF CopiesOf, CopiesIn
  <1>5. ASSUME Failed' = Failed,
               \A n \in 1 .. MaxLines :
                 \/ /\ CopiesOf(n)' \subseteq CopiesOf(n)
                    /\ In(buffer', Line(n)) => In(buffer, Line(n))
                 \/ /\ \E x : CopiesOf(n)' \subseteq CopiesOf(n) \cup {x}
                    /\ In(buffer, Line(n)) /\ ~In(buffer', Line(n))
        PROVE  CopiesInv'
    <2>1. Cardinality(Failed') \in Nat /\ Cardinality(Failed') >= Cardinality(Failed)
      BY <1>2, <1>5
    <2>2. \A n \in 1 .. MaxLines :
            /\ IsFiniteSet(CopiesOf(n)')
            /\ Cardinality(CopiesOf(n)') <=
                 Cardinality(Failed') + (IF In(buffer', Line(n)) THEN 0 ELSE 1)
      BY <1>0, <1>5, <2>1, CopiesBound
    <2> QED
      BY <2>2 DEF CopiesInv
  <1>6. CASE PrintStep
    <2>1. /\ This' = This /\ UNCHANGED <<calls, child, written>>
          /\ printed' = printed + 1 /\ buffer' = Append(buffer, Line(printed + 1))
          /\ printed + 1 \in 1 .. MaxLines
      BY <1>0, <1>6 DEF PrintStep, This
    <2>2. Failed' = Failed
      BY <2>1 DEF Failed
    <2>3. ASSUME NEW n \in 1 .. MaxLines
          PROVE  /\ IsFiniteSet(CopiesOf(n)')
                 /\ Cardinality(CopiesOf(n)') <=
                      Cardinality(Failed') + (IF In(buffer', Line(n)) THEN 0 ELSE 1)
      <3>1. CopiesOf(n)' = CopiesOf(n)
        BY <1>4, <2>1
      <3>2. CASE n = printed + 1
        <4>1. \A p \in Places : ~In(written[p], Line(n))
          BY <1>0, <3>2 DEF SourceInv
        <4>2. CopiesOf(n) = {}
          BY <1>0, <4>1, CopiesAre DEF In
        <4> QED
          BY <1>2, <2>2, <3>1, <4>2, FS_EmptySet
      <3>3. CASE n # printed + 1
        <4> DEFINE y == Line(printed + 1)
        <4>1. Line(n) # y /\ y \in Text
          BY <2>1, <3>3, TextDiffers
        <4>2. In(buffer', Line(n)) => In(buffer, Line(n))
          <5>1. buffer' = Append(buffer, y)
            BY <2>1
          <5> HIDE DEF y
          <5>2. /\ Len(buffer') = Len(buffer) + 1 /\ Len(buffer) \in Nat
                /\ \A k \in 1 .. Len(buffer) : buffer'[k] = buffer[k]
                /\ buffer'[Len(buffer) + 1] = y
            BY <1>0, <4>1, <5>1
          <5> QED
            BY <4>1, <5>2 DEF In
        <4>3. Cardinality(Failed') \in Nat /\ Cardinality(Failed') >= Cardinality(Failed)
          BY <1>2, <2>2
        <4> QED
          BY <1>0, <3>1, <4>2, <4>3, CopiesBound
      <3> QED
        BY <3>2, <3>3
    <2> QED
      BY <2>3 DEF CopiesInv
  <1>7. CASE CallStep
    <2>1. /\ This' = This + 1 /\ This + 1 \in Calls /\ child' = child
          /\ \A i \in 1 .. This : calls'[i] = calls[i]
          /\ \A i : i \in 1 .. This' <=> i \in 1 .. This \/ i = This + 1
          /\ child[This + 1] = NoChild
      BY <1>0, <1>7 DEF CallStep, MadeCall, ProcessInv
    <2>2. Failed' = Failed
      <3>1. child'[This + 1].status # "exited_1"
        BY <2>1 DEF NoChild
      <3> QED
        BY <2>1, <3>1 DEF Failed
    <2>3. CASE UNCHANGED written /\ UNCHANGED buffer
      BY <1>4, <1>5, <2>2, <2>3
    <2>4. CASE Put("stdout", buffer) /\ buffer' = <<>>
      <3>1. \A n : ~In(buffer', Line(n))
        BY <2>4, InEmpty
      <3>2. \A n : /\ \E x : CopiesOf(n)' \subseteq CopiesOf(n) \cup {x}
                   /\ ~In(buffer, Line(n)) => CopiesOf(n)' \subseteq CopiesOf(n)
        BY <1>0, <1>3, <2>4, PutAddsOneCopy
      <3> QED
        BY <1>5, <2>2, <3>1, <3>2
    <2>5. CASE /\ UNCHANGED buffer
               /\ \E file \in Places : written' = [written EXCEPT ![file] = <<>>]
      <3>1. \A p \in Places : written'[p] = written[p] \/ written'[p] = <<>>
        BY <1>0, <2>5
      <3>2. \A p \in Places : \A k \in 1 .. Len(written'[p]) :
              k \in 1 .. Len(written[p]) /\ written'[p][k] = written[p][k]
        BY <3>1, InEmpty
      <3>3. \A n : CopiesOf(n)' \subseteq CopiesOf(n)
        BY <1>0, <3>2, CopiesAre, NextCopiesAre, SMTT(30)
      <3> QED
        BY <1>5, <2>2, <2>5, <3>3
    <2> QED
      BY <1>0, <1>7, <2>3, <2>4, <2>5 DEF CallStep
  <1>8. CASE ForkStep \/ ReturnStep
    <2>1. /\ This' = This /\ UNCHANGED <<written, buffer>>
          /\ \A i \in 1 .. This : calls'[i].fn = calls[i].fn
          /\ \A i \in 1 .. This : (child'[i].status = "exited_1") <=> (child[i].status = "exited_1")
      <3>1. CASE ForkStep
        <4>1. child[This].status = "none"
          BY <3>1 DEF ForkStep, ProcessInv, NoChild
        <4> QED
          BY <1>0, <3>1, <4>1 DEF ForkStep, SameCalls
      <3>2. CASE ReturnStep
        BY <1>0, <3>2 DEF ReturnStep, SameCalls
      <3> QED
        BY <1>8, <3>1, <3>2
    <2>2. Failed' = Failed
      BY <2>1 DEF Failed
    <2> QED
      BY <1>4, <1>5, <2>1, <2>2
  <1>9. ASSUME NEW i \in Calls, ChildStep(i) PROVE CopiesInv'
    <2> DEFINE o == child[i].out
               c == child[i].copy
               t == <<Output(i)>>
    <2>1. /\ This' = This /\ UNCHANGED <<calls, buffer>> /\ i \in 1 .. This
          /\ \A j \in 1 .. This : j # i => child'[j] = child[j]
          /\ child[i].status = "none"
      BY <1>0, <1>9 DEF ChildStep, This
    <2>2. Fits(child[i], calls[i]) /\ o \in Places /\ c \in Seq(Text) /\ Distinct(c)
      BY <1>1, <1>3, <2>1 DEF ProcessInv
    <2>3. /\ t \in Seq(Text) /\ Distinct(t) /\ \A n : ~In(t, Line(n))
      <3>1. Output(i) \in Text
        BY DEF Output, Text
      <3>2. t \in Seq(Text) /\ Len(t) = 1 /\ \A x : In(t, x) <=> x = Output(i)
        BY <3>1, InOne
      <3> QED
        BY <3>2, TextDiffers DEF Distinct
    <2>4. \/ /\ Failed' = Failed
          \/ /\ Failed' = Failed \cup {i} /\ i \notin Failed
      BY <2>1 DEF Failed
    <2>5. Cardinality(Failed') \in Nat /\ Cardinality(Failed') >= Cardinality(Failed)
      <3>1. IsFiniteSet(Failed \cup {i}) /\ Cardinality(Failed \cup {i}) \in Nat
        BY <1>2, FS_AddElement, FS_CardinalityType
      <3>2. i \notin Failed => Cardinality(Failed \cup {i}) = Cardinality(Failed) + 1
        BY <1>2, FS_AddElement
      <3> QED
        BY <1>2, <2>4, <3>1, <3>2
    <2> HIDE DEF o, c, t
    <2>6. ASSUME \A n \in 1 .. MaxLines : CopiesOf(n)' \subseteq CopiesOf(n)
          PROVE  CopiesInv'
      <3>1. \A n \in 1 .. MaxLines :
              /\ IsFiniteSet(CopiesOf(n)')
              /\ Cardinality(CopiesOf(n)') <=
                   Cardinality(Failed') + (IF In(buffer', Line(n)) THEN 0 ELSE 1)
        BY <1>0, <2>1, <2>5, <2>6, CopiesBound
      <3> QED
        BY <3>1 DEF CopiesInv
    <2>7. CASE UNCHANGED written
      BY <1>4, <2>6, <2>7
    <2>8. CASE Put(o, t)
      BY <1>0, <2>2, <2>3, <2>6, <2>8, PutAddsOneCopy
    <2>9. CASE Put(o, c) /\ child'[i].status = "exited_1" /\ child[i].state \in {"redirect", "exec"}
      <3>1. CASE calls[i].fn = "do_exec"
        <4>1. c = <<>>
          BY <2>2, <3>1 DEF Fits, c
        <4>2. \A n : ~In(c, Line(n))
          BY <4>1, InEmpty
        <4> QED
          BY <1>0, <2>2, <2>6, <2>9, <4>2, PutAddsOneCopy
      <3>2. CASE calls[i].fn # "do_exec"
        <4>1. calls[i].fn = "do_exec_redirect"
          <5>1. calls[i] \in CallType
            BY <1>0, <2>1, TypesAre
          <5> QED
            BY <2>2, <2>9, <3>2, <5>1 DEF Fits, CallType
        <4>2. i \in Failed' /\ i \notin Failed
          BY <2>1, <2>9, <4>1 DEF Failed
        <4>3. Cardinality(Failed') = Cardinality(Failed) + 1
          BY <1>2, <2>4, <4>2, FS_AddElement
        <4>4. \A n : \E x : CopiesOf(n)' \subseteq CopiesOf(n) \cup {x}
          BY <1>0, <2>2, <2>9, PutAddsOneCopy
        <4>5. \A n \in 1 .. MaxLines :
                /\ IsFiniteSet(CopiesOf(n)')
                /\ Cardinality(CopiesOf(n)') <=
                     Cardinality(Failed') + (IF In(buffer', Line(n)) THEN 0 ELSE 1)
          BY <1>0, <2>1, <2>5, <4>3, <4>4, CopiesBound
        <4> QED
          BY <4>5 DEF CopiesInv
      <3> QED
        BY <3>1, <3>2
    <2> QED
      BY <1>9, <2>7, <2>8, <2>9 DEF ChildStep, o, c, t
  <1> QED
    BY <1>6, <1>7, <1>8, <1>9


\* All that is known of the text.
TextInv == ProcessInv /\ SourceInv /\ FlushInv /\ PlaceInv /\ CopiesInv

\* TextInv at the start.
LEMMA InitTextInv == SystemCallsInit => TextInv
  <1> SUFFICES ASSUME SystemCallsInit PROVE TextInv
    OBVIOUS
  <1>1. ProcessInv /\ SystemCallsTypeOK
    BY InitProcessInv DEF ProcessInv
  <1>2. /\ calls = <<>> /\ This = 0 /\ printed = 0 /\ buffer = <<>>
        /\ \A i \in Calls : child[i].copy = <<>>
        /\ \A p \in Places : written[p] = <<>>
        /\ "stdout" \in Places /\ MaxLines \in Nat /\ 0 <= 0
    BY SystemCallsAssumption DEF SystemCallsInit, This, NoChild, Places
  <1>3. Printed(<<>>, 0) /\ \A x : ~In(<<>>, x)
    BY <1>2, PrintedStays, InEmpty
  <1>4. SourceInv
    BY <1>2, <1>3 DEF SourceInv
  <1>5. FlushInv /\ PlaceInv
    BY <1>2, InEmpty DEF FlushInv, TextBeforeOutput, This, PlaceInv
  <1>6. Failed = {}
    BY <1>2 DEF Failed
  <1>7. \A n : CopiesOf(n) = {}
    BY <1>1, <1>2, InEmpty, CopiesAre
  <1>8. CopiesInv
    BY <1>6, <1>7, FS_EmptySet DEF CopiesInv
  <1> QED
    BY <1>1, <1>4, <1>5, <1>8 DEF TextInv

\* Every step keeps TextInv.
LEMMA NextKeepsTextInv ==
  TextInv /\ [SystemCallsNext]_SystemCallsVars => TextInv'
  <1> SUFFICES ASSUME TextInv, [SystemCallsNext]_SystemCallsVars PROVE TextInv'
    OBVIOUS
  <1>1. ProcessInv /\ SourceInv /\ FlushInv /\ PlaceInv /\ CopiesInv /\ ProcessInv'
    BY NextKeepsProcessInv DEF TextInv
  <1>2. CASE SystemCallsNext
    <2>1. \/ PrintStep \/ CallStep \/ ForkStep \/ ReturnStep
          \/ \E i \in Calls : ChildStep(i)
      BY <1>1, <1>2, Effects
    <2>2. SourceInv' /\ FlushInv' /\ PlaceInv' /\ CopiesInv'
      BY <1>1, <2>1, NextKeepsSourceInv, NextKeepsFlushInv, NextKeepsPlaceInv,
         NextKeepsCopiesInv
    <2> QED
      BY <1>1, <2>2 DEF TextInv
  <1>3. CASE UNCHANGED SystemCallsVars
    <2>1. UNCHANGED <<calls, step, child, printed, buffer, written>>
      BY <1>3 DEF SystemCallsVars
    <2>2. SourceInv' /\ FlushInv' /\ PlaceInv'
      <3>1. This' = This
        BY <2>1 DEF This
      <3>2. SourceInv'
        BY <1>1, <2>1, <3>1 DEF SourceInv
      <3>3. TextBeforeOutput'
        <4>1. TextBeforeOutput
          BY <1>1 DEF FlushInv
        <4>2. calls' = calls /\ written' = written
          BY <2>1
        <4>3. ASSUME NEW i \in 1 .. Len(calls), NEW k \in 1 .. Len(written["stdout"]),
                     calls[i].fn = "do_exec", written["stdout"][k] = <<"output", i>>,
                     NEW n \in 1 .. calls[i].printed
              PROVE  \E j \in 1 .. k - 1 : written["stdout"][j] = <<"line", n>>
          BY <4>1, <4>3 DEF TextBeforeOutput
        <4>4. ASSUME NEW i \in 1 .. Len(calls'), NEW k \in 1 .. Len(written'["stdout"]),
                     calls'[i].fn = "do_exec", written'["stdout"][k] = <<"output", i>>,
                     NEW n \in 1 .. calls'[i].printed
              PROVE  \E j \in 1 .. k - 1 : written'["stdout"][j] = <<"line", n>>
          BY <4>2, <4>3, <4>4
        <4> QED
          BY <4>4 DEF TextBeforeOutput
      <3>4. FlushInv'
        BY <1>1, <2>1, <3>1, <3>3 DEF FlushInv
      <3>5. Collected' <=> Collected
        BY <2>1, <3>1 DEF Collected
      <3>6. PlaceInv'
        BY <1>1, <2>1, <3>1, <3>5 DEF PlaceInv
      <3> QED
        BY <3>2, <3>4, <3>6
    <2>3. Failed' = Failed /\ \A n : CopiesOf(n)' = CopiesOf(n)
      BY <2>1 DEF Failed, This, CopiesOf, CopiesIn
    <2>4. CopiesInv'
      BY <1>1, <2>1, <2>3 DEF CopiesInv
    <2> QED
      BY <1>1, <2>2, <2>4 DEF TextInv
  <1> QED
    BY <1>2, <1>3

\* For any number of lines and calls: what the caller printed before do_exec comes
\* before the output of the command, because do_exec flushes before it forks.
THEOREM TextComesFirst == SystemCallsSpec => []TextBeforeOutput
  <1>1. TextInv => TextBeforeOutput
    BY DEF TextInv, FlushInv
  <1> QED
    BY <1>1, InitTextInv, NextKeepsTextInv, PTL DEF SystemCallsSpec

\* For any number of lines, calls and output files: a line is written once, and once
\* more at most for each child of do_exec_redirect that calls exit(1).
THEOREM TextIsNotRepeated == SystemCallsSpec => []TextWrittenOnce
  <1>1. ASSUME TextInv PROVE TextWrittenOnce
    <2>1. ASSUME NEW n \in 1 .. printed
          PROVE  Cardinality(CopiesOf(n)) <= 1 + Cardinality(Failed)
      <3>1. SystemCallsTypeOK /\ CopiesInv
        BY <1>1 DEF TextInv, ProcessInv
      <3>2. n \in 1 .. MaxLines /\ This \in Nat
        BY <3>1, TypesAre
      <3>3. /\ IsFiniteSet(CopiesOf(n))
            /\ Cardinality(CopiesOf(n)) <=
                 Cardinality(Failed) + (IF In(buffer, Line(n)) THEN 0 ELSE 1)
        BY <3>1, <3>2 DEF CopiesInv
      <3>4. Cardinality(CopiesOf(n)) \in Nat /\ Cardinality(Failed) \in Nat
        BY <3>2, <3>3, FS_CardinalityType, FailedIsFinite
      <3> QED
        BY <3>3, <3>4
    <2> QED
      BY <2>1 DEF TextWrittenOnce, Failed, This
  <1>2. TextInv => TextWrittenOnce
    BY <1>1
  <1> QED
    BY <1>2, InitTextInv, NextKeepsTextInv, PTL DEF SystemCallsSpec

\* For any number of calls and output files: no output of do_exec_redirect is on
\* standard output, and a call that succeeded has its output alone in the file, if
\* no child of an earlier call is still at work.
THEOREM OutputGoesWhereItShould == SystemCallsSpec => []OutputInPlace
  <1>1. ASSUME TextInv PROVE OutputInPlace
    <2>0. ProcessInv /\ PlaceInv /\ SystemCallsTypeOK /\ This \in Nat
      BY <1>1, TypesAre DEF TextInv, ProcessInv
    <2>1. \A i \in 1 .. Len(calls), k \in 1 .. Len(written["stdout"]) :
            written["stdout"][k] = <<"output", i>> => calls[i].fn # "do_exec_redirect"
      BY <2>0 DEF PlaceInv, This, In, Output
    <2>2. ASSUME calls # <<>>, step = "returned", calls[This].fn = "do_exec_redirect",
                 calls[This].result = "true",
                 \A i \in 1 .. This : child[i].state \in {"none", "reaped"}
          PROVE  written[calls[This].file] = <<<<"output", This>>>>
      <3>1. This >= 1
        BY <2>0, <2>2, TypesAre DEF This
      <3>2. This \in 1 .. This /\ Collected
        BY <2>0, <2>2, <3>1 DEF Collected
      <3>3. Fits(child[This], calls[This])
        BY <2>0, <3>2 DEF ProcessInv
      <3>4. child[This].state = "reaped"
        BY <2>0, <2>2, <3>2 DEF ProcessInv
      <3>5. child[This].status = "exited_0"
        BY <2>2, <3>3, <3>4 DEF Fits
      <3> QED
        BY <2>0, <2>2, <3>1, <3>2, <3>5 DEF PlaceInv, Output
    <2> QED
      BY <2>1, <2>2 DEF OutputInPlace
  <1>2. TextInv => OutputInPlace
    BY <1>1
  <1> QED
    BY <1>2, InitTextInv, NextKeepsTextInv, PTL DEF SystemCallsSpec


-----------------------------------------------------------------------------
(* Both libraries.                                                         *)

\* The types, for a program that uses either library.
THEOREM ExamplesTypes == Spec => []ExamplesTypeOK
  <1>1. Init => ThreadingInv /\ ProcessInv
    BY InitEstablishes, InitProcessInv DEF Init
  <1>2. ThreadingInv /\ ProcessInv /\ [Next]_Vars => ThreadingInv' /\ ProcessInv'
    <2>1. [Next]_Vars => /\ [ThreadingNext]_ThreadingVars
                         /\ [SystemCallsNext]_SystemCallsVars
      BY DEF Next, Vars
    <2> QED
      BY <2>1, NextKeeps, NextKeepsProcessInv
  <1>3. ThreadingInv /\ ProcessInv => ExamplesTypeOK
    BY DEF ThreadingInv, ProcessInv, ExamplesTypeOK
  <1> QED
    BY <1>1, <1>2, <1>3, PTL DEF Spec


\* A program of Examples is a program of each library, so that the theorems about
\* them hold of it.
LEMMA ExamplesKeepApart == Spec => ThreadingSpec /\ SystemCallsSpec
  <1>1. Init => ThreadingInit /\ SystemCallsInit
    BY DEF Init
  <1>2. [Next]_Vars => [ThreadingNext]_ThreadingVars /\ [SystemCallsNext]_SystemCallsVars
    BY DEF Next, Vars
  <1> QED
    BY <1>1, <1>2, PTL DEF Spec, ThreadingSpec, SystemCallsSpec

=============================================================================
