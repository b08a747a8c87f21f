-------------------------- MODULE AesdSocketProofs --------------------------
(***************************************************************************)
(* For every number of connections and of starts of the server.            *)
(*                                                                          *)
(* Whatever fails, and whatever the never assigned client_thread_node       *)
(* holds: the write of a packet and the read back of the device are one     *)
(* operation (FileInv), every variable keeps its type (TypeInv), and a      *)
(* client is sent a store that ends with its packet, unless the write of    *)
(* that failed (ReplyInv).                                                  *)
(*                                                                          *)
(* As long as the list of threads is kept (ListKept): no thread is          *)
(* forgotten, and the shutdown waits for all of them (ServeInv). In one     *)
(* start with commands to be found, file_mutex comes back (ReleaseInv).     *)
(***************************************************************************)
EXTENDS AesdSocket, TLAPS

FileInv == pc \in [Threads -> PCs] /\ FileMutexExclusion

\* A step that takes no thread to the device and leaves file_mutex alone.
LEMMA OtherStepKeepsFileInv ==
  ASSUME FileInv, pc' \in [Threads -> PCs], UNCHANGED file_mutex,
         \A c \in Conns : pc'[c] \in UsingFile => pc[c] \in UsingFile
  PROVE  FileInv'
  BY DEF FileInv, FileMutexExclusion

\* A step of the thread of c that owns file_mutex before or after.
LEMMA FileStepKeepsFileInv ==
  ASSUME FileInv, NEW c \in Conns, NEW where \in PCs, goto(c, where),
         \/ file_mutex = Nobody /\ file_mutex' = c
         \/ pc[c] \in UsingFile /\ file_mutex' = c
         \/ pc[c] \in UsingFile /\ where \notin UsingFile /\ file_mutex' = Nobody
  PROVE  FileInv'
  <1>1. /\ c \in Threads
        /\ pc' = [pc EXCEPT ![c] = where] /\ pc \in [Threads -> PCs]
    BY DEF FileInv, goto, Threads
  <1>2. pc' \in [Threads -> PCs]
    BY <1>1
  <1>3. ASSUME NEW d \in Conns, pc'[d] \in UsingFile PROVE file_mutex' = d
    <2>1. CASE d = c
      BY <1>1, <1>3, <2>1
    <2>2. CASE d # c
      <3>1. pc[d] \in UsingFile
        BY <1>1, <1>3, <2>2
      <3>2. file_mutex = d
        BY <3>1 DEF FileInv, FileMutexExclusion
      <3> QED
        BY <2>2, <3>2, AesdSocketAssumption DEF FileInv, FileMutexExclusion
    <2> QED
      BY <2>1, <2>2
  <1> QED
    BY <1>2, <1>3 DEF FileInv, FileMutexExclusion

\* Joining a thread moves no thread.
LEMMA JoinKeepsFileInv ==
  ASSUME FileInv, NEW p \in Threads, NEW c, Join(p, c)
  PROVE  FileInv'
  BY DEF Join, Crash, FileInv, FileMutexExclusion

\* Nor does a join of oneself that fails.
LEMMA ForgetSelfKeepsFileInv ==
  ASSUME FileInv, NEW p \in Threads, ForgetSelf(p)
  PROVE  FileInv'
  BY DEF ForgetSelf, FileInv, FileMutexExclusion

\* A thread that leaves the list goes on with something else than the device.
LEMMA UnlockListKeepsFileInv ==
  ASSUME FileInv, NEW p \in Threads, NEW where \in PCs \ UsingFile,
         UnlockList(p, where)
  PROVE  FileInv'
  BY OtherStepKeepsFileInv DEF UnlockList, goto, FileInv, Threads

\* Every step of the server preserves FileInv.
LEMMA NextKeepsFileInv == FileInv /\ [Next]_vars => FileInv'
  <1> SUFFICES ASSUME FileInv, [Next]_vars PROVE FileInv'
    OBVIOUS
  <1> USE DEF FileInv
  <1>1. CASE UNCHANGED vars
    BY <1>1 DEF vars, FileMutexExclusion
  <1>2. CASE MainStep
    <2>1. CASE MainLoop
      BY <2>1, OtherStepKeepsFileInv, AesdSocketAssumption
      DEF MainLoop, goto, Threads, PCs, UsingFile, Cleaning
    <2>2. CASE MainSleep
      BY <2>2, OtherStepKeepsFileInv, AesdSocketAssumption
      DEF MainSleep, goto, Threads, PCs, UsingFile, Cleaning
    <2>3. CASE MainStart
      BY <2>3, OtherStepKeepsFileInv, AesdSocketAssumption
      DEF MainStart, goto, Threads, PCs, UsingFile, Cleaning
    <2>4. CASE MainLink
      BY <2>4, OtherStepKeepsFileInv, AesdSocketAssumption
      DEF MainLink, goto, Threads, PCs, UsingFile, Cleaning
    <2>5. CASE Boot
      BY <2>5, OtherStepKeepsFileInv, AesdSocketAssumption
      DEF Boot, goto, Threads, PCs, UsingFile, Cleaning
    <2> QED
      BY <1>2, <2>1, <2>2, <2>3, <2>4, <2>5 DEF MainStep
  <1>3. CASE end_program_singal
    BY <1>3, OtherStepKeepsFileInv, AesdSocketAssumption
    DEF end_program_singal, Threads, PCs, UsingFile, Cleaning
  <1>4. ASSUME NEW p \in Threads, Cleanup(p) PROVE FileInv'
    <2>1. CASE LockList(p)
      BY <2>1, OtherStepKeepsFileInv
      DEF LockList, goto, Threads, PCs, UsingFile, Cleaning
    <2>2. CASE check_completed_threads(p)
      <3>1. AfterCheck(p) \in PCs \ UsingFile
        BY DEF AfterCheck, PCs, UsingFile, Cleaning
      <3> QED
        BY <2>2, <3>1, JoinKeepsFileInv, ForgetSelfKeepsFileInv,
           UnlockListKeepsFileInv
        DEF check_completed_threads
    <2>3. CASE clean_threads(p)
      <3>1. "unlink" \in PCs \ UsingFile
        BY DEF PCs, UsingFile, Cleaning
      <3> QED
        BY <2>3, <3>1, JoinKeepsFileInv, UnlockListKeepsFileInv DEF clean_threads
    <2>4. CASE CleanupStart(p)
      BY <2>4, OtherStepKeepsFileInv
      DEF CleanupStart, goto, Threads, PCs, UsingFile, Cleaning
    <2>5. CASE CleanupEnd(p)
      BY <2>5, OtherStepKeepsFileInv
      DEF CleanupEnd, AfterCleanup, goto, Threads, PCs, UsingFile, Cleaning
    <2> QED
      BY <1>4, <2>1, <2>2, <2>3, <2>4, <2>5 DEF Cleanup
  <1>5. ASSUME NEW c \in Conns, MainAccept(c) PROVE FileInv'
    BY <1>5, OtherStepKeepsFileInv, AesdSocketAssumption
    DEF MainAccept, goto, Threads, PCs, UsingFile, Cleaning
  <1>6. ASSUME NEW c \in Conns, Handle(c) PROVE FileInv'
    <2>1. CASE Start(c)
      BY <2>1, OtherStepKeepsFileInv
      DEF Start, goto, Threads, PCs, UsingFile, Cleaning
    <2>2. CASE OpenFile(c)
      BY <2>2, FileStepKeepsFileInv DEF OpenFile, PCs, UsingFile, Cleaning
    <2>3. CASE Flush(c)
      BY <2>3, FileStepKeepsFileInv DEF Flush, KeepFileMutex, PCs, UsingFile
    <2>4. CASE SeekFile(c)
      BY <2>4, FileStepKeepsFileInv DEF SeekFile, PCs, UsingFile
    <2>5. CASE Send(c)
      <3>1. CASE Crash
        BY <3>1 DEF Crash, FileMutexExclusion
      <3>2. CASE goto(c, "mark") /\ ReleaseFile
        BY <2>5, <3>2, FileStepKeepsFileInv DEF Send, ReleaseFile, PCs, UsingFile
      <3> QED
        BY <2>5, <3>1, <3>2 DEF Send
    <2>6. CASE set_thread_complete_success(c)
      BY <2>6, OtherStepKeepsFileInv
      DEF set_thread_complete_success, goto, Threads, PCs, UsingFile, Cleaning
    <2> QED
      BY <1>6, <2>1, <2>2, <2>3, <2>4, <2>5, <2>6 DEF Handle
  <1>7. ASSUME NEW c \in Conns, Receive(c) PROVE FileInv'
    BY <1>7, OtherStepKeepsFileInv
    DEF Receive, get_ioctl_command, goto, Threads, PCs, UsingFile, Cleaning
  <1>8. ASSUME NEW c \in Conns, HangUp(c) PROVE FileInv'
    BY <1>8 DEF HangUp, Crash, FileMutexExclusion
  <1>9. CASE SecondInstance
    BY <1>9, OtherStepKeepsFileInv DEF SecondInstance
  <1>10. CASE Restart
    <2>1. pc' \in [Threads -> PCs] /\ \A c \in Conns : pc'[c] \notin UsingFile
      BY <1>10, AesdSocketAssumption DEF Restart, Threads, PCs, UsingFile, Cleaning
    <2> QED
      BY <2>1 DEF FileMutexExclusion
  <1> QED
    BY <1>1, <1>2, <1>3, <1>4, <1>5, <1>6, <1>7, <1>8, <1>9, <1>10 DEF Next

\* No two threads are between the fopen and the last send of a reply, so that what
\* a client is sent is what the device held when its packet was written.
THEOREM FileMutexExcludes == Spec => []FileMutexExclusion
  <1>1. Init => FileInv
    BY AesdSocketAssumption
    DEF Init, FileInv, FileMutexExclusion, Threads, PCs, UsingFile, Cleaning
  <1>2. FileInv => FileMutexExclusion
    BY DEF FileInv
  <1> QED
    BY <1>1, <1>2, NextKeepsFileInv, PTL DEF Spec

-----------------------------------------------------------------------------
(* The types.                                                              *)

\* Types, who is at the device, and the connection main is about to link.
TypeInv ==
  /\ TypeOK
  /\ FileMutexExclusion
  /\ \A c \in Conns : pc[c] \in UsingFile => opened \in Stores
  /\ pc[Main] = "created" => new \in Conns
  /\ new # Null => pc[Main] \in {"accepted", "created"}


\* The list without one of its nodes is a list of nodes.
LEMMA UnlinkedType ==
  ASSUME list \in Seq(Conns), NEW c \in Range(list)
  PROVE  /\ PositionOf(c) \in 1..Len(list) /\ list[PositionOf(c)] = c
         /\ Unlinked(c) \in Seq(Conns)
  <1>1. PICK i \in DOMAIN list : list[i] = c
    BY DEF Range
  <1>2. PositionOf(c) \in DOMAIN list /\ list[PositionOf(c)] = c
    BY <1>1 DEF PositionOf
  <1> DEFINE k == PositionOf(c)
  <1> HIDE DEF k
  <1>3. k \in 1..Len(list)
    BY <1>2 DEF k
  <1>4. RemoveAt(list, k) \in Seq(Conns)
    BY <1>3 DEF RemoveAt
  <1> QED
    BY <1>2, <1>3, <1>4 DEF k, Unlinked

\* So is the list with a new node in it.
LEMMA InsertType ==
  ASSUME list \in Seq(Conns), NEW c \in Conns
  PROVE  Insert(c) \in Seq(Conns)
  <1>1. CASE last = Null
    BY <1>1 DEF Insert
  <1>2. CASE last # Null /\ last \in Range(list)
    <2> DEFINE k == PositionOf(last)
    <2> HIDE DEF k
    <2>1. k \in 1..Len(list)
      BY <1>2, UnlinkedType DEF k
    <2>2. InsertAt(list, k + 1, c) \in Seq(Conns)
      BY <2>1 DEF InsertAt
    <2> QED
      BY <1>2, <2>2 DEF k, Insert
  <1>3. CASE last # Null /\ last \notin Range(list)
    BY <1>3 DEF Insert
  <1> QED
    BY <1>1, <1>2, <1>3

\* A packet that reaches a store is the last of it.
LEMMA StoreFacts ==
  ASSUME TypeOK, NEW c \in Conns, opened \in Stores, Store(c)
  PROVE  /\ data' \in [Stores -> Seq(Packet)]
         /\ \A s \in Stores : \/ data'[s] = data[s]
                              \/ /\ s = opened
                                 /\ \E e \in Packet : /\ e.from = c
                                                      /\ data'[s] = Append(data[s], e)
         /\ data'[opened] # <<>> /\ Last(data'[opened]).from = c
  <1> DEFINE e == [from |-> c, cut |-> input[c].cut]
  <1>1. e \in Packet /\ e.from = c
    BY DEF TypeOK, Packet
  <1>2. data' = [data EXCEPT ![opened] = Append(@, e)]
    BY DEF Store
  <1>3. data \in [Stores -> Seq(Packet)]
    BY DEF TypeOK
  <1> HIDE DEF e
  <1>4. data'[opened] = Append(data[opened], e) /\ data[opened] \in Seq(Packet)
    BY <1>2, <1>3
  <1>5. \A s \in Stores \ {opened} : data'[s] = data[s]
    BY <1>2, <1>3
  <1>6. data' \in [Stores -> Seq(Packet)]
    BY <1>1, <1>2, <1>3
  <1>7. data'[opened] # <<>> /\ Last(data'[opened]) = e
    BY <1>1, <1>4 DEF Last
  <1> QED
    BY <1>1, <1>4, <1>5, <1>6, <1>7

\* The end of a sequence from its k-th element.
LEMMA EndFacts ==
  ASSUME NEW S, NEW s \in Seq(S), NEW k \in Nat \ {0}, k <= Len(s) \/ k = 1
  PROVE  /\ SubSeq(s, k, Len(s)) \in Seq(S)
         /\ \A i \in DOMAIN SubSeq(s, k, Len(s)) :
              \E j \in DOMAIN s : SubSeq(s, k, Len(s))[i] = s[j]
         /\ s # <<>> => /\ SubSeq(s, k, Len(s)) # <<>>
                        /\ Last(SubSeq(s, k, Len(s))) = Last(s)
  <1> DEFINE e == SubSeq(s, k, Len(s))
  <1>1. /\ e \in Seq(S) /\ Len(s) \in Nat /\ Len(e) = Len(s) - k + 1
        /\ \A i \in 1..(Len(s) - k + 1) : e[i] = s[k + i - 1]
    OBVIOUS
  <1> HIDE DEF e
  <1>2. \A i \in 1..(Len(s) - k + 1) : k + i - 1 \in 1..Len(s)
    BY <1>1
  <1>3. ASSUME NEW i \in DOMAIN e PROVE \E j \in DOMAIN s : e[i] = s[j]
    <2>1. i \in 1..(Len(s) - k + 1)
      BY <1>1
    <2>2. e[i] = s[k + i - 1]
      BY <1>1, <2>1
    <2>3. k + i - 1 \in 1..Len(s)
      BY <1>2, <2>1
    <2>4. DOMAIN s = 1..Len(s)
      OBVIOUS
    <2> QED
      BY <2>2, <2>3, <2>4
  <1>4. ASSUME s # <<>> PROVE e # <<>> /\ e[Len(e)] = s[Len(s)]
    <2>1. Len(s) # 0
      BY <1>4
    <2>2. Len(e) \in 1..(Len(s) - k + 1) /\ k + Len(e) - 1 = Len(s)
      BY <1>1, <2>1
    <2>3. e[Len(e)] = s[k + Len(e) - 1]
      BY <1>1, <2>2
    <2> QED
      BY <1>1, <2>2, <2>3
  <1> QED
    BY <1>1, <1>3, <1>4 DEF e, Last

\* What a store holds are packets that were written to it, up to the last of them.
LEMMA HeldFacts ==
  ASSUME TypeOK, NEW s \in Stores
  PROVE  /\ Held(s) \in Seq(Packet)
         /\ \A i \in DOMAIN Held(s) : \E j \in DOMAIN data[s] : Held(s)[i] = data[s][j]
         /\ data[s] # <<>> => Held(s) # <<>> /\ Last(Held(s)) = Last(data[s])
  <1> DEFINE n == Len(data[s])
             k == IF s = "device" /\ n > Capacity THEN n - Capacity + 1 ELSE 1
  <1>1. data[s] \in Seq(Packet) /\ n \in Nat
    BY DEF TypeOK
  <1>2. k \in Nat \ {0} /\ (k <= n \/ k = 1)
    BY <1>1, AesdSocketAssumption
  <1>3. Held(s) = SubSeq(data[s], k, Len(data[s]))
    BY DEF Held, HeldAfter
  <1> DEFINE log == data[s]
  <1> HIDE DEF k, log
  <1>4. log \in Seq(Packet) /\ (k <= Len(log) \/ k = 1)
    BY <1>1, <1>2 DEF log
  <1>5. /\ SubSeq(log, k, Len(log)) \in Seq(Packet)
        /\ \A i \in DOMAIN SubSeq(log, k, Len(log)) :
             \E j \in DOMAIN log : SubSeq(log, k, Len(log))[i] = log[j]
        /\ log # <<>> => /\ SubSeq(log, k, Len(log)) # <<>>
                         /\ Last(SubSeq(log, k, Len(log))) = Last(log)
    BY <1>2, <1>4, EndFacts
  <1> QED
    BY <1>3, <1>5 DEF log

\* Joining a thread keeps the types.
LEMMA JoinKeepsTypes ==
  ASSUME TypeOK, NEW p \in Threads, NEW c \in Range(list), Join(p, c)
  PROVE  TypeOK'
  <1>1. c \in Conns
    BY DEF TypeOK, Range
  <1>2. CASE Crash
    BY <1>2 DEF Crash, TypeOK, nodes, traffic, outside
  <1>3. CASE c # p /\ Joinable(c)
    <2>1. list' \in Seq(Conns)
      BY <1>3, UnlinkedType DEF Join, TypeOK
    <2>2. fd' \in [Conns -> {"none", "open", "closed"}] /\ complete' \subseteq Conns
      BY <1>1, <1>3 DEF Join, TypeOK
    <2> QED
      BY <1>3, <2>1, <2>2 DEF Join, TypeOK, traffic, outside
  <1> QED
    BY <1>2, <1>3 DEF Join

\* So does a failed join of oneself.
LEMMA ForgetSelfKeepsTypes ==
  ASSUME TypeOK, NEW p \in Range(list), ForgetSelf(p)
  PROVE  TypeOK'
  <1>1. list' \in Seq(Conns)
    BY UnlinkedType DEF ForgetSelf, TypeOK
  <1>2. complete' \subseteq Conns
    BY DEF ForgetSelf, TypeOK
  <1>3. fd' \in [Conns -> {"none", "open", "closed"}]
    BY DEF ForgetSelf, TypeOK
  <1> QED
    BY <1>1, <1>2, <1>3 DEF ForgetSelf, TypeOK, traffic, outside

\* The parts of TypeInv that depend on where the threads are.
Placed ==
  /\ \A c \in Conns : pc[c] \in UsingFile => opened \in Stores
  /\ pc[Main] = "created" => new \in Conns
  /\ new # Null => pc[Main] \in {"accepted", "created"}

\* A step of main keeps the types.
LEMMA MainKeepsTypeInv ==
  ASSUME TypeInv, FileInv',
         MainStep \/ end_program_singal \/ SecondInstance
           \/ \E c \in Conns : MainAccept(c)
  PROVE  TypeOK' /\ Placed'
  <1> USE AesdSocketAssumption
  <1>0. pc' \in [Threads -> PCs]
    BY DEF FileInv
  <1>1. CASE MainLoop
    BY <1>0, <1>1
    DEF TypeInv, TypeOK, Placed, MainLoop, goto, Threads, nodes, traffic, outside
  <1>2. CASE MainSleep
    BY <1>0, <1>2
    DEF TypeInv, TypeOK, Placed, MainSleep, goto, Threads, nodes, traffic, outside
  <1>3. CASE MainStart
    <2>0. tag' = tag \/ \E g \in Garbage : tag' = [tag EXCEPT ![new] = g]
      BY <1>3 DEF MainStart
    <2>1. tag' \in [Conns -> Conns \cup {Wild, Null}]
      <3>1. Garbage \subseteq Conns \cup {Wild, Null}
        OBVIOUS
      <3>2. tag \in [Conns -> Conns \cup {Wild, Null}]
        BY DEF TypeInv, TypeOK
      <3> QED
        BY <2>0, <3>1, <3>2
    <2>2. fd' \in [Conns -> {"none", "open", "closed"}]
      BY <1>3 DEF TypeInv, TypeOK, MainStart
    <2>3. new' \in Conns \cup {Null}
      BY <1>3 DEF TypeInv, TypeOK, MainStart
    <2>4. TypeOK'
      BY <1>0, <1>3, <2>1, <2>2, <2>3
      DEF TypeInv, TypeOK, MainStart, traffic, outside
    <2>5. pc'[Main] = "created" => new' \in Conns
      BY <1>3 DEF TypeInv, TypeOK, MainStart, goto, Threads
    <2>6. new' # Null => pc'[Main] \in {"accepted", "created"}
      BY <1>3 DEF TypeInv, TypeOK, MainStart, goto, Threads
    <2>7. \A c \in Conns : pc'[c] \in UsingFile => pc[c] \in UsingFile
      BY <1>3 DEF TypeInv, TypeOK, MainStart, goto, Threads, UsingFile
    <2> QED
      BY <1>3, <2>4, <2>5, <2>6, <2>7 DEF TypeInv, Placed, MainStart, outside
  <1>4. CASE MainLink
    <2>1. list' \in Seq(Conns)
      BY <1>4, InsertType DEF TypeInv, TypeOK, MainLink
    <2>2. /\ new \in Conns /\ new' = Null /\ opened' = opened
          /\ fd' = fd \/ fd' = [fd EXCEPT ![new] = "closed"]
          /\ last' \in {new, last}
          /\ UNCHANGED <<keep_running, crashed, file_mutex, list_mutex, complete,
                         tag, traffic, outside>>
      BY <1>4 DEF TypeInv, MainLink, outside
    <2>3. pc' \in {[pc EXCEPT ![Main] = "check"], [pc EXCEPT ![Main] = "loop"]}
      BY <1>4 DEF MainLink, goto
    <2>4. TypeOK'
      BY <1>0, <2>1, <2>2 DEF TypeInv, TypeOK, traffic, outside
    <2>5. Placed'
      BY <2>2, <2>3 DEF TypeInv, TypeOK, Placed, Threads
    <2> QED
      BY <2>4, <2>5
  <1>5. CASE Boot
    <2>1. TypeOK'
      BY <1>0, <1>5 DEF TypeInv, TypeOK, Boot, nodes, traffic
    <2>2. \E where \in {"loop", "exit", "cleanup"} : pc' = [pc EXCEPT ![Main] = where]
      BY <1>5 DEF Boot, goto
    <2>3. Placed'
      BY <1>5, <2>2 DEF TypeInv, TypeOK, Placed, Boot, Threads, nodes
    <2> QED
      BY <2>1, <2>3
  <1>6. CASE end_program_singal
    <2>1. TypeOK'
      BY <1>0, <1>6 DEF TypeInv, TypeOK, end_program_singal, nodes, traffic, outside
    <2>2. Placed'
      BY <1>6 DEF TypeInv, TypeOK, Placed, end_program_singal, Threads, nodes, outside
    <2> QED
      BY <2>1, <2>2
  <1>7. CASE SecondInstance
    BY <1>0, <1>7
    DEF TypeInv, TypeOK, Placed, SecondInstance, nodes, traffic
  <1>8. ASSUME NEW c \in Conns, MainAccept(c) PROVE TypeOK' /\ Placed'
    BY <1>0, <1>8
    DEF TypeInv, TypeOK, Placed, MainAccept, goto, Threads, traffic, outside
  <1> QED
    BY <1>1, <1>2, <1>3, <1>4, <1>5, <1>6, <1>7, <1>8 DEF MainStep

\* A step of cleanup keeps the types.
LEMMA CleanupKeepsTypeInv ==
  ASSUME TypeInv, FileInv', NEW p \in Threads, Cleanup(p)
  PROVE  TypeOK' /\ Placed'
  <1> USE AesdSocketAssumption
  <1>0. pc' \in [Threads -> PCs]
    BY DEF FileInv
  <1>1. CASE LockList(p)
    BY <1>0, <1>1
    DEF TypeInv, TypeOK, Placed, LockList, goto, Threads, nodes, traffic, outside,
        UsingFile
  <1>2. ASSUME NEW c \in Range(list), Join(p, c) PROVE TypeOK' /\ Placed'
    BY <1>2, JoinKeepsTypes
    DEF TypeInv, Placed, Join, Crash, nodes, traffic, outside
  <1>3. ASSUME p \in Range(list), ForgetSelf(p) PROVE TypeOK' /\ Placed'
    BY <1>3, ForgetSelfKeepsTypes DEF TypeInv, Placed, ForgetSelf, traffic, outside
  <1>4. ASSUME NEW where \in {"loop", "clean", "unlink"},
               pc[p] \in {"check_walk", "cleanup_walk", "clean_walk"},
               UnlockList(p, where)
        PROVE  TypeOK' /\ Placed'
    BY <1>0, <1>4
    DEF TypeInv, TypeOK, Placed, UnlockList, ReleaseList, goto, Threads, nodes,
        traffic, outside, UsingFile
  <1>5. CASE check_completed_threads(p)
    BY <1>2, <1>3, <1>4, <1>5 DEF check_completed_threads, NextMarked, AfterCheck
  <1>6. CASE clean_threads(p)
    <2>1. list # <<>> => Head(list) \in Range(list)
      <3>1. list \in Seq(Conns)
        BY DEF TypeInv, TypeOK
      <3> QED
        BY <3>1 DEF Range
    <2>2. ASSUME list # <<>>, Join(p, Head(list)) PROVE TypeOK' /\ Placed'
      BY <1>2, <2>1, <2>2
    <2> QED
      BY <1>4, <1>6, <2>2 DEF clean_threads, Remaining
  <1>7. CASE CleanupStart(p)
    BY <1>0, <1>7
    DEF TypeInv, TypeOK, Placed, CleanupStart, goto, Threads, nodes, traffic,
        outside, UsingFile
  <1>8. CASE CleanupEnd(p)
    BY <1>0, <1>8
    DEF TypeInv, TypeOK, Placed, CleanupEnd, AfterCleanup, goto, Threads, nodes,
        traffic, UsingFile
  <1> QED
    BY <1>1, <1>5, <1>6, <1>7, <1>8 DEF Cleanup

\* A step of the thread of a connection keeps the types.
LEMMA HandleKeepsTypeInv ==
  ASSUME TypeInv, FileInv', NEW c \in Conns, Handle(c) \/ Receive(c) \/ HangUp(c)
  PROVE  TypeOK' /\ Placed'
  <1> USE AesdSocketAssumption
  <1>0. pc' \in [Threads -> PCs]
    BY DEF FileInv
  <1>1. CASE Start(c)
    BY <1>0, <1>1
    DEF TypeInv, TypeOK, Placed, Start, goto, Threads, nodes, traffic, outside,
        UsingFile
  <1>2. CASE OpenFile(c)
    <2>0. <<>> \in Seq(Packet)
      OBVIOUS
    <2>1. data' \in [Stores -> Seq(Packet)]
      <3>1. data' = data \/ data' = [data EXCEPT !["file"] = <<>>]
        BY <1>2 DEF OpenFile
      <3> QED
        BY <2>0, <3>1 DEF TypeInv, TypeOK
    <2> QED
      BY <1>0, <1>2, <2>1
      DEF TypeInv, TypeOK, Placed, OpenFile, goto, Threads, nodes, UsingFile, Stores
  <1>3. CASE Flush(c)
    <2>1. opened \in Stores
      BY <1>3 DEF TypeInv, Flush, UsingFile
    <2>2. data' \in [Stores -> Seq(Packet)]
      BY <1>3, <2>1, StoreFacts DEF Flush, TypeInv, TypeOK
    <2> QED
      BY <1>0, <1>3, <2>1, <2>2
      DEF TypeInv, TypeOK, Placed, Flush, KeepFileMutex, goto, Threads, nodes,
          outside
  <1>4. CASE SeekFile(c)
    BY <1>0, <1>4
    DEF TypeInv, TypeOK, Placed, SeekFile, goto, Threads, nodes, traffic,
        UsingFile, Stores
  <1>5. CASE Send(c)
    <2>1. CASE Crash
      BY <2>1 DEF TypeInv, TypeOK, Placed, Crash, nodes, traffic, outside
    <2>2. CASE ~Crash
      <3>1. opened \in Stores /\ Held(opened) \in Seq(Packet)
        BY <1>5, HeldFacts DEF TypeInv, Send, UsingFile
      <3>2. input[c].write_cmd \in Nat
        BY DEF TypeInv, TypeOK
      <3>3. ReadBack(c) \in Seq(Packet) /\ <<>> \in Seq(Packet)
        BY <3>1, <3>2 DEF ReadBack
      <3> DEFINE R == [store : Stores, packets : Seq(Packet)]
                 r(packets) == [store |-> opened, packets |-> packets]
      <3>7. r(ReadBack(c)) \in R /\ r(<<>>) \in R
        BY <3>1, <3>3
      <3>8. reply' \in {[reply EXCEPT ![c] = r(ReadBack(c))], [reply EXCEPT ![c] = r(<<>>)]}
        BY <1>5, <2>2 DEF Send
      <3>9. reply \in [Conns -> R \cup {Null}]
        BY DEF TypeInv, TypeOK
      <3> HIDE DEF R, r
      <3>4. reply' \in [Conns -> R \cup {Null}]
        BY <3>7, <3>8, <3>9
      <3>10. data' \in [Stores -> Seq(Packet)]
        BY <1>5, <2>2, <3>1, StoreFacts DEF Send, TypeInv, TypeOK
      <3>5. \A d \in Conns : pc'[d] \notin UsingFile
        BY <1>5, <2>2
        DEF TypeInv, TypeOK, FileMutexExclusion, Send, goto, Threads, UsingFile
      <3>6. /\ pc'[Main] = pc[Main] /\ opened' \in Stores \cup {"none"}
            /\ file_mutex' \in Conns \cup {Nobody}
        BY <1>5, <2>2 DEF TypeInv, TypeOK, Send, ReleaseFile, goto, Threads
      <3>11. UNCHANGED <<keep_running, crashed, list_mutex, nodes, fd, input, listening,
                         node, starts>>
        BY <1>5, <2>2 DEF Send
      <3>12. TypeOK'
        BY <1>0, <3>4, <3>6, <3>10, <3>11
        DEF TypeInv, TypeOK, nodes, R
      <3> QED
        BY <1>0, <3>5, <3>6, <3>11, <3>12 DEF TypeInv, Placed, nodes
    <2> QED
      BY <2>1, <2>2
  <1>6. CASE set_thread_complete_success(c)
    <2>1. complete' \subseteq Conns
      BY <1>6 DEF TypeInv, TypeOK, set_thread_complete_success, MarkedBy, Range
    <2> QED
      BY <1>0, <1>6, <2>1
      DEF TypeInv, TypeOK, Placed, set_thread_complete_success, goto, Threads,
          traffic, outside, UsingFile
  <1>7. CASE Receive(c)
    <2>1. input' \in [Conns -> [kind : {"none", "packet", "seek"}, cut : BOOLEAN,
                                write_cmd : Nat, past : BOOLEAN]]
      <3> DEFINE I == [kind : {"none", "packet", "seek"}, cut : BOOLEAN,
                       write_cmd : Nat, past : BOOLEAN]
      <3>1. input \in [Conns -> I] /\ input[c] \in I
        BY DEF TypeInv, TypeOK
      <3>2. /\ [input[c] EXCEPT !.kind = "packet"] \in I
            /\ [input[c] EXCEPT !.cut = TRUE] \in I
            /\ \A n \in Seeks, past \in BOOLEAN :
                 [input[c] EXCEPT !.kind = "seek", !.write_cmd = n, !.past = past] \in I
        BY <3>1
      <3>3. \/ input' = [input EXCEPT ![c] = [input[c] EXCEPT !.kind = "packet"]]
            \/ input' = [input EXCEPT ![c] = [input[c] EXCEPT !.cut = TRUE]]
            \/ \E n \in Seeks, past \in BOOLEAN :
                 input' = [input EXCEPT ![c] = [input[c] EXCEPT
                             !.kind = "seek", !.write_cmd = n, !.past = past]]
            \/ input' = input
        <4>1. CASE get_ioctl_command(c)
          <5>1. ASSUME NEW n \in Seeks, NEW past \in BOOLEAN,
                       input' = [input EXCEPT ![c].kind = "seek", ![c].write_cmd = n,
                                              ![c].past = past]
                PROVE  input' = [input EXCEPT ![c] = [input[c] EXCEPT
                                   !.kind = "seek", !.write_cmd = n, !.past = past]]
            BY <3>1, <5>1
          <5> QED
            BY <4>1, <5>1 DEF get_ioctl_command
        <4>2. CASE ~get_ioctl_command(c)
          BY <1>7, <4>2 DEF Receive
        <4> QED
          BY <4>1, <4>2
      <3> HIDE DEF I
      <3>4. \E v \in I : input' = [input EXCEPT ![c] = v]
        BY <3>1, <3>2, <3>3
      <3>5. input' \in [Conns -> I]
        BY <3>1, <3>4
      <3> QED
        BY <3>5 DEF I
    <2>2. \E where \in {"packet", "seek", "mark", "recv"} : pc' = [pc EXCEPT ![c] = where]
      <3>1. get_ioctl_command(c) => goto(c, "seek") \/ goto(c, "mark")
        BY DEF get_ioctl_command
      <3>2. UNCHANGED pc => pc' = [pc EXCEPT ![c] = "recv"]
        BY <1>7 DEF Receive, TypeInv, TypeOK
      <3> QED
        BY <1>7, <3>1, <3>2 DEF Receive, goto
    <2>3. UNCHANGED <<keep_running, crashed, file_mutex, list_mutex, nodes, fd, data,
                      reply, outside>>
      BY <1>7 DEF Receive
    <2>4. Placed'
      BY <2>2, <2>3
      DEF TypeInv, TypeOK, Placed, Threads, nodes, outside, UsingFile
    <2> QED
      BY <1>0, <2>1, <2>3, <2>4 DEF TypeInv, TypeOK, nodes, outside
  <1>8. CASE HangUp(c)
    BY <1>8 DEF TypeInv, TypeOK, Placed, HangUp, Crash, nodes, traffic, outside
  <1> QED
    BY <1>1, <1>2, <1>3, <1>4, <1>5, <1>6, <1>7, <1>8 DEF Handle

\* Every step keeps the types.
LEMMA NextKeepsTypeInv == TypeInv /\ [Next]_vars => TypeInv'
  <1> SUFFICES ASSUME TypeInv, [Next]_vars PROVE TypeInv'
    OBVIOUS
  <1>0. FileInv'
    BY NextKeepsFileInv DEF TypeInv, TypeOK, FileInv
  <1> SUFFICES TypeOK' /\ Placed'
    BY <1>0 DEF TypeInv, Placed, FileInv
  <1>1. CASE UNCHANGED vars
    BY <1>1 DEF vars, TypeInv, TypeOK, Placed
  <1>2. CASE Restart
    <2>1. pc' \in [Threads -> PCs] /\ <<>> \in Seq(Conns)
      BY <1>0 DEF FileInv
    <2>2. starts' \in 1..MaxStarts
      BY <1>2, AesdSocketAssumption DEF Restart, TypeInv, TypeOK
    <2>3. /\ tag' \in [Conns -> Conns \cup {Wild, Null}]
          /\ fd' \in [Conns -> {"none", "open", "closed"}]
      BY <1>2 DEF Restart, TypeInv, TypeOK
    <2>4. TypeOK'
      BY <1>2, <2>1, <2>2, <2>3 DEF Restart, TypeInv, TypeOK, traffic
    <2> QED
      BY <1>2, <2>4, AesdSocketAssumption DEF Restart, Placed, Threads, UsingFile
  <1> QED
    BY <1>0, <1>1, <1>2, MainKeepsTypeInv, CleanupKeepsTypeInv, HandleKeepsTypeInv
    DEF Next

\* Any number of equal elements is a sequence.
LEMMA ConstantSeq ==
  ASSUME NEW S, NEW e \in S
  PROVE  [i \in 1..Earlier |-> e] \in Seq(S)
  BY AesdSocketAssumption

\* TypeInv at the start.
LEMMA InitTypeInv == Init => TypeInv
  <1> SUFFICES ASSUME Init PROVE TypeInv
    OBVIOUS
  <1> USE AesdSocketAssumption DEF Init
  <1>1. pc \in [Threads -> PCs]
    BY DEF PCs
  <1>2. list \in Seq(Conns) /\ data \in [Stores -> Seq(Packet)]
    <2>1. EarlierPackets \in Seq(Packet)
      <3>1. [from |-> Null, cut |-> FALSE] \in Packet
        BY DEF Packet
      <3> QED
        BY <3>1, ConstantSeq DEF EarlierPackets
    <2> QED
      BY <2>1 DEF Stores
  <1>3. input \in [Conns -> [kind : {"none", "packet", "seek"}, cut : BOOLEAN,
                             write_cmd : Nat, past : BOOLEAN]]
    BY DEF NoInput
  <1>4. TypeOK
    <2>1. /\ tag \in [Conns -> Conns \cup {Wild, Null}]
          /\ fd \in [Conns -> {"none", "open", "closed"}]
      OBVIOUS
    <2> DEFINE R == [store : Stores, packets : Seq(Packet)]
    <2>2. reply \in [Conns -> R \cup {Null}]
      OBVIOUS
    <2>3. starts \in 1..MaxStarts
      OBVIOUS
    <2> QED
      BY <1>1, <1>2, <1>3, <2>1, <2>2, <2>3 DEF TypeOK, Stores
  <1> QED
    BY <1>4 DEF TypeInv, FileMutexExclusion, Threads, UsingFile

\* Every variable of the server keeps its type, whatever fails.
THEOREM ServerTypes == Spec => []TypeOK
  <1>1. TypeInv => TypeOK
    BY DEF TypeInv
  <1> QED
    BY <1>1, InitTypeInv, NextKeepsTypeInv, PTL DEF Spec


-----------------------------------------------------------------------------
(* The replies.                                                            *)

\* No store has a packet of the client.
NotStored(c) == \A s \in Stores : \A i \in DOMAIN data[s] : data[s][i].from # c

\* A connection that no thread has served.
Fresh(c) ==
  pc[c] = "none" /\ input[c] = NoInput /\ reply[c] = Null /\ NotStored(c)

\* How far the conversation with a client is.
Conversation(c) ==
  /\ c = new => fd[c] # "none"
  /\ fd[c] = "none" \/ (c = new /\ pc[Main] = "accepted") => Fresh(c)
  /\ pc[c] \in {"start", "recv"} =>
       input[c].kind = "none" /\ reply[c] = Null /\ NotStored(c)
  /\ pc[c] \in {"packet", "flush"} => input[c].kind = "packet" /\ NotStored(c)
  /\ pc[c] = "seek" => input[c].kind = "seek"
  /\ input[c].kind # "seek" => input[c].write_cmd = 0
  /\ pc[c] = "send" /\ input[c].kind = "packet" =>
       \/ data[opened] # <<>> /\ Last(data[opened]).from = c
       \/ "nowrite" \in Faults /\ NotStored(c)

\* The packet of a client that is about to be answered is the last of its store,
\* or was refused, and a packet's reply starts at the first one.
Conversations ==
  /\ \A c \in Conns : Conversation(c)
  /\ ReplyEndsWithOwnPacket

ReplyInv == TypeInv /\ Conversations

\* What a step may do to the place of a thread when nothing is received, written
\* or sent.
Moves(c) ==
  /\ c = new' => fd'[c] # "none"
  /\ fd'[c] = "none" \/ (c = new' /\ pc'[Main] = "accepted") =>
       Fresh(c) /\ pc'[c] = "none"
  /\ pc'[c] \in {"start", "recv"} => pc[c] \in {"start", "recv"} \/ Fresh(c)
  /\ pc'[c] \in {"packet", "flush"} => pc[c] \in {"packet", "flush"}
  /\ pc'[c] = "seek" => pc[c] = "seek"
  /\ pc'[c] = "send" => pc[c] = "seek" \/ (pc[c] = "send" /\ UNCHANGED opened)

\* A step that only moves threads keeps the conversations.
LEMMA MovesKeepConversations ==
  ASSUME Conversations, UNCHANGED traffic, \A c \in Conns : Moves(c)
  PROVE  Conversations'
  <1>1. UNCHANGED <<input, data, reply>>
    BY DEF traffic
  <1>2. ASSUME NEW c \in Conns PROVE Conversation(c)'
    <2>1. Conversation(c) /\ Moves(c)
      BY DEF Conversations
    <2>2. /\ input' = input /\ reply' = reply /\ data' = data
      BY <1>1
    <2>3. NotStored(c)' <=> NotStored(c)
      BY <2>2 DEF NotStored
    <2> QED
      BY <2>1, <2>2, <2>3 DEF Conversation, Moves, Fresh, NoInput
  <1>3. ReplyEndsWithOwnPacket'
    BY <1>1 DEF Conversations, ReplyEndsWithOwnPacket, LacksOwnPacket, HeldAfter
  <1> QED
    BY <1>2, <1>3 DEF Conversations

\* The steps of main.
LEMMA MainKeepsConversations ==
  ASSUME ReplyInv,
         MainStep \/ end_program_singal \/ SecondInstance
           \/ \E c \in Conns : MainAccept(c)
  PROVE  Conversations'
  <1> USE AesdSocketAssumption
  <1>1. UNCHANGED traffic
    BY DEF MainStep, MainLoop, MainSleep, MainStart, MainLink, Boot, MainAccept,
           end_program_singal, SecondInstance
  <1>2. ASSUME NEW c \in Conns PROVE Moves(c)
    <2>1. /\ Conversation(c) /\ pc \in [Threads -> PCs]
          /\ new # Null => pc[Main] \in {"accepted", "created"}
          /\ pc[Main] = "created" => new \in Conns
          /\ fd \in [Conns -> {"none", "open", "closed"}]
          /\ new \in Conns \cup {Null}
      BY DEF ReplyInv, TypeInv, TypeOK, Conversations
    <2>2. CASE MainLoop
      BY <2>1, <2>2
      DEF Conversation, Moves, Fresh, MainLoop, goto, Threads, nodes, outside
    <2>3. CASE MainSleep
      BY <2>1, <2>3
      DEF Conversation, Moves, Fresh, MainSleep, goto, Threads, nodes, outside
    <2>4. CASE MainStart
      <3>0. pc[Main] = "accepted" /\ UNCHANGED opened /\ pc'[Main] # "accepted"
        BY <2>1, <2>4 DEF MainStart, goto, Threads, outside
      <3>1. fd'[c] = fd[c] \/ fd'[c] = "closed"
        BY <2>1, <2>4 DEF MainStart
      <3>2. pc'[c] = pc[c] \/ (c = new /\ new # Null /\ pc'[c] = "start")
        BY <2>1, <2>4 DEF MainStart, goto, Threads
      <3>3. c = new' => c = new /\ fd'[c] # "none"
        BY <2>1, <2>4 DEF MainStart, Conversation
      <3>4. CASE fd[c] # "none"
        BY <2>1, <3>0, <3>1, <3>2, <3>3, <3>4 DEF Conversation, Moves
      <3>5. CASE fd[c] = "none" /\ c # new
        BY <2>1, <3>0, <3>1, <3>2, <3>3, <3>5 DEF Conversation, Moves, Fresh
      <3> QED
        BY <2>1, <3>4, <3>5 DEF Conversation
    <2>5. CASE MainLink
      BY <2>1, <2>5
      DEF Conversation, Moves, Fresh, MainLink, goto, Threads, outside
    <2>6. CASE Boot
      BY <2>1, <2>6
      DEF Conversation, Moves, Fresh, Boot, goto, Threads, nodes
    <2>7. CASE end_program_singal
      BY <2>1, <2>7
      DEF Conversation, Moves, Fresh, end_program_singal, Threads, nodes, outside
    <2>8. CASE SecondInstance
      BY <2>1, <2>8
      DEF Conversation, Moves, Fresh, SecondInstance, nodes
    <2>9. ASSUME NEW d \in Conns, MainAccept(d) PROVE Moves(c)
      BY <2>1, <2>9
      DEF Conversation, Moves, Fresh, MainAccept, goto, Threads, outside
    <2> QED
      BY <2>2, <2>3, <2>4, <2>5, <2>6, <2>7, <2>8, <2>9 DEF MainStep
  <1> QED
    BY <1>1, <1>2, MovesKeepConversations DEF ReplyInv

\* The steps of cleanup.
LEMMA CleanupKeepsConversations ==
  ASSUME ReplyInv, NEW p \in Threads, Cleanup(p)
  PROVE  Conversations'
  <1> USE AesdSocketAssumption
  <1>1. UNCHANGED traffic
    BY DEF Cleanup, LockList, check_completed_threads, clean_threads, CleanupStart,
           CleanupEnd, Join, Crash, ForgetSelf, UnlockList
  <1>2. ASSUME NEW c \in Conns PROVE Moves(c)
    <2>1. /\ Conversation(c) /\ pc \in [Threads -> PCs]
          /\ new # Null => pc[Main] \in {"accepted", "created"}
          /\ fd \in [Conns -> {"none", "open", "closed"}]
          /\ new \in Conns \cup {Null}
      BY DEF ReplyInv, TypeInv, TypeOK, Conversations
    <2>2. CASE LockList(p)
      BY <2>1, <2>2
      DEF Conversation, Moves, Fresh, LockList, goto, Threads, nodes, outside
    <2>3. ASSUME NEW d, Join(p, d) PROVE Moves(c)
      BY <2>1, <2>3
      DEF Conversation, Moves, Fresh, Join, Crash, nodes, outside
    <2>4. CASE ForgetSelf(p)
      BY <2>1, <2>4
      DEF Conversation, Moves, Fresh, ForgetSelf, outside
    <2>5. ASSUME NEW where \in {"loop", "clean", "unlink"},
                 pc[p] \in {"check_walk", "cleanup_walk", "clean_walk"},
                 UnlockList(p, where)
          PROVE  Moves(c)
      BY <2>1, <2>5
      DEF Conversation, Moves, Fresh, UnlockList, goto, Threads, nodes, outside
    <2>6. CASE check_completed_threads(p)
      BY <2>3, <2>4, <2>5, <2>6 DEF check_completed_threads, AfterCheck
    <2>7. CASE clean_threads(p)
      BY <2>3, <2>5, <2>7 DEF clean_threads
    <2>8. CASE CleanupStart(p)
      BY <2>1, <2>8
      DEF Conversation, Moves, Fresh, CleanupStart, goto, Threads, nodes, outside
    <2>9. CASE CleanupEnd(p)
      BY <2>1, <2>9
      DEF Conversation, Moves, Fresh, CleanupEnd, AfterCleanup, goto, Threads, nodes
    <2> QED
      BY <2>2, <2>6, <2>7, <2>8, <2>9 DEF Cleanup
  <1> QED
    BY <1>1, <1>2, MovesKeepConversations DEF ReplyInv


\* What was in a log stays in it when it grows.
LEMMA AppendKeepsParts ==
  ASSUME NEW S, NEW s \in Seq(S), NEW e \in S, NEW k \in Nat \ {0}, NEW n \in 0..Len(s)
  PROVE  SubSeq(Append(s, e), k, n) = SubSeq(s, k, n)
  <1>1. /\ Append(s, e) \in Seq(S) /\ Len(Append(s, e)) = Len(s) + 1
        /\ \A i \in 1..Len(s) : Append(s, e)[i] = s[i]
    OBVIOUS
  <1>2. \A i \in 1..n - k + 1 : k + i - 1 \in 1..Len(s)
    OBVIOUS
  <1> QED
    BY <1>1, <1>2

\* What the device held before a packet reached a store, and whose packets were in
\* none of them, apart from its own client.
LEMMA StoreKeepsThePast ==
  ASSUME TypeOK, NEW c \in Conns, opened \in Stores, Store(c)
  PROVE  /\ \A n \in 0..Len(data["device"]) :
              /\ n \in 0..Len(data'["device"])
              /\ HeldAfter("device", n)' = HeldAfter("device", n)
         /\ \A d \in Conns : d # c /\ NotStored(d) => NotStored(d)'
  <1>1. /\ "device" \in Stores /\ data \in [Stores -> Seq(Packet)]
        /\ data' \in [Stores -> Seq(Packet)]
    BY StoreFacts DEF TypeOK, Stores
  <1>2. ASSUME NEW n \in 0..Len(data["device"])
        PROVE  /\ n \in 0..Len(data'["device"])
               /\ HeldAfter("device", n)' = HeldAfter("device", n)
    <2> DEFINE k == IF n > Capacity THEN n - Capacity + 1 ELSE 1
    <2>1. k \in Nat \ {0}
      BY <1>1, AesdSocketAssumption
    <2>2. /\ HeldAfter("device", n) = SubSeq(data["device"], k, n)
          /\ HeldAfter("device", n)' = SubSeq(data'["device"], k, n)
      BY DEF HeldAfter
    <2> HIDE DEF k
    <2>3. CASE data'["device"] = data["device"]
      BY <2>2, <2>3
    <2>4. ASSUME NEW e \in Packet, data'["device"] = Append(data["device"], e)
          PROVE  /\ n \in 0..Len(data'["device"])
                 /\ HeldAfter("device", n)' = HeldAfter("device", n)
      <3>1. data["device"] \in Seq(Packet) /\ n \in 0..Len(data["device"])
        BY <1>1
      <3>2. SubSeq(Append(data["device"], e), k, n) = SubSeq(data["device"], k, n)
        BY <2>1, <3>1, AppendKeepsParts
      <3>3. Len(data'["device"]) = Len(data["device"]) + 1
        BY <2>4, <3>1
      <3>4. n \in 0..Len(data'["device"])
        BY <3>1, <3>3
      <3>5. HeldAfter("device", n)' = HeldAfter("device", n)
        BY <2>2, <2>4, <3>2, Zenon
      <3> QED
        BY <3>4, <3>5
    <2> QED
      BY <1>1, <2>3, <2>4, StoreFacts
  <1>3. ASSUME NEW d \in Conns, d # c, NotStored(d) PROVE NotStored(d)'
    <2>1. ASSUME NEW s \in Stores, NEW i \in DOMAIN data'[s] PROVE data'[s][i].from # d
      <3>1. \A j \in DOMAIN data[s] : data[s][j].from # d
        BY <1>3 DEF NotStored
      <3>2. data[s] \in Seq(Packet)
        BY <1>1
      <3>3. CASE data'[s] = data[s]
        BY <2>1, <3>1, <3>3
      <3>4. ASSUME NEW e \in Packet, e.from = c, data'[s] = Append(data[s], e)
            PROVE  data'[s][i].from # d
        <4>1. i \in 1..Len(data[s]) + 1
          BY <2>1, <3>2, <3>4
        <4>2. data'[s][i] = IF i = Len(data[s]) + 1 THEN e ELSE data[s][i]
          BY <3>2, <3>4, <4>1
        <4> QED
          BY <1>3, <3>1, <3>2, <3>4, <4>1, <4>2
      <3> QED
        BY <3>3, <3>4, StoreFacts
    <2> QED
      BY <2>1 DEF NotStored
  <1> QED
    BY <1>2, <1>3

\* A reply that was right stays so while the device only takes packets.
LEMMA RepliesStayRight ==
  ASSUME NEW d \in Conns, Conversations, reply'[d] = reply[d], input'[d] = input[d],
         \/ data'["device"] = data["device"]
         \/ \A n \in 0..Len(data["device"]) :
              /\ n \in 0..Len(data'["device"])
              /\ HeldAfter("device", n)' = HeldAfter("device", n),
         reply[d] # Null, input[d].kind = "packet"
  PROVE  /\ \/ reply'[d].packets # <<>> /\ Last(reply'[d].packets).from = d
            \/ LacksOwnPacket(d)'
         /\ reply'[d].store = "device" =>
              \E n \in 0..Len(data'["device"]) :
                reply'[d].packets = HeldAfter("device", n)'
  <1>1. /\ \/ reply[d].packets # <<>> /\ Last(reply[d].packets).from = d
           \/ LacksOwnPacket(d)
        /\ reply[d].store = "device" =>
             \E n \in 0..Len(data["device"]) : reply[d].packets = HeldAfter("device", n)
    BY DEF Conversations, ReplyEndsWithOwnPacket
  <1>2. LacksOwnPacket(d)' <=> LacksOwnPacket(d)
    BY DEF LacksOwnPacket
  <1>3. CASE data'["device"] = data["device"]
    BY <1>1, <1>2, <1>3 DEF HeldAfter
  <1>4. CASE \A n \in 0..Len(data["device"]) :
               /\ n \in 0..Len(data'["device"])
               /\ HeldAfter("device", n)' = HeldAfter("device", n)
    BY <1>1, <1>2, <1>4
  <1> QED
    BY <1>3, <1>4


\* The steps of a thread that leave the traffic alone.
LEMMA ThreadMovesKeepConversations ==
  ASSUME ReplyInv, NEW c \in Conns,
         \/ Start(c) \/ SeekFile(c) \/ set_thread_complete_success(c) \/ HangUp(c)
         \/ pc[c] = "send" /\ Crash
  PROVE  Conversations'
  <1> USE AesdSocketAssumption
  <1>1. UNCHANGED traffic
    BY DEF Start, SeekFile, set_thread_complete_success, HangUp, Crash
  <1>2. ASSUME NEW d \in Conns PROVE Moves(d)
    <2>1. /\ Conversation(d) /\ pc \in [Threads -> PCs]
          /\ pc[d] \in UsingFile => file_mutex = d
      BY DEF ReplyInv, TypeInv, TypeOK, FileMutexExclusion, Conversations
    <2>2. CASE Start(c)
      BY <2>1, <2>2
      DEF Conversation, Moves, Fresh, Start, goto, Threads, nodes, outside
    <2>3. CASE SeekFile(c)
      BY <2>1, <2>3
      DEF Conversation, Moves, Fresh, SeekFile, goto, Threads, nodes, UsingFile
    <2>4. CASE set_thread_complete_success(c)
      BY <2>1, <2>4
      DEF Conversation, Moves, Fresh, set_thread_complete_success, goto, Threads,
          outside
    <2>5. CASE Crash
      BY <2>1, <2>5 DEF Conversation, Moves, Fresh, Crash, nodes, outside
    <2> QED
      BY <2>2, <2>3, <2>4, <2>5 DEF HangUp
  <1> QED
    BY <1>1, <1>2, MovesKeepConversations DEF ReplyInv

\* A client is answered once, after it has sent one packet or one command.
LEMMA ReceiveKeepsConversations ==
  ASSUME ReplyInv, NEW c \in Conns, Receive(c)
  PROVE  Conversations'
  <1> USE AesdSocketAssumption
  <1>1. /\ Conversation(c) /\ pc \in [Threads -> PCs]
        /\ input \in [Conns -> [kind : {"none", "packet", "seek"}, cut : BOOLEAN,
                                write_cmd : Nat, past : BOOLEAN]]
    BY DEF ReplyInv, TypeInv, TypeOK, Conversations
  <1>2. /\ pc[c] = "recv" /\ input[c].kind = "none" /\ reply[c] = Null
        /\ fd[c] # "none" /\ ~(c = new /\ pc[Main] = "accepted")
        /\ input[c].write_cmd = 0 /\ NotStored(c)
    BY <1>1 DEF Receive, Conversation, Fresh
  <1>3. UNCHANGED <<fd, new, reply, data, opened>> /\ pc'[Main] = pc[Main]
    BY <1>1 DEF Receive, get_ioctl_command, goto, Threads, nodes, outside
  <1>4. ASSUME NEW d \in Conns, d # c
        PROVE  pc'[d] = pc[d] /\ input'[d] = input[d]
    BY <1>1, <1>4 DEF Receive, get_ioctl_command, goto, Threads
  <1>5. \/ pc'[c] = "packet" /\ input'[c].kind = "packet" /\ input'[c].write_cmd = 0
        \/ pc'[c] = "seek" /\ input'[c].kind = "seek"
        \/ pc'[c] = "mark" /\ input'[c] = input[c]
        \/ pc'[c] = "recv" /\ input'[c].kind = "none" /\ input'[c].write_cmd = 0
    <2>1. c \in Threads
      BY DEF Threads
    <2>2. ASSUME input' = [input EXCEPT ![c].kind = "packet"], goto(c, "packet")
          PROVE  /\ pc'[c] = "packet"
                 /\ input'[c].kind = "packet" /\ input'[c].write_cmd = 0
      BY <1>1, <1>2, <2>1, <2>2 DEF goto
    <2>3. ASSUME get_ioctl_command(c)
          PROVE  \/ pc'[c] = "seek" /\ input'[c].kind = "seek"
                 \/ pc'[c] = "mark" /\ input'[c] = input[c]
      <3>1. CASE goto(c, "mark") /\ UNCHANGED input
        BY <1>1, <2>1, <3>1 DEF goto
      <3>2. ASSUME NEW n \in Seeks, NEW past \in BOOLEAN, goto(c, "seek"),
                   input' = [input EXCEPT ![c].kind = "seek", ![c].write_cmd = n,
                                          ![c].past = past]
            PROVE  pc'[c] = "seek" /\ input'[c].kind = "seek"
        <4>1. input'[c] = [input[c] EXCEPT !.kind = "seek", !.write_cmd = n, !.past = past]
          BY <1>1, <3>2
        <4> QED
          BY <1>1, <2>1, <3>2, <4>1 DEF goto
      <3> QED
        BY <2>3, <3>1, <3>2 DEF get_ioctl_command
    <2>4. ASSUME input' = [input EXCEPT ![c].cut = TRUE], UNCHANGED pc
          PROVE  /\ pc'[c] = "recv"
                 /\ input'[c].kind = "none" /\ input'[c].write_cmd = 0
      BY <1>1, <1>2, <2>4
    <2> QED
      BY <2>2, <2>3, <2>4 DEF Receive
  <1>6. \A d \in Conns : NotStored(d)' <=> NotStored(d)
    BY <1>3 DEF NotStored
  <1>7. Conversation(c)'
    BY <1>2, <1>3, <1>5, <1>6 DEF Conversation
  <1>8. ASSUME NEW d \in Conns, d # c PROVE Conversation(d)'
    <2>1. Conversation(d)
      BY DEF ReplyInv, Conversations
    <2> QED
      BY <1>3, <1>4, <1>8, <1>6, <2>1 DEF Conversation, Fresh
  <1>9. ReplyEndsWithOwnPacket'
    BY <1>2, <1>3, <1>4, RepliesStayRight DEF ReplyInv, ReplyEndsWithOwnPacket
  <1> QED
    BY <1>7, <1>8, <1>9 DEF Conversations

\* Opening the device writes nothing to it, and no other thread has it open.
LEMMA OpenFileKeepsConversations ==
  ASSUME ReplyInv, NEW c \in Conns, OpenFile(c)
  PROVE  Conversations'
  <1> USE AesdSocketAssumption
  <1>1. /\ pc \in [Threads -> PCs] /\ data \in [Stores -> Seq(Packet)]
        /\ \A d \in Conns : Conversation(d) /\ pc[d] \notin UsingFile
    BY DEF ReplyInv, TypeInv, TypeOK, Conversations, FileMutexExclusion, OpenFile
  <1>2. UNCHANGED <<fd, new, input, reply>> /\ pc'[Main] = pc[Main]
    BY <1>1 DEF OpenFile, goto, Threads, nodes
  <1>3. /\ pc[c] = "packet" /\ pc'[c] \in {"flush", "cleanup"}
        /\ \A d \in Conns : d # c => pc'[d] = pc[d]
    BY <1>1 DEF OpenFile, goto, Threads
  <1>4. data'["device"] = data["device"]
    BY <1>1 DEF OpenFile, Stores
  <1>5. ASSUME NEW d \in Conns, NotStored(d) PROVE NotStored(d)'
    <2>1. \A s \in Stores : data'[s] = data[s] \/ data'[s] = <<>>
      BY <1>1 DEF OpenFile, Stores
    <2> QED
      BY <1>5, <2>1 DEF NotStored
  <1>6. ASSUME NEW d \in Conns PROVE Conversation(d)'
    <2>1. Conversation(d) /\ pc[d] \notin UsingFile
      BY <1>1
    <2> QED
      BY <1>2, <1>3, <1>5, <2>1 DEF Conversation, Fresh, UsingFile
  <1>7. ReplyEndsWithOwnPacket'
    BY <1>2, <1>4, RepliesStayRight DEF ReplyInv, ReplyEndsWithOwnPacket
  <1> QED
    BY <1>6, <1>7 DEF Conversations

\* The packet is written after all that was sent before, or is not written.
LEMMA FlushKeepsConversations ==
  ASSUME ReplyInv, NEW c \in Conns, Flush(c)
  PROVE  Conversations'
  <1> USE AesdSocketAssumption
  <1>1. /\ pc \in [Threads -> PCs] /\ data \in [Stores -> Seq(Packet)]
        /\ pc[c] = "flush" /\ opened \in Stores
        /\ \A d \in Conns : Conversation(d) /\ (d # c => pc[d] \notin UsingFile)
    BY DEF ReplyInv, TypeInv, TypeOK, Conversations, FileMutexExclusion, Flush,
           UsingFile
  <1>2. UNCHANGED <<fd, new, input, reply, opened>> /\ pc'[Main] = pc[Main]
    BY <1>1 DEF Flush, goto, Threads, nodes, outside
  <1>3. /\ pc'[c] = "send" /\ \A d \in Conns : d # c => pc'[d] = pc[d]
    BY <1>1 DEF Flush, goto, Threads
  <1>4. \/ Store(c)
        \/ "nowrite" \in Faults /\ UNCHANGED data
    BY DEF Flush
  <1>5. NotStored(c)
    BY <1>1 DEF Conversation
  <1>6. \/ data'[opened] # <<>> /\ Last(data'[opened]).from = c
        \/ "nowrite" \in Faults /\ NotStored(c)'
    <2>1. CASE Store(c)
      BY <1>1, <2>1, StoreFacts DEF ReplyInv, TypeInv
    <2>2. CASE "nowrite" \in Faults /\ UNCHANGED data
      BY <1>5, <2>2 DEF NotStored
    <2> QED
      BY <1>4, <2>1, <2>2
  <1>7. \A d \in Conns : d # c /\ NotStored(d) => NotStored(d)'
    <2>1. CASE Store(c)
      BY <1>1, <2>1, StoreKeepsThePast DEF ReplyInv, TypeInv
    <2>2. CASE UNCHANGED data
      BY <2>2 DEF NotStored
    <2> QED
      BY <1>4, <2>1, <2>2
  <1>8. ASSUME NEW d \in Conns PROVE Conversation(d)'
    <2>1. Conversation(d) /\ (d # c => pc[d] \notin UsingFile)
      BY <1>1
    <2>2. CASE d = c
      BY <1>1, <1>2, <1>3, <1>6, <2>1, <2>2 DEF Conversation, Fresh
    <2>3. CASE d # c
      BY <1>2, <1>3, <1>7, <2>1, <2>3 DEF Conversation, Fresh, UsingFile
    <2> QED
      BY <2>2, <2>3
  <1>9. ReplyEndsWithOwnPacket'
    <2>1. \/ data'["device"] = data["device"]
          \/ \A n \in 0..Len(data["device"]) :
               /\ n \in 0..Len(data'["device"])
               /\ HeldAfter("device", n)' = HeldAfter("device", n)
      BY <1>1, <1>4, StoreKeepsThePast DEF ReplyInv, TypeInv
    <2> QED
      BY <1>2, <2>1, RepliesStayRight DEF ReplyInv, ReplyEndsWithOwnPacket
  <1> QED
    BY <1>8, <1>9 DEF Conversations

\* The reply to a packet is what its store holds, which ends with the packet; when
\* the write has failed, the packet is not in it.
LEMMA SendKeepsConversations ==
  ASSUME ReplyInv, NEW c \in Conns, Send(c)
  PROVE  Conversations'
  <1> USE AesdSocketAssumption
  <1>1. CASE Crash
    BY <1>1, ThreadMovesKeepConversations DEF Send
  <1>2. CASE ~Crash
    <2>1. /\ pc \in [Threads -> PCs] /\ data \in [Stores -> Seq(Packet)]
          /\ pc[c] = "send" /\ opened \in Stores
          /\ \A d \in Conns : Conversation(d) /\ (d # c => pc[d] \notin UsingFile)
      BY DEF ReplyInv, TypeInv, TypeOK, Conversations, FileMutexExclusion, Send,
             UsingFile
    <2>2. UNCHANGED <<fd, new, input>> /\ pc'[Main] = pc[Main]
      BY <1>2, <2>1 DEF Send, goto, Threads, nodes
    <2>3. pc'[c] = "mark" /\ \A d \in Conns : d # c => pc'[d] = pc[d]
      BY <1>2, <2>1 DEF Send, goto, Threads
    <2>4. UNCHANGED data \/ Store(c)
      BY <1>2 DEF Send
    <2>5. PICK packets \in {ReadBack(c), <<>>} :
            /\ packets = ReadBack(c) \/ Unwritten(c)
            /\ reply' = [reply EXCEPT ![c] = [store |-> opened, packets |-> packets]]
      BY <1>2 DEF Send
    <2>6. /\ reply'[c] = [store |-> opened, packets |-> packets]
          /\ \A d \in Conns : d # c => reply'[d] = reply[d]
      BY <2>5 DEF ReplyInv, TypeInv, TypeOK
    <2>7. ASSUME NEW d \in Conns PROVE Conversation(d)'
      <3>1. Conversation(d) /\ (d # c => pc[d] \notin UsingFile)
        BY <2>1
      <3>2. d # c /\ NotStored(d) => NotStored(d)'
        <4>1. CASE Store(c)
          BY <2>1, <4>1, StoreKeepsThePast DEF ReplyInv, TypeInv
        <4>2. CASE UNCHANGED data
          BY <4>2 DEF NotStored
        <4> QED
          BY <2>4, <4>1, <4>2
      <3>3. CASE d = c
        BY <2>1, <2>2, <2>3, <3>1, <3>3 DEF Conversation, Fresh
      <3>4. CASE d # c
        BY <2>2, <2>3, <2>6, <3>1, <3>2, <3>4 DEF Conversation, Fresh, UsingFile
      <3> QED
        BY <3>3, <3>4
    <2>8. \/ data'["device"] = data["device"]
          \/ \A n \in 0..Len(data["device"]) :
               /\ n \in 0..Len(data'["device"])
               /\ HeldAfter("device", n)' = HeldAfter("device", n)
      BY <2>1, <2>4, StoreKeepsThePast DEF ReplyInv, TypeInv
    <2>9. ASSUME input[c].kind = "packet"
          PROVE  /\ \/ packets # <<>> /\ Last(packets).from = c
                    \/ /\ "nowrite" \in Faults
                       /\ \A i \in DOMAIN packets : packets[i].from # c
                 /\ opened = "device" =>
                      \E n \in 0..Len(data["device"]) : packets = HeldAfter("device", n)
      <3>1. /\ input[c].write_cmd = 0
            /\ \/ data[opened] # <<>> /\ Last(data[opened]).from = c
               \/ "nowrite" \in Faults /\ NotStored(c)
        BY <2>1, <2>9 DEF Conversation
      <3>2. /\ Held(opened) \in Seq(Packet)
            /\ \A i \in DOMAIN Held(opened) :
                 \E j \in DOMAIN data[opened] : Held(opened)[i] = data[opened][j]
            /\ data[opened] # <<>> =>
                 Held(opened) # <<>> /\ Last(Held(opened)) = Last(data[opened])
        BY <2>1, HeldFacts DEF ReplyInv, TypeInv
      <3>3. ReadBack(c) = Held(opened)
        <4> DEFINE h == Held(opened)
        <4>1. SubSeq(h, 1, Len(h)) = h
          BY <3>2
        <4> QED
          BY <3>1, <4>1 DEF ReadBack
      <3>4. CASE packets = Held(opened)
        <4>1. opened = "device" => packets = HeldAfter("device", Len(data["device"]))
          BY <3>4 DEF Held
        <4>2. opened = "device" => Len(data["device"]) \in 0..Len(data["device"])
          BY <2>1
        <4>3. NotStored(c) => \A i \in DOMAIN packets : packets[i].from # c
          BY <2>1, <3>2, <3>4 DEF NotStored
        <4> QED
          BY <3>1, <3>2, <3>4, <4>1, <4>2, <4>3
      <3>5. CASE packets = <<>> /\ Unwritten(c)
        <4>1. "nowrite" \in Faults
          <5>1. ASSUME data[opened] # <<>>, Last(data[opened]).from = c PROVE FALSE
            <6>1. Len(data[opened]) \in DOMAIN data[opened]
              BY <2>1, <5>1
            <6> QED
              BY <3>5, <5>1, <6>1 DEF Unwritten, Last
          <5> QED
            BY <3>1, <5>1
        <4>2. HeldAfter("device", 0) = <<>>
          <5>1. ~(0 > Capacity)
            BY AesdSocketAssumption
          <5>2. HeldAfter("device", 0) = SubSeq(data["device"], 1, 0)
            BY <5>1 DEF HeldAfter
          <5> QED
            BY <2>1, <5>2 DEF Stores
        <4>3. 0 \in 0..Len(data["device"])
          BY <2>1 DEF Stores
        <4> QED
          BY <3>5, <4>1, <4>2, <4>3
      <3> QED
        BY <2>5, <3>3, <3>4, <3>5
    <2>10. ASSUME input[c].kind = "packet"
           PROVE  /\ \/ reply'[c].packets # <<>> /\ Last(reply'[c].packets).from = c
                     \/ LacksOwnPacket(c)'
                  /\ reply'[c].store = "device" =>
                       \E n \in 0..Len(data'["device"]) :
                         reply'[c].packets = HeldAfter("device", n)'
      <3>1. reply'[c].packets = packets /\ reply'[c].store = opened
        BY <2>6
      <3>2. \A n \in 0..Len(data["device"]) :
              /\ n \in 0..Len(data'["device"])
              /\ HeldAfter("device", n)' = HeldAfter("device", n)
        BY <2>8 DEF HeldAfter
      <3> QED
        BY <2>9, <2>10, <3>1, <3>2 DEF LacksOwnPacket
    <2>11. ASSUME NEW d \in Conns, d # c, reply'[d] # Null, input'[d].kind = "packet"
           PROVE  /\ \/ reply'[d].packets # <<>> /\ Last(reply'[d].packets).from = d
                     \/ LacksOwnPacket(d)'
                  /\ reply'[d].store = "device" =>
                       \E n \in 0..Len(data'["device"]) :
                         reply'[d].packets = HeldAfter("device", n)'
      BY <2>2, <2>6, <2>8, <2>11, RepliesStayRight DEF ReplyInv
    <2>12. ReplyEndsWithOwnPacket'
      BY <2>2, <2>10, <2>11 DEF ReplyEndsWithOwnPacket
    <2> QED
      BY <2>7, <2>12 DEF Conversations
  <1> QED
    BY <1>1, <1>2

\* Every step keeps the conversations.
LEMMA NextKeepsReplyInv == ReplyInv /\ [Next]_vars => ReplyInv'
  <1> SUFFICES ASSUME ReplyInv, [Next]_vars PROVE Conversations'
    BY NextKeepsTypeInv DEF ReplyInv
  <1>1. CASE UNCHANGED vars
    BY <1>1
    DEF vars, ReplyInv, Conversations, Conversation, Fresh, NotStored,
        ReplyEndsWithOwnPacket, LacksOwnPacket, HeldAfter
  <1>2. CASE Restart
    <2>1. ASSUME NEW c \in Conns PROVE Moves(c)
      <3>1. Conversation(c)
        BY DEF ReplyInv, Conversations
      <3> QED
        BY <1>2, <3>1, AesdSocketAssumption
        DEF Restart, Moves, Conversation, Fresh, Threads
    <2> QED
      BY <1>2, <2>1, MovesKeepConversations DEF Restart, ReplyInv
  <1>3. ASSUME NEW c \in Conns, Handle(c) \/ Receive(c) \/ HangUp(c)
        PROVE  Conversations'
    BY <1>3, ThreadMovesKeepConversations, ReceiveKeepsConversations,
       OpenFileKeepsConversations, FlushKeepsConversations, SendKeepsConversations
    DEF Handle
  <1> QED
    BY <1>1, <1>2, <1>3, MainKeepsConversations, CleanupKeepsConversations DEF Next

\* ReplyInv at the start.
LEMMA InitReplyInv == Init => ReplyInv
  <1> SUFFICES ASSUME Init PROVE Conversations
    BY InitTypeInv DEF ReplyInv
  <1>1. \A c \in Conns : NotStored(c)
    BY AesdSocketAssumption DEF Init, EarlierPackets, NotStored, Stores
  <1> QED
    BY <1>1, AesdSocketAssumption
    DEF Init, Conversations, Conversation, Fresh, ReplyEndsWithOwnPacket, NoInput,
        Threads

\* Every client that sends a packet is sent what its store holds, which ends with
\* that packet, or, only when the write of the packet fails, has no packet of it;
\* and what it is sent of the device is what that held at one moment. So it is for
\* any capacity of the device and any number of packets written to it, whatever
\* else fails, however the threads interleave, and over crashes and new starts.
THEOREM RepliesEndWithTheirPacket == Spec => []ReplyEndsWithOwnPacket
  <1>1. ReplyInv => ReplyEndsWithOwnPacket
    BY DEF ReplyInv, Conversations
  <1> QED
    BY <1>1, InitReplyInv, NextKeepsReplyInv, PTL DEF Spec


-----------------------------------------------------------------------------
(* The list of threads.                                                    *)

\* Where main is before it runs cleanup, and where a thread is that never does.
Accepting == {"boot", "loop", "accept", "accepting", "accepted", "created", "check",
              "check_walk"}
ThreadPCs == UsingFile \cup {"none", "start", "recv", "packet", "seek", "mark", "done"}

Once(s) == \A i, j \in DOMAIN s : s[i] = s[j] => i = j

\* A sequence without its k-th element.
LEMMA RemoveAtFacts ==
  ASSUME NEW S, NEW s \in Seq(S), Once(s), NEW k \in 1..Len(s)
  PROVE  /\ Once(RemoveAt(s, k))
         /\ Range(RemoveAt(s, k)) = Range(s) \ {s[k]}
  <1> DEFINE r == RemoveAt(s, k)
  <1>1. /\ r \in Seq(S) /\ Len(r) = Len(s) - 1 /\ Len(s) \in Nat
        /\ \A i \in 1..Len(r) : r[i] = IF i < k THEN s[i] ELSE s[i + 1]
    <2> DEFINE a == SubSeq(s, 1, k - 1)
               b == SubSeq(s, k + 1, Len(s))
    <2>1. /\ Len(s) \in Nat /\ k \in Nat /\ k >= 1 /\ k <= Len(s)
          /\ a \in Seq(S) /\ Len(a) = k - 1 /\ \A i \in 1..(k - 1) : a[i] = s[i]
      OBVIOUS
    <2>2. /\ b \in Seq(S) /\ Len(b) = Len(s) - k
          /\ \A i \in 1..(Len(s) - k) : b[i] = s[k + i]
      OBVIOUS
    <2>3. r = a \o b
      BY DEF RemoveAt
    <2> HIDE DEF a, b, r
    <2>4. /\ r \in Seq(S) /\ Len(r) = Len(s) - 1
          /\ \A i \in 1..Len(r) : r[i] = IF i <= k - 1 THEN a[i] ELSE b[i - (k - 1)]
      BY <2>1, <2>2, <2>3
    <2>5. ASSUME NEW i \in 1..Len(r)
          PROVE  r[i] = IF i < k THEN s[i] ELSE s[i + 1]
      <3>1. CASE i < k
        BY <2>1, <2>4, <3>1
      <3>2. CASE i >= k
        <4>1. /\ i - (k - 1) \in 1..(Len(s) - k) /\ k + (i - (k - 1)) = i + 1
              /\ ~(i <= k - 1)
          BY <2>1, <2>4, <3>2
        <4>2. b[i - (k - 1)] = s[k + (i - (k - 1))]
          BY <2>2, <4>1
        <4>3. r[i] = b[i - (k - 1)]
          BY <2>4, <4>1
        <4>4. ~(i < k)
          BY <2>1, <2>4, <3>2
        <4> QED
          BY <4>1, <4>2, <4>3, <4>4
      <3> QED
        BY <2>1, <2>4, <3>1, <3>2
    <2> QED
      BY <2>1, <2>4, <2>5
  <1>2. DOMAIN r = 1..Len(r) /\ DOMAIN s = 1..Len(s)
    BY <1>1
  <1> HIDE DEF r
  <1>3. Once(r)
    <2> SUFFICES ASSUME NEW i \in 1..Len(r), NEW j \in 1..Len(r), r[i] = r[j]
                 PROVE  i = j
      BY <1>2 DEF Once
    <2> DEFINE at(n) == IF n < k THEN n ELSE n + 1
    <2>1. /\ at(i) \in 1..Len(s) /\ r[i] = s[at(i)]
      BY <1>1
    <2>2. /\ at(j) \in 1..Len(s) /\ r[j] = s[at(j)]
      BY <1>1
    <2>3. at(i) = at(j)
      <3> HIDE DEF at
      <3> QED
        BY <1>2, <2>1, <2>2 DEF Once
    <2> QED
      BY <1>1, <2>3
  <1>4. ASSUME NEW x \in Range(r) PROVE x \in Range(s) \ {s[k]}
    <2>1. PICK i \in 1..Len(r) : r[i] = x
      BY <1>2, <1>4 DEF Range
    <2>2. PICK m \in 1..Len(s) : m # k /\ s[m] = x
      <3>1. CASE i < k
        <4>1. i \in 1..Len(s) /\ i # k /\ s[i] = x
          BY <1>1, <2>1, <3>1
        <4> QED
          BY <4>1
      <3>2. CASE ~(i < k)
        <4>1. i + 1 \in 1..Len(s) /\ i + 1 # k /\ s[i + 1] = x
          BY <1>1, <2>1, <3>2
        <4> QED
          BY <4>1
      <3> QED
        BY <3>1, <3>2
    <2>3. x # s[k]
      BY <1>2, <2>2 DEF Once
    <2> QED
      BY <1>2, <2>2, <2>3 DEF Range
  <1>5. ASSUME NEW x \in Range(s), x # s[k] PROVE x \in Range(r)
    <2>1. PICK i \in 1..Len(s) : s[i] = x
      BY <1>2, <1>5 DEF Range
    <2>2. CASE i < k
      <3>1. i \in 1..Len(r) /\ r[i] = x
        BY <1>1, <2>1, <2>2
      <3> QED
        BY <1>2, <3>1 DEF Range
    <2>3. CASE i > k
      <3>1. i - 1 \in 1..Len(r) /\ r[i - 1] = x
        BY <1>1, <2>1, <2>3
      <3> QED
        BY <1>2, <3>1 DEF Range
    <2> QED
      BY <1>5, <2>1, <2>2, <2>3
  <1> QED
    BY <1>3, <1>4, <1>5 DEF r

\* What a concatenation consists of.
LEMMA ConcatParts ==
  ASSUME NEW S, NEW a \in Seq(S), NEW b \in Seq(S)
  PROVE  /\ a \o b \in Seq(S) /\ Len(a \o b) = Len(a) + Len(b)
         /\ \A i \in 1..(Len(a) + Len(b)) :
              (a \o b)[i] = IF i <= Len(a) THEN a[i] ELSE b[i - Len(a)]
  OBVIOUS

\* A sequence with a new element at k.
LEMMA InsertAtFacts ==
  ASSUME NEW S, NEW s \in Seq(S), Once(s), NEW e \in S, e \notin Range(s),
         NEW k \in 1..(Len(s) + 1)
  PROVE  /\ Once(InsertAt(s, k, e))
         /\ Range(InsertAt(s, k, e)) = Range(s) \cup {e}
  <1> DEFINE r == InsertAt(s, k, e)
  <1>1. /\ r \in Seq(S) /\ Len(r) = Len(s) + 1 /\ Len(s) \in Nat
        /\ \A i \in 1..Len(r) :
             r[i] = IF i < k THEN s[i] ELSE IF i = k THEN e ELSE s[i - 1]
    <2> DEFINE a == SubSeq(s, 1, k - 1)
               b == SubSeq(s, k, Len(s))
               ae == a \o <<e>>
    <2>1. /\ Len(s) \in Nat /\ k \in Nat /\ k >= 1 /\ k <= Len(s) + 1
          /\ a \in Seq(S) /\ Len(a) = k - 1 /\ \A i \in 1..(k - 1) : a[i] = s[i]
      OBVIOUS
    <2>2. /\ b \in Seq(S) /\ Len(b) = Len(s) - k + 1
          /\ \A i \in 1..(Len(s) - k + 1) : b[i] = s[k + i - 1]
      OBVIOUS
    <2>3. r = ae \o b
      BY DEF InsertAt
    <2> HIDE DEF a, b, r
    <2>6. /\ ae \in Seq(S) /\ Len(ae) = k
          /\ \A i \in 1..k : ae[i] = IF i < k THEN a[i] ELSE e
      BY <2>1
    <2> HIDE DEF ae
    <2>4. /\ r \in Seq(S) /\ Len(r) = Len(s) + 1
          /\ \A i \in 1..Len(r) : r[i] = IF i <= k THEN ae[i] ELSE b[i - k]
      <3>1. /\ r \in Seq(S) /\ Len(r) = Len(ae) + Len(b)
            /\ \A i \in 1..(Len(ae) + Len(b)) :
                 r[i] = IF i <= Len(ae) THEN ae[i] ELSE b[i - Len(ae)]
        BY <2>2, <2>3, <2>6, ConcatParts
      <3>2. Len(ae) = k /\ Len(ae) + Len(b) = Len(s) + 1
        BY <2>1, <2>2, <2>6
      <3> QED
        BY <3>1, <3>2
    <2>5. ASSUME NEW i \in 1..Len(r)
          PROVE  r[i] = IF i < k THEN s[i] ELSE IF i = k THEN e ELSE s[i - 1]
      <3>1. CASE i <= k
        BY <2>1, <2>4, <2>6, <3>1
      <3>2. CASE i > k
        <4>0. /\ Len(s) \in Nat /\ k \in Nat /\ k >= 1 /\ k <= Len(s) + 1
              /\ i \in Nat /\ i <= Len(s) + 1
          BY <2>1, <2>4
        <4>1. /\ i - k \in 1..(Len(s) - k + 1) /\ k + (i - k) - 1 = i - 1
              /\ ~(i <= k) /\ i # k /\ ~(i < k)
          BY <3>2, <4>0
        <4>2. b[i - k] = s[k + (i - k) - 1]
          BY <2>2, <4>1
        <4> QED
          BY <2>4, <4>1, <4>2
      <3> QED
        BY <2>1, <2>4, <3>1, <3>2
    <2> QED
      BY <2>1, <2>4, <2>5
  <1>2. DOMAIN r = 1..Len(r) /\ DOMAIN s = 1..Len(s)
    BY <1>1
  <1> HIDE DEF r
  <1>6. \A i \in 1..Len(s) : s[i] # e
    BY <1>2 DEF Range
  <1>3. Once(r)
    <2> SUFFICES ASSUME NEW i \in 1..Len(r), NEW j \in 1..Len(r), r[i] = r[j]
                 PROVE  i = j
      BY <1>2 DEF Once
    <2> DEFINE at(n) == IF n < k THEN n ELSE n - 1
    <2>1. \A n \in 1..Len(r) : n # k => at(n) \in 1..Len(s) /\ r[n] = s[at(n)]
      BY <1>1
    <2>2. i = k <=> j = k
      <3>1. r[k] = e /\ k \in 1..Len(r)
        BY <1>1
      <3> HIDE DEF at
      <3> QED
        BY <1>6, <2>1, <3>1
    <2>3. CASE i # k
      <3>1. /\ at(i) \in 1..Len(s) /\ at(j) \in 1..Len(s)
            /\ s[at(i)] = s[at(j)]
        <4> HIDE DEF at
        <4> QED
          BY <2>1, <2>2, <2>3
      <3>2. at(i) = at(j)
        <4> HIDE DEF at
        <4> QED
          BY <1>2, <3>1 DEF Once
      <3> QED
        BY <1>1, <2>2, <2>3, <3>2
    <2> QED
      BY <2>2, <2>3
  <1>4. ASSUME NEW x \in Range(r) PROVE x \in Range(s) \cup {e}
    <2>1. PICK i \in 1..Len(r) : r[i] = x
      BY <1>2, <1>4 DEF Range
    <2>2. CASE i < k
      <3>1. i \in 1..Len(s) /\ s[i] = x
        BY <1>1, <2>1, <2>2
      <3> QED
        BY <1>2, <3>1 DEF Range
    <2>3. CASE i = k
      BY <1>1, <2>1, <2>3
    <2>4. CASE i > k
      <3>1. i - 1 \in 1..Len(s) /\ s[i - 1] = x
        BY <1>1, <2>1, <2>4
      <3> QED
        BY <1>2, <3>1 DEF Range
    <2> QED
      BY <1>1, <2>2, <2>3, <2>4
  <1>5. ASSUME NEW x \in Range(s) PROVE x \in Range(r)
    <2>1. PICK i \in 1..Len(s) : s[i] = x
      BY <1>2, <1>5 DEF Range
    <2>2. CASE i < k
      <3>1. i \in 1..Len(r) /\ r[i] = x
        BY <1>1, <2>1, <2>2
      <3> QED
        BY <1>2, <3>1 DEF Range
    <2>3. CASE i >= k
      <3>1. i + 1 \in 1..Len(r) /\ r[i + 1] = x
        BY <1>1, <2>1, <2>3
      <3> QED
        BY <1>2, <3>1 DEF Range
    <2> QED
      BY <2>1, <2>2, <2>3
  <1>7. e \in Range(r)
    <2>1. k \in 1..Len(r) /\ r[k] = e
      BY <1>1
    <2> QED
      BY <1>2, <2>1 DEF Range
  <1> QED
    BY <1>3, <1>4, <1>5, <1>7 DEF r

\* Unlinking a node takes it, and no other, out of the list.
LEMMA UnlinkedFacts ==
  ASSUME list \in Seq(Conns), Once(list), NEW c \in Range(list)
  PROVE  Once(Unlinked(c)) /\ Range(Unlinked(c)) = Range(list) \ {c}
  BY UnlinkedType, RemoveAtFacts DEF Unlinked

\* A node linked after one of the list, or into an empty list, is found in it.
LEMMA InsertFacts ==
  ASSUME list \in Seq(Conns), Once(list), NEW c \in Conns, c \notin Range(list),
         last = Null \/ last \in Range(list)
  PROVE  Once(Insert(c)) /\ Range(Insert(c)) = Range(list) \cup {c}
  <1>1. CASE last = Null
    <2>1. <<c>> \o list = InsertAt(list, 1, c)
      BY DEF InsertAt
    <2>2. 1 \in 1..(Len(list) + 1)
      OBVIOUS
    <2>3. Insert(c) = InsertAt(list, 1, c)
      BY <1>1, <2>1 DEF Insert
    <2> QED
      BY <2>2, <2>3, InsertAtFacts
  <1>2. CASE last # Null
    <2>1. PositionOf(last) \in 1..Len(list)
      BY <1>2, UnlinkedType
    <2> DEFINE k == PositionOf(last) + 1
    <2>2. k \in 1..(Len(list) + 1)
      BY <2>1
    <2>3. Insert(c) = InsertAt(list, k, c)
      BY <1>2 DEF Insert
    <2> HIDE DEF k
    <2> QED
      BY <2>2, <2>3, InsertAtFacts
  <1> QED
    BY <1>1, <1>2


\* What the list depends on: client_thread_node never points to a node, so that no
\* thread is taken for another, and neither a thread nor a second server runs the
\* cleanup of the process, nor is a thread left without its node.
ListKept ==
  /\ Garbage \cap Conns = {}
  /\ {"nomem_node", "nofile", "second_instance"} \cap Faults = {}

\* A thread from its socket to its node in the list.
Tracked(c) ==
  /\ pc[c] \in ThreadPCs
  /\ tag[c] \notin Conns
  /\ fd[c] = "none" => pc[c] = "none"
  /\ fd[c] = "closed" => Finished(c)
  /\ c \in Range(list) => fd[c] = "open" /\ pc[c] # "none"
  /\ pc[c] # "none" /\ fd[c] = "open" => c \in Range(list) \/ c = new
  /\ c = new => fd[c] = "open" /\ c \notin Range(list)
  /\ c = new /\ pc[Main] = "accepted" => pc[c] = "none"
  /\ c = new /\ pc[Main] = "created" => pc[c] # "none"

\* What main knows of its threads.
MainTracks ==
  /\ complete = {}
  /\ Once(list)
  /\ pc[Main] \in Accepting \cup Cleaning \cup {"exit"}
  /\ pc[Main] \in Accepting => last = Null \/ last \in Range(list)
  /\ pc[Main] \in {"boot", "unlink", "exit"} => list = <<>>

Served == MainTracks /\ (\A c \in Conns : Tracked(c)) /\ OpenedIsNamed

ServeInv == TypeInv /\ Served

\* With an empty list and no connection to link, every thread has ended.
LEMMA EmptyListIsFinished ==
  ASSUME ServeInv, list = <<>>, new = Null, NEW c \in Conns
  PROVE  Finished(c) /\ (pc[c] = "done" => fd[c] = "closed")
  <1>1. c \notin Range(list) /\ c # new
    BY AesdSocketAssumption DEF Range
  <1>2. Tracked(c) /\ fd[c] \in {"none", "open", "closed"}
    BY DEF ServeInv, Served, TypeInv, TypeOK
  <1> QED
    BY <1>1, <1>2 DEF Tracked, Finished

\* A step of main that moves no thread and leaves the list alone.
LEMMA MainMoveKeepsServed ==
  ASSUME ServeInv, UNCHANGED <<list, complete, last, tag, fd, node, opened>>,
         NEW where \in Accepting \cup Cleaning \cup {"exit"}, goto(Main, where),
         where \in Accepting => pc[Main] \in Accepting,
         where \in {"boot", "unlink", "exit"} => list = <<>>,
         new' \in {new, Null},
         where \in {"accepted", "created"} => pc[Main] = where \/ new = Null,
         new' # new => pc[new] = "none"
  PROVE  Served'
  <1> USE AesdSocketAssumption
  <1>1. /\ pc'[Main] = where /\ \A c \in Conns : pc'[c] = pc[c]
    BY DEF ServeInv, TypeInv, TypeOK, goto, Threads
  <1>2. MainTracks'
    BY <1>1 DEF ServeInv, Served, MainTracks
  <1>3. OpenedIsNamed'
    BY <1>1 DEF ServeInv, Served, OpenedIsNamed
  <1>4. ASSUME NEW c \in Conns PROVE Tracked(c)'
    <2>1. Tracked(c)
      BY DEF ServeInv, Served
    <2> QED
      BY <1>1, <2>1 DEF Tracked, Finished
  <1> QED
    BY <1>2, <1>3, <1>4 DEF Served

\* The steps of main up to the end of the accept loop.
LEMMA MainKeepsServed ==
  ASSUME ListKept, ServeInv,
         MainStep \/ end_program_singal \/ SecondInstance
           \/ \E c \in Conns : MainAccept(c)
  PROVE  Served'
  <1> USE AesdSocketAssumption
  <1>0. /\ pc \in [Threads -> PCs] /\ fd \in [Conns -> {"none", "open", "closed"}]
        /\ tag \in [Conns -> Conns \cup {Wild, Null}]
        /\ new \in Conns \cup {Null} /\ list \in Seq(Conns)
        /\ new # Null => pc[Main] \in {"accepted", "created"}
        /\ pc[Main] = "created" => new \in Conns
        /\ MainTracks
        /\ \A c \in Conns : pc[c] \in UsingFile => node = opened
    BY DEF ServeInv, Served, TypeInv, TypeOK, OpenedIsNamed
  <1>1. CASE MainLoop
    BY <1>1, MainMoveKeepsServed
    DEF MainLoop, nodes, outside, Accepting, Cleaning
  <1>2. CASE MainSleep
    BY <1>0, <1>2, MainMoveKeepsServed
    DEF MainSleep, nodes, outside, Accepting, Cleaning
  <1>3. CASE Boot
    BY <1>0, <1>3, MainMoveKeepsServed
    DEF Boot, nodes, Accepting, Cleaning, MainTracks
  <1>4. CASE end_program_singal
    <2>1. goto(Main, IF pc[Main] = "accepting" THEN "accepted" ELSE pc[Main])
      BY <1>4 DEF end_program_singal, goto
    <2> QED
      BY <1>0, <1>4, <2>1, MainMoveKeepsServed
      DEF end_program_singal, nodes, outside, Accepting, Cleaning, MainTracks
  <1>5. CASE SecondInstance
    BY <1>5 DEF ListKept, SecondInstance
  <1>6. ASSUME NEW d \in Conns, MainAccept(d) PROVE Served'
    <2>1. /\ pc[Main] = "accepting" /\ pc'[Main] = "accepted" /\ new' = d
          /\ \A c \in Conns : pc'[c] = pc[c]
          /\ fd'[d] = "open" /\ \A c \in Conns \ {d} : fd'[c] = fd[c]
          /\ UNCHANGED <<list, complete, last, tag, node, opened>>
          /\ fd[d] = "none" /\ new = Null
      BY <1>0, <1>6 DEF MainAccept, goto, Threads, outside
    <2>2. ASSUME NEW c \in Conns PROVE Tracked(c)'
      <3>1. Tracked(c)
        BY DEF ServeInv, Served
      <3> QED
        BY <2>1, <3>1 DEF Tracked, Finished
    <2>3. MainTracks'
      BY <1>0, <2>1 DEF MainTracks, Accepting
    <2>4. OpenedIsNamed'
      BY <1>0, <2>1 DEF OpenedIsNamed
    <2> QED
      BY <2>2, <2>3, <2>4 DEF Served
  <1>7. CASE MainStart
    <2>1. /\ pc[Main] = "accepted"
          /\ UNCHANGED <<list, complete, last, node, opened>>
      BY <1>7 DEF MainStart, outside
    <2>2. new # Null => Tracked(new)
      BY <1>0 DEF ServeInv, Served
    <2>3. ASSUME ~keep_running, goto(Main, "cleanup"), new' = Null, UNCHANGED <<tag, fd>>
          PROVE  Served'
      BY <2>1, <2>2, <2>3, MainMoveKeepsServed DEF Tracked, Accepting, Cleaning
    <2>4. ASSUME new = Null, goto(Main, "loop"), UNCHANGED <<tag, fd, new>>
          PROVE  Served'
      BY <2>1, <2>4, MainMoveKeepsServed DEF Accepting, Cleaning
    <2>5. ASSUME new # Null, NEW g \in Garbage, tag' = [tag EXCEPT ![new] = g],
                 pc' = [pc EXCEPT ![Main] = "created", ![new] = "start"],
                 UNCHANGED <<fd, new>>
          PROVE  Served'
      <3>1. /\ pc'[Main] = "created" /\ pc'[new] = "start" /\ tag'[new] = g
            /\ new \in Conns /\ g \notin Conns
            /\ \A c \in Conns \ {new} : pc'[c] = pc[c] /\ tag'[c] = tag[c]
        BY <1>0, <2>5 DEF ListKept, Threads
      <3>2. ASSUME NEW c \in Conns PROVE Tracked(c)'
        <4>1. Tracked(c)
          BY DEF ServeInv, Served
        <4> QED
          BY <2>1, <2>5, <3>1, <4>1 DEF Tracked, Finished, ThreadPCs
      <3>3. MainTracks'
        BY <1>0, <2>1, <3>1 DEF MainTracks, Accepting
      <3>4. OpenedIsNamed'
        BY <1>0, <2>1, <3>1 DEF OpenedIsNamed, UsingFile
      <3> QED
        BY <3>2, <3>3, <3>4 DEF Served
    <2>6. ASSUME new # Null, fd' = [fd EXCEPT ![new] = "closed"], new' = Null,
                 goto(Main, "loop"), UNCHANGED tag
          PROVE  Served'
      <3>1. /\ pc'[Main] = "loop" /\ fd'[new] = "closed" /\ new \in Conns
            /\ \A c \in Conns : pc'[c] = pc[c]
            /\ \A c \in Conns \ {new} : fd'[c] = fd[c]
        BY <1>0, <2>6 DEF goto, Threads
      <3>2. ASSUME NEW c \in Conns PROVE Tracked(c)'
        <4>1. Tracked(c)
          BY DEF ServeInv, Served
        <4> QED
          BY <2>1, <2>6, <3>1, <4>1 DEF Tracked, Finished
      <3>3. MainTracks'
        BY <1>0, <2>1, <3>1 DEF MainTracks, Accepting
      <3>4. OpenedIsNamed'
        BY <1>0, <2>1, <3>1 DEF OpenedIsNamed
      <3> QED
        BY <3>2, <3>3, <3>4 DEF Served
    <2> QED
      BY <1>7, <2>3, <2>4, <2>5, <2>6 DEF MainStart
  <1>8. CASE MainLink
    <2>1. /\ pc[Main] = "created" /\ pc'[Main] = "check" /\ list' = Insert(new)
          /\ last' = new /\ new' = Null /\ new \in Conns
          /\ \A c \in Conns : pc'[c] = pc[c]
          /\ UNCHANGED <<fd, complete, tag, node, opened>>
      BY <1>0, <1>8 DEF MainLink, ListKept, goto, Threads, outside
    <2>2. Tracked(new) /\ (last = Null \/ last \in Range(list)) /\ Once(list)
      BY <1>0, <2>1 DEF ServeInv, Served, MainTracks, Accepting
    <2>3. Once(list') /\ Range(list') = Range(list) \cup {new}
      BY <1>0, <2>1, <2>2, InsertFacts DEF Tracked
    <2>4. ASSUME NEW c \in Conns PROVE Tracked(c)'
      <3>1. Tracked(c) /\ (c = new => pc[c] # "none")
        BY <1>0, <2>1, <2>2 DEF ServeInv, Served, Tracked
      <3> QED
        BY <2>1, <2>3, <3>1 DEF Tracked, Finished
    <2>5. MainTracks'
      BY <1>0, <2>1, <2>3 DEF MainTracks, Accepting
    <2>6. OpenedIsNamed'
      BY <1>0, <2>1 DEF OpenedIsNamed
    <2> QED
      BY <2>4, <2>5, <2>6 DEF Served
  <1> QED
    BY <1>1, <1>2, <1>3, <1>4, <1>5, <1>6, <1>7, <1>8 DEF MainStep


\* The steps of cleanup: only main takes them, and it joins every thread.
LEMMA CleanupKeepsServed ==
  ASSUME ServeInv, NEW p \in Threads, Cleanup(p)
  PROVE  Served'
  <1> USE AesdSocketAssumption
  <1>0. /\ pc \in [Threads -> PCs] /\ fd \in [Conns -> {"none", "open", "closed"}]
        /\ new \in Conns \cup {Null} /\ list \in Seq(Conns)
        /\ new # Null => pc[Main] \in {"accepted", "created"}
        /\ MainTracks /\ OpenedIsNamed
        /\ \A c \in Conns : Tracked(c)
    BY DEF ServeInv, Served, TypeInv, TypeOK
  <1>1. p = Main
    <2>1. pc[p] \in Cleaning \cup {"check", "check_walk"}
      BY DEF Cleanup, LockList, check_completed_threads, clean_threads,
             CleanupStart, CleanupEnd, Cleaning
    <2>2. p \in Conns => pc[p] \in ThreadPCs
      BY <1>0 DEF Tracked
    <2> QED
      BY <2>1, <2>2 DEF Threads, ThreadPCs, UsingFile, Cleaning
  <1>2. CASE LockList(p)
    BY <1>0, <1>1, <1>2, MainMoveKeepsServed
    DEF LockList, nodes, outside, Accepting, Cleaning
  <1>3. CASE check_completed_threads(p)
    <2>1. NextMarked = {}
      BY <1>0 DEF NextMarked, MainTracks
    <2>2. UnlockList(Main, AfterCheck(Main)) /\ pc[Main] \in {"check_walk", "cleanup_walk"}
      BY <1>1, <1>3, <2>1 DEF check_completed_threads
    <2> QED
      BY <1>0, <2>2, MainMoveKeepsServed
      DEF UnlockList, AfterCheck, nodes, outside, Accepting, Cleaning
  <1>4. CASE clean_threads(p)
    <2>1. CASE list = <<>>
      <3>1. UnlockList(Main, "unlink") /\ pc[Main] = "clean_walk"
        BY <1>1, <1>4, <2>1 DEF clean_threads, Remaining
      <3> QED
        BY <1>0, <2>1, <3>1, MainMoveKeepsServed
        DEF UnlockList, nodes, outside, Accepting, Cleaning
    <2>2. CASE list # <<>>
      <3> DEFINE d == Head(list)
      <3>1. d \in Conns /\ d \in Range(list)
        BY <1>0, <2>2 DEF Range
      <3>2. Join(Main, d) /\ pc[Main] = "clean_walk"
        BY <1>1, <1>4, <2>2 DEF clean_threads, Remaining
      <3> HIDE DEF d
      <3>3. /\ pc[d] = "done" /\ list' = Unlinked(d) /\ complete' = complete \ {d}
            /\ fd' = [fd EXCEPT ![d] = "closed"]
            /\ UNCHANGED <<pc, new, tag, node, opened>>
        BY <3>1, <3>2 DEF Join, Joinable, outside
      <3>4. Once(list') /\ Range(list') = Range(list) \ {d}
        BY <1>0, <3>1, <3>3, UnlinkedFacts DEF MainTracks
      <3>5. ASSUME NEW c \in Conns PROVE Tracked(c)'
        <4>1. Tracked(c)
          BY <1>0
        <4>2. fd'[c] = IF c = d THEN "closed" ELSE fd[c]
          BY <1>0, <3>3
        <4> QED
          BY <3>1, <3>3, <3>4, <4>1, <4>2 DEF Tracked, Finished
      <3>6. MainTracks'
        BY <1>0, <3>2, <3>3, <3>4 DEF MainTracks, Accepting, Cleaning
      <3>7. OpenedIsNamed'
        BY <1>0, <3>3 DEF OpenedIsNamed
      <3> QED
        BY <3>5, <3>6, <3>7 DEF Served
    <2> QED
      BY <2>1, <2>2
  <1>5. CASE CleanupStart(p)
    BY <1>0, <1>1, <1>5, MainMoveKeepsServed
    DEF CleanupStart, nodes, outside, Accepting, Cleaning
  <1>6. CASE CleanupEnd(p)
    <2>1. /\ pc[Main] = "unlink" /\ pc'[Main] = "exit"
          /\ \A c \in Conns : pc'[c] = pc[c]
          /\ UNCHANGED <<list, complete, last, new, tag, fd, opened>>
      BY <1>0, <1>1, <1>6 DEF CleanupEnd, AfterCleanup, goto, Threads, nodes
    <2>2. list = <<>> /\ new = Null
      BY <1>0, <2>1 DEF MainTracks
    <2>3. \A c \in Conns : Finished(c)
      BY <2>2, EmptyListIsFinished
    <2>4. OpenedIsNamed'
      BY <2>1, <2>3 DEF OpenedIsNamed, Finished, UsingFile
    <2>5. MainTracks'
      BY <1>0, <2>1, <2>2 DEF MainTracks, Accepting, Cleaning
    <2>6. ASSUME NEW c \in Conns PROVE Tracked(c)'
      BY <1>0, <2>1, <2>2 DEF Tracked, Finished
    <2> QED
      BY <2>4, <2>5, <2>6 DEF Served
  <1> QED
    BY <1>2, <1>3, <1>4, <1>5, <1>6 DEF Cleanup

\* A step of a thread: it goes on, and its node and its socket stay.
LEMMA ThreadMoveKeepsServed ==
  ASSUME ServeInv, NEW c \in Conns, pc[c] \notin {"none", "done"},
         pc' = pc \/ \E where \in ThreadPCs \ {"none"} : goto(c, where),
         UNCHANGED <<list, complete, last, new, tag, fd>>,
         OpenedIsNamed'
  PROVE  Served'
  <1> USE AesdSocketAssumption
  <1>0. /\ pc \in [Threads -> PCs] /\ MainTracks /\ \A d \in Conns : Tracked(d)
    BY DEF ServeInv, Served, TypeInv, TypeOK
  <1>1. /\ pc'[Main] = pc[Main] /\ pc'[c] \in ThreadPCs \ {"none"}
        /\ \A d \in Conns \ {c} : pc'[d] = pc[d]
    BY <1>0 DEF goto, Threads, Tracked
  <1>2. MainTracks'
    BY <1>0, <1>1 DEF MainTracks
  <1>3. ASSUME NEW d \in Conns PROVE Tracked(d)'
    <2>1. Tracked(d)
      BY <1>0
    <2> QED
      BY <1>1, <2>1 DEF Tracked, Finished
  <1> QED
    BY <1>2, <1>3 DEF Served

\* The steps of the threads.
LEMMA HandleKeepsServed ==
  ASSUME ListKept, ServeInv, NEW c \in Conns, Handle(c) \/ Receive(c) \/ HangUp(c)
  PROVE  Served'
  <1> USE AesdSocketAssumption
  <1>0. /\ pc \in [Threads -> PCs] /\ OpenedIsNamed /\ MainTracks
        /\ \A d \in Conns : pc[d] \in UsingFile => file_mutex = d
        /\ c \in Threads /\ Tracked(c)
    BY DEF ServeInv, Served, TypeInv, TypeOK, FileMutexExclusion, Threads
  <1>1. CASE Crash
    BY <1>1
    DEF Crash, ServeInv, Served, MainTracks, Tracked, Finished, OpenedIsNamed,
        nodes, outside
  <1>2. CASE Start(c)
    <2>1. OpenedIsNamed'
      BY <1>0, <1>2 DEF OpenedIsNamed, Start, goto, Threads, outside, UsingFile
    <2> QED
      BY <1>2, <2>1, ThreadMoveKeepsServed DEF Start, nodes, ThreadPCs
  <1>3. CASE OpenFile(c)
    <2>1. OpenedIsNamed'
      BY <1>0, <1>3 DEF OpenedIsNamed, OpenFile, goto, ListKept, UsingFile
    <2> QED
      BY <1>3, <2>1, ThreadMoveKeepsServed
      DEF OpenFile, ListKept, nodes, ThreadPCs, UsingFile
  <1>4. CASE Flush(c)
    <2>1. OpenedIsNamed'
      BY <1>0, <1>4 DEF OpenedIsNamed, Flush, goto, Threads, outside, UsingFile
    <2> QED
      BY <1>4, <2>1, ThreadMoveKeepsServed DEF Flush, nodes, ThreadPCs, UsingFile
  <1>5. CASE SeekFile(c)
    <2>1. OpenedIsNamed'
      BY <1>0, <1>5 DEF OpenedIsNamed, SeekFile, CanSeek, goto, Threads, UsingFile
    <2> QED
      BY <1>5, <2>1, ThreadMoveKeepsServed DEF SeekFile, nodes, ThreadPCs, UsingFile
  <1>6. CASE Send(c)
    <2>1. CASE ~Crash
      <3>1. OpenedIsNamed'
        BY <1>0, <1>6, <2>1 DEF OpenedIsNamed, Send, goto, Threads, UsingFile
      <3> QED
        BY <1>6, <2>1, <3>1, ThreadMoveKeepsServed DEF Send, nodes, ThreadPCs
    <2> QED
      BY <1>1, <2>1
  <1>7. CASE set_thread_complete_success(c)
    <2>1. OpenedIsNamed'
      BY <1>0, <1>7
      DEF OpenedIsNamed, set_thread_complete_success, goto, Threads, outside, UsingFile
    <2>2. MarkedBy(c) = {}
      <3>1. Range(list) \subseteq Conns
        BY DEF ServeInv, TypeInv, TypeOK, Range
      <3> QED
        BY <1>0, <3>1 DEF MarkedBy, Tracked
    <2>3. UNCHANGED complete
      BY <1>7, <2>2 DEF set_thread_complete_success
    <2> QED
      BY <1>7, <2>1, <2>3, ThreadMoveKeepsServed
      DEF set_thread_complete_success, ThreadPCs
  <1>8. CASE Receive(c)
    <2>1. OpenedIsNamed'
      BY <1>0, <1>8
      DEF OpenedIsNamed, Receive, get_ioctl_command, goto, Threads, outside, UsingFile
    <2> QED
      BY <1>8, <2>1, ThreadMoveKeepsServed
      DEF Receive, get_ioctl_command, nodes, ThreadPCs
  <1> QED
    BY <1>1, <1>2, <1>3, <1>4, <1>5, <1>6, <1>7, <1>8 DEF Handle, HangUp

\* Every step keeps the list.
LEMMA NextKeepsServeInv ==
  ASSUME ListKept, ServeInv, [Next]_vars
  PROVE  ServeInv'
  <1> USE AesdSocketAssumption
  <1> SUFFICES Served'
    BY NextKeepsTypeInv DEF ServeInv
  <1>1. CASE UNCHANGED vars
    BY <1>1
    DEF vars, ServeInv, Served, MainTracks, Tracked, Finished, OpenedIsNamed
  <1>2. CASE Restart
    <2>1. /\ list' = <<>> /\ complete' = {} /\ last' = Null /\ new' = Null
          /\ pc'[Main] = "boot"
          /\ \A c \in Conns : pc'[c] = "none" /\ tag'[c] = Null /\ fd'[c] # "open"
      BY <1>2 DEF Restart, Threads
    <2>2. Once(<<>>) /\ Range(<<>>) = {}
      BY DEF Once, Range
    <2>3. MainTracks'
      BY <2>1, <2>2 DEF MainTracks, Accepting
    <2>4. ASSUME NEW c \in Conns PROVE Tracked(c)'
      BY <2>1, <2>2 DEF Tracked, Finished, ThreadPCs
    <2> QED
      BY <2>1, <2>3, <2>4 DEF Served, OpenedIsNamed, UsingFile
  <1> QED
    BY <1>1, <1>2, MainKeepsServed, CleanupKeepsServed, HandleKeepsServed DEF Next

\* ServeInv at the start.
LEMMA InitServeInv == Init => ServeInv
  <1> USE AesdSocketAssumption
  <1> SUFFICES ASSUME Init PROVE Served
    BY InitTypeInv DEF ServeInv
  <1>1. Once(list) /\ Range(list) = {}
    BY DEF Init, Once, Range
  <1> QED
    BY <1>1
    DEF Init, Served, MainTracks, Tracked, Finished, OpenedIsNamed, Accepting,
        ThreadPCs, UsingFile, Threads

\* Every reachable state has the list of threads in order.
LEMMA AlwaysServed ==
  ASSUME ListKept
  PROVE  Spec => []ServeInv
  <1>1. ServeInv /\ [Next]_vars => ServeInv'
    BY NextKeepsServeInv
  <1> QED
    BY <1>1, InitServeInv, PTL DEF Spec

\* A thread that main has started and linked stays in the list until it is joined,
\* over crashes and new starts, whatever the clients send, and when memory for a
\* buffer or a thread, a socket, or a part of the start is missing.
THEOREM ThreadsAreFound ==
  ASSUME ListKept
  PROVE  Spec => []NoThreadForgotten
  <1>1. ServeInv => NoThreadForgotten
    BY DEF ServeInv, Served, Tracked, NoThreadForgotten
  <1> QED
    BY <1>1, AlwaysServed, PTL

\* Under the same conditions, no socket is closed under the thread that uses it.
THEOREM SocketsOutliveThreads ==
  ASSUME ListKept
  PROVE  Spec => []SocketClosedAfterUse
  <1>1. ServeInv => SocketClosedAfterUse
    BY DEF ServeInv, Served, Tracked, SocketClosedAfterUse
  <1> QED
    BY <1>1, AlwaysServed, PTL

\* Under the same conditions, main returns only when every thread it started has
\* ended and its socket is closed.
THEOREM MainWaitsForThreads ==
  ASSUME ListKept
  PROVE  Spec => []ExitJoinsAll
  <1>1. ASSUME ServeInv PROVE ExitJoinsAll
    <2>1. pc[Main] = "exit" => list = <<>> /\ new = Null
      BY <1>1 DEF ServeInv, Served, MainTracks, TypeInv
    <2> QED
      BY <1>1, <2>1, EmptyListIsFinished DEF ExitJoinsAll
  <1>2. ServeInv => ExitJoinsAll
    BY <1>1
  <1> QED
    BY <1>2, AlwaysServed, PTL

\* Under the same conditions, the device keeps its name while a thread has it open:
\* the unlink of cleanup comes after the last thread.
THEOREM DeviceKeepsItsName ==
  ASSUME ListKept
  PROVE  Spec => []OpenedIsNamed
  <1>1. ServeInv => OpenedIsNamed
    BY DEF ServeInv, Served
  <1> QED
    BY <1>1, AlwaysServed, PTL

-----------------------------------------------------------------------------
(* The mutex of the device.                                                *)

\* The conditions under which no thread fails while it holds file_mutex: those on
\* the list, no seek that the device refuses, and no start after an unlink, which
\* leaves a file where the device was.
SeeksSucceed ==
  /\ ListKept /\ MaxStarts = 1
  /\ "seek_missing" \notin Faults /\ "seek_past" \notin Faults

\* The device is there until main returns, and takes every seek that is under way.
Released ==
  /\ FileMutexReleased
  /\ node = "device" \/ pc[Main] = "exit"
  /\ \A c \in Conns :
       pc[c] = "seek" => aesd_ioctl(input[c].write_cmd, input[c].past)

ReleaseInv == ServeInv /\ Released

\* A step that moves no thread to or from the device, or to a seek.
LEMMA OtherStepKeepsReleased ==
  ASSUME ReleaseInv, UNCHANGED <<file_mutex, input, data, node>>,
         pc[Main] = "exit" => pc'[Main] = "exit",
         \A c \in Conns : /\ pc[c] \in UsingFile => pc'[c] \in UsingFile
                          /\ pc'[c] = "seek" => pc[c] = "seek"
  PROVE  Released'
  <1>1. file_mutex \in Conns \cup {Nobody}
    BY DEF ReleaseInv, ServeInv, TypeInv, TypeOK
  <1> QED
    BY <1>1 DEF ReleaseInv, Released, FileMutexReleased, aesd_ioctl

\* A device that takes a seek takes it also after more packets.
LEMMA StoreKeepsSeeks ==
  ASSUME TypeOK, NEW c \in Conns, opened \in Stores, Store(c), NEW d \in Conns,
         aesd_ioctl(input[d].write_cmd, input[d].past), input' = input
  PROVE  aesd_ioctl(input[d].write_cmd, input[d].past)'
  <1>1. /\ data["device"] \in Seq(Packet) /\ data'["device"] \in Seq(Packet)
        /\ input[d].write_cmd \in Nat
    BY StoreFacts DEF TypeOK, Stores
  <1>2. ASSUME NEW e \in Packet, data'["device"] = Append(data["device"], e)
        PROVE  Len(data'["device"]) = Len(data["device"]) + 1
    BY <1>1, <1>2
  <1>3. Len(data'["device"]) \in {Len(data["device"]), Len(data["device"]) + 1}
    BY <1>2, StoreFacts DEF Stores
  <1> QED
    BY <1>1, <1>3, AesdSocketAssumption DEF aesd_ioctl

\* Every step gives file_mutex back when the thread is done with the device.
LEMMA NextKeepsReleaseInv ==
  ASSUME SeeksSucceed, ReleaseInv, Next
  PROVE  Released'
  <1> USE AesdSocketAssumption
  <1>0. /\ pc \in [Threads -> PCs] /\ data \in [Stores -> Seq(Packet)]
        /\ file_mutex \in Conns \cup {Nobody} /\ ServeInv /\ Released
        /\ \A d \in Conns : /\ pc[d] \in UsingFile => file_mutex = d
                            /\ pc[d] \in ThreadPCs
        /\ starts = 1
        /\ input \in [Conns -> [kind : {"none", "packet", "seek"}, cut : BOOLEAN,
                                write_cmd : Nat, past : BOOLEAN]]
        /\ TypeOK /\ \A d \in Conns : pc[d] \in UsingFile => opened \in Stores
    BY DEF ReleaseInv, ServeInv, TypeInv, TypeOK, FileMutexExclusion, Served,
           Tracked, SeeksSucceed
  <1>1. ~Restart
    BY <1>0 DEF Restart, SeeksSucceed
  <1>2. Alive
    BY <1>1 DEF Next
  <1>3. node = "device"
    BY <1>0, <1>2 DEF Released, Alive
  <1>4. ASSUME MainStep \/ end_program_singal \/ SecondInstance
                 \/ \E c \in Conns : MainAccept(c)
        PROVE  Released'
    <2>1. UNCHANGED <<file_mutex, input, data, node>>
      BY <1>4
      DEF MainStep, MainLoop, MainSleep, MainStart, MainLink, Boot, MainAccept,
          end_program_singal, SecondInstance, SeeksSucceed, ListKept, traffic, outside
    <2>2. ASSUME NEW c \in Conns
          PROVE  pc'[c] = pc[c] \/ (c = new /\ pc[Main] = "accepted" /\ pc'[c] = "start")
      BY <1>0, <1>4
      DEF MainStep, MainLoop, MainSleep, MainStart, MainLink, Boot, MainAccept,
          end_program_singal, SecondInstance, SeeksSucceed, ListKept, goto, Threads
    <2>3. \A c \in Conns : c = new /\ pc[Main] = "accepted" => pc[c] = "none"
      BY <1>0 DEF ServeInv, Served, Tracked
    <2>4. pc[Main] # "exit"
      BY <1>2 DEF Alive
    <2> QED
      BY <2>1, <2>2, <2>3, <2>4, OtherStepKeepsReleased DEF UsingFile
  <1>5. ASSUME NEW p \in Threads, Cleanup(p) PROVE Released'
    <2>1. pc[p] \in Cleaning \cup {"check", "check_walk"}
      BY <1>5 DEF Cleanup, LockList, check_completed_threads, clean_threads,
                  CleanupStart, CleanupEnd, Cleaning
    <2>2. p = Main
      BY <1>0, <2>1 DEF Threads, ThreadPCs, UsingFile, Cleaning
    <2>3. CASE CleanupEnd(p)
      <3>1. /\ pc'[Main] = "exit" /\ \A c \in Conns : pc'[c] = pc[c]
            /\ UNCHANGED <<file_mutex, input, data>>
        BY <1>0, <2>2, <2>3 DEF CleanupEnd, AfterCleanup, goto, Threads, traffic
      <3> QED
        BY <1>0, <3>1 DEF Released, FileMutexReleased, aesd_ioctl
    <2>4. CASE ~CleanupEnd(p)
      <3>1. /\ UNCHANGED <<file_mutex, input, data, node>>
            /\ \A c \in Conns : pc'[c] = pc[c]
        BY <1>0, <1>5, <2>2, <2>4
        DEF Cleanup, LockList, check_completed_threads, clean_threads, CleanupStart,
            Join, Crash, ForgetSelf, UnlockList, goto, Threads, traffic, outside
      <3>2. pc[Main] # "exit"
        BY <1>2 DEF Alive
      <3> QED
        BY <3>1, <3>2, OtherStepKeepsReleased
    <2> QED
      BY <2>3, <2>4
  <1>6. ASSUME NEW c \in Conns, Handle(c) \/ Receive(c) \/ HangUp(c) PROVE Released'
    <2>0. c \in Threads /\ pc[Main] # "exit"
      BY <1>2 DEF Threads, Alive
    <2>1. CASE Crash
      BY <2>1, OtherStepKeepsReleased DEF Crash, traffic, outside
    <2>2. CASE Start(c)
      BY <1>0, <2>0, <2>2, OtherStepKeepsReleased
      DEF Start, goto, Threads, traffic, outside, UsingFile
    <2>3. CASE set_thread_complete_success(c)
      BY <1>0, <2>0, <2>3, OtherStepKeepsReleased
      DEF set_thread_complete_success, goto, Threads, traffic, outside, UsingFile
    <2>4. CASE OpenFile(c)
      <3>1. /\ file_mutex' = c /\ pc'[c] = "flush" /\ UNCHANGED <<node, data, input>>
            /\ \A d \in Conns \ {c} : pc'[d] = pc[d]
        BY <1>0, <1>3, <2>0, <2>4
        DEF OpenFile, SeeksSucceed, ListKept, goto, Threads
      <3> QED
        BY <1>0, <1>3, <3>1 DEF Released, FileMutexReleased, UsingFile, aesd_ioctl
    <2>5. CASE Flush(c)
      <3>1. /\ file_mutex' = c /\ pc'[c] = "send" /\ UNCHANGED <<node, input>>
            /\ \A d \in Conns \ {c} : pc'[d] = pc[d]
        BY <1>0, <2>0, <2>5 DEF Flush, KeepFileMutex, goto, Threads, outside
      <3>2. opened \in Stores /\ (Store(c) \/ UNCHANGED data)
        BY <1>0, <2>5 DEF Flush, UsingFile
      <3>3. ASSUME NEW d \in Conns, pc'[d] = "seek"
            PROVE  aesd_ioctl(input[d].write_cmd, input[d].past)'
        BY <1>0, <3>1, <3>2, <3>3, StoreKeepsSeeks DEF Released, aesd_ioctl
      <3> QED
        BY <1>3, <3>1, <3>3 DEF Released, FileMutexReleased, UsingFile
    <2>6. CASE SeekFile(c)
      <3>1. CanSeek(input[c].write_cmd, input[c].past)
        BY <1>0, <1>3, <2>6 DEF SeekFile, CanSeek, Released
      <3>2. /\ file_mutex' = c /\ pc'[c] = "send" /\ UNCHANGED <<node, data, input>>
            /\ \A d \in Conns \ {c} : pc'[d] = pc[d]
        BY <1>0, <2>0, <2>6, <3>1
        DEF SeekFile, SeeksSucceed, ListKept, goto, Threads, traffic
      <3> QED
        BY <1>0, <1>3, <3>2 DEF Released, FileMutexReleased, UsingFile, aesd_ioctl
    <2>7. CASE Send(c) /\ ~Crash
      <3>1. /\ file_mutex' = Nobody /\ pc'[c] = "mark" /\ UNCHANGED <<node, input>>
            /\ \A d \in Conns \ {c} : pc'[d] = pc[d]
        BY <1>0, <2>0, <2>7 DEF Send, ReleaseFile, goto, Threads
      <3>2. opened \in Stores /\ (Store(c) \/ UNCHANGED data)
        BY <1>0, <2>7 DEF Send, UsingFile
      <3>3. ASSUME NEW d \in Conns, pc'[d] = "seek"
            PROVE  aesd_ioctl(input[d].write_cmd, input[d].past)'
        BY <1>0, <3>1, <3>2, <3>3, StoreKeepsSeeks DEF Released, aesd_ioctl
      <3> QED
        BY <1>0, <1>3, <3>1, <3>3 DEF Released, FileMutexReleased
    <2>8. CASE Receive(c)
      <3>1. /\ UNCHANGED <<file_mutex, data, node>> /\ pc[c] = "recv"
            /\ pc'[c] \notin UsingFile
            /\ \A d \in Conns \ {c} : pc'[d] = pc[d] /\ input'[d] = input[d]
        BY <1>0, <2>0, <2>8
        DEF Receive, get_ioctl_command, goto, Threads, outside, UsingFile
      <3>2. pc'[c] = "seek" => aesd_ioctl(input'[c].write_cmd, input'[c].past)
        <4>1. ASSUME NEW n \in Seeks, NEW past \in BOOLEAN,
                     input' = [input EXCEPT ![c].kind = "seek", ![c].write_cmd = n,
                                            ![c].past = past]
              PROVE  input'[c].write_cmd = n /\ input'[c].past = past
          <5>1. input'[c] = [input[c] EXCEPT !.kind = "seek", !.write_cmd = n,
                                              !.past = past]
            BY <1>0, <4>1
          <5> QED
            BY <1>0, <5>1
        <4>2. CASE get_ioctl_command(c) /\ goto(c, "seek")
          <5> DEFINE Sent(n, past) ==
                input' = [input EXCEPT ![c].kind = "seek", ![c].write_cmd = n,
                                       ![c].past = past]
          <5>1. goto(c, "seek") /\ ~goto(c, "mark")
            BY <1>0, <2>0, <4>2 DEF goto
          <5>2. \E n \in Seeks, past \in BOOLEAN :
                  /\ \/ CanSeek(n, past)
                     \/ "seek_missing" \in Faults
                     \/ "seek_past" \in Faults
                  /\ Sent(n, past)
            BY <4>2, <5>1, Zenon DEF get_ioctl_command
          <5> HIDE DEF Sent
          <5>3. \E n \in Seeks, past \in BOOLEAN : aesd_ioctl(n, past) /\ Sent(n, past)
            BY <5>2 DEF CanSeek, SeeksSucceed
          <5> QED
            BY <4>1, <5>3 DEF Sent
        <4>3. CASE goto(c, "mark") \/ goto(c, "packet") \/ UNCHANGED pc
          BY <1>0, <2>0, <3>1, <4>3 DEF goto
        <4> QED
          BY <2>8, <4>2, <4>3 DEF Receive, get_ioctl_command
      <3>3. \A d \in Conns : pc'[d] = "seek" =>
              aesd_ioctl(input'[d].write_cmd, input'[d].past)
        BY <1>0, <3>1, <3>2 DEF Released
      <3> QED
        BY <1>0, <1>3, <3>1, <3>3 DEF Released, FileMutexReleased, UsingFile, aesd_ioctl
    <2> QED
      BY <1>6, <2>1, <2>2, <2>3, <2>4, <2>5, <2>6, <2>7, <2>8 DEF Handle, HangUp
  <1> QED
    BY <1>1, <1>4, <1>5, <1>6 DEF Next

\* In one start of a server whose clients send seeks that the device takes, no thread
\* ends with file_mutex: a packet and a seek both give it back, also when the
\* signal ends the program meanwhile.
THEOREM FileMutexComesBack ==
  ASSUME SeeksSucceed
  PROVE  Spec => []FileMutexReleased
  <1>1. Init => Released
    BY AesdSocketAssumption DEF Init, Released, FileMutexReleased, Threads
  <1>2. Init => ReleaseInv
    BY <1>1, InitServeInv DEF ReleaseInv
  <1>3. ASSUME ReleaseInv, [Next]_vars PROVE ReleaseInv'
    <2>1. ServeInv'
      BY <1>3, NextKeepsServeInv DEF ReleaseInv, SeeksSucceed
    <2>2. CASE UNCHANGED vars
      BY <1>3, <2>1, <2>2
      DEF vars, ReleaseInv, Released, FileMutexReleased, aesd_ioctl
    <2> QED
      BY <1>3, <2>1, <2>2, NextKeepsReleaseInv DEF ReleaseInv
  <1>4. ReleaseInv /\ [Next]_vars => ReleaseInv'
    BY <1>3
  <1>5. ReleaseInv => FileMutexReleased
    BY DEF ReleaseInv, Released
  <1> QED
    BY <1>2, <1>4, <1>5, PTL DEF Spec

=============================================================================
