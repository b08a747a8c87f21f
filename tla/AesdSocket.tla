----------------------------- MODULE AesdSocket -----------------------------
(***************************************************************************)
(* The socket server, server/aesdsocket.c: its start, the accept loop of    *)
(* main, one message_handler_thread per connection, the list of threads     *)
(* with its mutex, the mutex around the device file, the signal that asks   *)
(* for the end, the cleanup that joins the threads, and a new start after   *)
(* the process has ended.                                                   *)
(*                                                                          *)
(* A connection, its thread, its thread_data and its list node have one     *)
(* name. A store is the log of the packets written to it, each a whole      *)
(* command of the device, which holds only the last of them: the server     *)
(* uses it under file_mutex, and AesdChar is about what the device does.    *)
(* The name /dev/aesdchar may be gone when the server opens it, which then  *)
(* makes an ordinary file of that name: the other store.                    *)
(***************************************************************************)
EXTENDS SequencesExt, Integers

CONSTANTS
  Conns,       \* the connections clients may make
  Main,        \* the main thread
  Nobody,      \* the owner of a free mutex
  Null,        \* the NULL pointer
  Wild,        \* a pointer to no node
  Garbage,     \* what the never assigned client_thread_node may hold
  Seeks,       \* the write_cmd values of AESDCHAR_IOCSEEKTO commands
  Capacity,    \* how many packets the device holds
  Earlier,     \* how many packets others wrote to the device before the start
  Faults,      \* what may go wrong around the server
  MaxStarts    \* bound: how often the server is started

AllFaults == {"nothread", "nomem_node", "nomem_buffer", "nofile", "hangup",
              "split", "bad_format", "seek_missing", "seek_past", "nowrite",
              "sigpipe", "nostart", "nosocket", "second_instance"}

ASSUME AesdSocketAssumption ==
  /\ Main \notin Conns /\ Nobody \notin Conns \cup {Main} /\ Null \notin Conns
  /\ Wild \notin Conns
  /\ Garbage \subseteq Conns \cup {Wild} /\ Garbage # {}
  /\ Seeks \subseteq Nat
  /\ Capacity \in Nat \ {0} /\ Earlier \in Nat
  /\ Faults \subseteq AllFaults
  /\ MaxStarts \in Nat \ {0}

Threads == Conns \cup {Main}

VARIABLES
  pc,            \* where each thread is
  keep_running,  \* cleared by the signal handler
  crashed,       \* the process was killed by a fault of its own
  file_mutex,    \* the owner of file_mutex
  list_mutex,    \* the owner of linked_list_mutex
  list,          \* client_threads_head: the nodes, first to last
  complete,      \* the nodes whose thread_complete_success is set
  last,          \* the local of main
  new,           \* the connection main has accepted and not yet linked
  tag,           \* data->client_thread_node of each thread
  fd,            \* the socket of each connection
  input,         \* what each thread has received
  data,          \* the packets of each store
  reply,         \* what each client was sent: a store and packets of it, or Null
  listening,     \* server_socket is open
  node,          \* what /dev/aesdchar names: "none" if it does not exist
  opened,        \* the store that the owner of file_mutex has open
  starts         \* how often the server was started

vars == <<pc, keep_running, crashed, file_mutex, list_mutex, list, complete,
          last, new, tag, fd, input, data, reply, listening, node, opened, starts>>
nodes == <<list, complete, last, new, tag>>
traffic == <<input, data, reply>>
outside == <<listening, node, opened, starts>>

Stores == {"device", "file"}

NoInput == [kind |-> "none", cut |-> FALSE, write_cmd |-> 0, past |-> FALSE]

\* The packets that were on the device before the server was started.
EarlierPackets == [i \in 1..Earlier |-> [from |-> Null, cut |-> FALSE]]

Init ==
  /\ pc = [p \in Threads |-> IF p = Main THEN "boot" ELSE "none"]
  /\ keep_running = TRUE /\ crashed = FALSE
  /\ file_mutex = Nobody /\ list_mutex = Nobody
  /\ list = <<>> /\ complete = {} /\ last = Null /\ new = Null
  /\ tag = [c \in Conns |-> Null]
  /\ fd = [c \in Conns |-> "none"]
  /\ input = [c \in Conns |-> NoInput]
  /\ data = [s \in Stores |-> IF s = "device" THEN EarlierPackets ELSE <<>>]
  /\ reply = [c \in Conns |-> Null]
  /\ listening = FALSE /\ node = "device" /\ opened = "none" /\ starts = 1

goto(p, where) == pc' = [pc EXCEPT ![p] = where]

\* A NULL dereference or an unhandled signal ends the process.
Crash ==
  /\ crashed' = TRUE
  /\ UNCHANGED <<pc, keep_running, file_mutex, list_mutex, nodes, fd, traffic,
                 outside>>

-----------------------------------------------------------------------------
(* The start and the end of the process.                                   *)

\* main up to the accept loop. The signal handlers, the mutexes or the socket fail:
\* main returns. The address, the options, bind, fork, setsid or listen fail: it
\* calls cleanup first.
Boot ==
  /\ pc[Main] = "boot"
  /\ \/ /\ listening' = TRUE
        /\ goto(Main, "loop")
     \/ /\ "nosocket" \in Faults
        /\ goto(Main, "exit")
        /\ UNCHANGED listening
     \/ /\ "nostart" \in Faults
        /\ goto(Main, "cleanup")
        /\ UNCHANGED listening
  /\ UNCHANGED <<keep_running, crashed, file_mutex, list_mutex, nodes, fd,
                 traffic, node, opened, starts>>

\* The process has ended: main has returned, or a fault of its own has killed it.
Alive == ~crashed /\ pc[Main] # "exit"

\* The server is started again. The kernel has closed what the old process had
\* open; the stores and the name /dev/aesdchar are as it left them.
Restart ==
  /\ starts < MaxStarts
  /\ starts' = starts + 1
  /\ pc' = [p \in Threads |-> IF p = Main THEN "boot" ELSE "none"]
  /\ keep_running' = TRUE /\ crashed' = FALSE
  /\ file_mutex' = Nobody /\ list_mutex' = Nobody
  /\ list' = <<>> /\ complete' = {} /\ last' = Null /\ new' = Null
  /\ tag' = [c \in Conns |-> Null]
  /\ fd' = [c \in Conns |-> IF fd[c] = "none" THEN "none" ELSE "closed"]
  /\ listening' = FALSE /\ opened' = "none"
  /\ UNCHANGED <<traffic, node>>

\* While the server listens, another one is started: it cannot bind the port and
\* runs cleanup, whose unlink removes the name that the two share.
SecondInstance ==
  /\ "second_instance" \in Faults /\ listening
  /\ node' = "none"
  /\ UNCHANGED <<pc, keep_running, crashed, file_mutex, list_mutex, nodes, fd,
                 traffic, listening, opened, starts>>

-----------------------------------------------------------------------------
(* The accept loop of main.                                                *)

\* The test of keep_running, and create_thread_data.
MainLoop ==
  /\ pc[Main] = "loop"
  /\ goto(Main, IF keep_running THEN "accept" ELSE "cleanup")
  /\ UNCHANGED <<keep_running, crashed, file_mutex, list_mutex, nodes, fd,
                 traffic, outside>>

\* main goes to sleep in accept, which fails if the socket has been closed. A
\* signal before this step is not noticed by it.
MainSleep ==
  /\ pc[Main] = "accept"
  /\ goto(Main, IF listening THEN "accepting" ELSE "accepted")
  /\ UNCHANGED <<keep_running, crashed, file_mutex, list_mutex, nodes, fd,
                 traffic, outside>>

\* accept returns a connection.
MainAccept(c) ==
  /\ pc[Main] = "accepting" /\ fd[c] = "none"
  /\ fd' = [fd EXCEPT ![c] = "open"]
  /\ new' = c
  /\ goto(Main, "accepted")
  /\ UNCHANGED <<keep_running, crashed, file_mutex, list_mutex, list, complete,
                 last, tag, traffic, outside>>

\* SIGINT or SIGTERM; the handler runs on the main thread, and interrupts accept.
end_program_singal ==
  /\ keep_running
  /\ keep_running' = FALSE
  /\ pc' = [pc EXCEPT ![Main] = IF @ = "accepting" THEN "accepted" ELSE @]
  /\ UNCHANGED <<crashed, file_mutex, list_mutex, nodes, fd, traffic, outside>>

\* After accept: leave the loop, try again, or start a thread for the connection.
\* On the way out of the loop the socket of a new connection is not closed.
MainStart ==
  /\ pc[Main] = "accepted"
  /\ \/ /\ ~keep_running
        /\ goto(Main, "cleanup")
        /\ new' = Null
        /\ UNCHANGED <<tag, fd>>
     \/ /\ keep_running /\ new = Null
        /\ goto(Main, "loop")
        /\ UNCHANGED <<tag, fd, new>>
     \/ /\ keep_running /\ new # Null
        /\ \E g \in Garbage : tag' = [tag EXCEPT ![new] = g]
        /\ pc' = [pc EXCEPT ![Main] = "created", ![new] = "start"]
        /\ UNCHANGED <<fd, new>>
     \/ /\ keep_running /\ new # Null /\ "nothread" \in Faults
        /\ fd' = [fd EXCEPT ![new] = "closed"]
        /\ new' = Null
        /\ goto(Main, "loop")
        /\ UNCHANGED tag
  /\ UNCHANGED <<keep_running, crashed, file_mutex, list_mutex, list, complete,
                 last, traffic, outside>>

\* Where a node is in the list, which has it only once.
PositionOf(c) == CHOOSE i \in DOMAIN list : list[i] = c

\* Mutant of Insert: the head is always replaced.
InsertAsOnly(c) == <<c>>

\* SLIST_INSERT_HEAD or SLIST_INSERT_AFTER(last). A node inserted after one that
\* has left the list is not reachable from the head.
Insert(c) ==
  IF last = Null THEN <<c>> \o list
  ELSE IF last \in Range(list) THEN InsertAt(list, PositionOf(last) + 1, c)
  ELSE list

\* The node is allocated and linked. A failure to allocate it closes the socket
\* that the thread is using.
MainLink ==
  /\ pc[Main] = "created"
  /\ \/ /\ list_mutex = Nobody
        /\ list' = Insert(new)
        /\ last' = new
        /\ goto(Main, "check")
        /\ UNCHANGED fd
     \/ /\ "nomem_node" \in Faults
        /\ fd' = [fd EXCEPT ![new] = "closed"]
        /\ goto(Main, "loop")
        /\ UNCHANGED <<list, last>>
  /\ new' = Null
  /\ UNCHANGED <<keep_running, crashed, file_mutex, list_mutex, complete, tag,
                 traffic, outside>>

-----------------------------------------------------------------------------
(* check_completed_threads, clean_threads and cleanup: run by main, and by a *)
(* thread that cannot open the device.                                       *)

\* Where a thread goes on after check_completed_threads and after cleanup.
AfterCheck(p) == IF pc[p] = "check_walk" THEN "loop" ELSE "clean"
AfterCleanup(p) == IF p = Main THEN "exit" ELSE "mark"

\* The two loops take the list mutex and hold it until they are done.
LockList(p) ==
  /\ pc[p] \in {"check", "cleanup_check", "clean"} /\ list_mutex = Nobody
  /\ list_mutex' = p
  /\ goto(p, CASE pc[p] = "check"         -> "check_walk"
               [] pc[p] = "cleanup_check" -> "cleanup_walk"
               [] pc[p] = "clean"         -> "clean_walk")
  /\ UNCHANGED <<keep_running, crashed, file_mutex, nodes, fd, traffic, outside>>

\* SLIST_REMOVE.
Unlinked(c) == RemoveAt(list, PositionOf(c))

\* Mutant of Joinable: the node is removed without waiting for the thread.
JoinableAtOnce(c) == TRUE

\* pthread_join returns.
Joinable(c) == pc[c] = "done"

\* Join the thread of a node, remove and free the node, close the socket. A
\* thread that joins itself gets an error and no thread_data to close.
Join(p, c) ==
  \/ /\ c # p /\ Joinable(c)
     /\ list' = Unlinked(c)
     /\ complete' = complete \ {c}
     /\ fd' = [fd EXCEPT ![c] = "closed"]
     /\ UNCHANGED <<pc, keep_running, crashed, file_mutex, list_mutex, last, new,
                    tag, traffic, outside>>
  \/ c = p /\ Crash

\* Mutant of ReleaseList: linked_list_mutex is not unlocked.
HoldList == UNCHANGED list_mutex

ReleaseList == list_mutex' = Nobody

UnlockList(p, where) ==
  /\ ReleaseList
  /\ goto(p, where)
  /\ UNCHANGED <<keep_running, crashed, file_mutex, nodes, fd, traffic, outside>>

\* check_completed_threads does not set temp_thread_data before the join that
\* fails: what it points to may be a socket to close, or nothing that is missed.
ForgetSelf(p) ==
  /\ list' = Unlinked(p)
  /\ complete' = complete \ {p}
  /\ \E closed \in {{}} \cup {{c} : c \in Conns} :
       fd' = [c \in Conns |-> IF c \in closed /\ fd[c] = "open" THEN "closed" ELSE fd[c]]
  /\ UNCHANGED <<pc, keep_running, crashed, file_mutex, list_mutex, last, new,
                 tag, traffic, outside>>

\* The first node that is marked complete, if there is one.
NextMarked ==
  {c \in Range(list) \cap complete :
     \A i \in 1..PositionOf(c) - 1 : list[i] \notin complete}

\* The loop of check_completed_threads: the next node that is marked complete.
check_completed_threads(p) ==
  /\ pc[p] \in {"check_walk", "cleanup_walk"}
  /\ \/ \E c \in NextMarked : Join(p, c)
     \/ p \in NextMarked /\ ForgetSelf(p)
     \/ NextMarked = {} /\ UnlockList(p, AfterCheck(p))

\* Mutant of Remaining: threads that were not marked complete are left behind.
RemainingComplete == SelectSeq(list, LAMBDA c : c \in complete)

\* The nodes clean_threads still has to join.
Remaining == list

\* The loop of clean_threads: the first node, whatever its thread is doing.
clean_threads(p) ==
  /\ pc[p] = "clean_walk"
  /\ \/ Remaining # <<>> /\ Join(p, Head(Remaining))
     \/ Remaining = <<>> /\ UnlockList(p, "unlink")

\* The start of cleanup, with its unlocked look at the list.
CleanupStart(p) ==
  /\ pc[p] = "cleanup"
  /\ goto(p, IF list # <<>> THEN "cleanup_check" ELSE "clean")
  /\ UNCHANGED <<keep_running, crashed, file_mutex, list_mutex, nodes, fd,
                 traffic, outside>>

\* The end of cleanup: unlink removes the name of the device, and the socket is
\* closed.
CleanupEnd(p) ==
  /\ pc[p] = "unlink"
  /\ node' = "none"
  /\ listening' = FALSE
  /\ goto(p, AfterCleanup(p))
  /\ UNCHANGED <<keep_running, crashed, file_mutex, list_mutex, nodes, fd, traffic,
                 opened, starts>>

-----------------------------------------------------------------------------
(* message_handler_thread                                                  *)

\* The buffer of the thread is allocated.
Start(c) ==
  /\ pc[c] = "start"
  /\ \/ goto(c, "recv")
     \/ "nomem_buffer" \in Faults /\ goto(c, "mark")
  /\ UNCHANGED <<keep_running, crashed, file_mutex, list_mutex, nodes, fd,
                 traffic, outside>>

\* The device takes the command: an index it does not have is refused as long as
\* the ring is not full, and an offset past the end of the command always.
aesd_ioctl(write_cmd, past) ==
  /\ Len(data["device"]) >= Capacity \/ write_cmd < Len(data["device"])
  /\ ~past

\* open without O_CREAT, and the ioctl, which no ordinary file has.
CanSeek(write_cmd, past) == node = "device" /\ aesd_ioctl(write_cmd, past)

\* What is parsed from a seek command; without memory, or if it is malformed, the
\* thread fails.
get_ioctl_command(c) ==
  \/ \E n \in Seeks, past \in BOOLEAN :
       /\ \/ CanSeek(n, past)
          \/ ~past /\ "seek_missing" \in Faults
          \/ past /\ "seek_past" \in Faults
       /\ input' = [input EXCEPT ![c].kind = "seek", ![c].write_cmd = n, ![c].past = past]
       /\ goto(c, "seek")
  \/ /\ "bad_format" \in Faults
     /\ goto(c, "mark")
     /\ UNCHANGED input

\* recv returned bytes: a packet with its newline, a seek command, or bytes
\* without a newline, which the loop forgets.
Receive(c) ==
  /\ pc[c] = "recv"
  /\ \/ /\ input' = [input EXCEPT ![c].kind = "packet"]
        /\ goto(c, "packet")
     \/ get_ioctl_command(c)
     \/ /\ "split" \in Faults
        /\ input' = [input EXCEPT ![c].cut = TRUE]
        /\ UNCHANGED pc
  /\ UNCHANGED <<keep_running, crashed, file_mutex, list_mutex, nodes, fd, data,
                 reply, outside>>

\* recv returned 0 or an error: the loop ends with no file, and fseek gets NULL.
HangUp(c) ==
  /\ "hangup" \in Faults /\ pc[c] = "recv"
  /\ Crash

\* Take file_mutex and open the device. Where the name is gone, fopen makes an
\* empty file; its failure calls cleanup with the mutex held.
OpenFile(c) ==
  /\ pc[c] = "packet" /\ file_mutex = Nobody
  /\ file_mutex' = c
  /\ \/ /\ goto(c, "flush")
        /\ node' = IF node = "none" THEN "file" ELSE node
        /\ opened' = node'
        /\ data' = IF node = "none" THEN [data EXCEPT !["file"] = <<>>] ELSE data
     \/ /\ "nofile" \in Faults
        /\ goto(c, "cleanup")
        /\ UNCHANGED <<node, opened, data>>
  /\ UNCHANGED <<keep_running, crashed, list_mutex, nodes, fd, input, reply,
                 listening, starts>>

\* Mutant of KeepFileMutex: the device is written and read back under two locks.
DropFileMutex(c) == file_mutex' = Nobody

KeepFileMutex(c) == file_mutex' = c

\* The packet has reached the store, whether or not that still has a name.
Store(c) ==
  data' = [data EXCEPT ![opened] = Append(@, [from |-> c, cut |-> input[c].cut])]

\* fwrite and fflush. The device or the disk may refuse the write: the result is
\* not looked at.
Flush(c) ==
  /\ pc[c] = "flush"
  /\ \/ Store(c)
     \/ "nowrite" \in Faults /\ UNCHANGED data
  /\ KeepFileMutex(c)
  /\ goto(c, "send")
  /\ UNCHANGED <<keep_running, crashed, list_mutex, nodes, fd, input, reply, outside>>

\* Take file_mutex, open the device and seek in it. When the name is gone, cannot
\* be opened or names a file, or the device refuses the command, the mutex is kept.
SeekFile(c) ==
  /\ pc[c] = "seek" /\ file_mutex = Nobody
  /\ file_mutex' = c
  /\ \/ /\ CanSeek(input[c].write_cmd, input[c].past)
        /\ opened' = "device"
        /\ goto(c, "send")
     \/ /\ ~CanSeek(input[c].write_cmd, input[c].past) \/ "nofile" \in Faults
        /\ goto(c, "mark")
        /\ UNCHANGED opened
  /\ UNCHANGED <<keep_running, crashed, list_mutex, nodes, fd, traffic, listening,
                 node, starts>>

\* Mutant of ReleaseFile: file_mutex is not unlocked after the reply.
HoldFile == UNCHANGED file_mutex

ReleaseFile == file_mutex' = Nobody

\* What a store held when n packets had been written to it: a full device has lost
\* the oldest of them.
HeldAfter(s, n) ==
  SubSeq(data[s], IF s = "device" /\ n > Capacity THEN n - Capacity + 1 ELSE 1, n)

Held(s) == HeldAfter(s, Len(data[s]))

\* What is read back: the store from its start, or from the command sought, to its
\* end.
ReadBack(c) == SubSeq(Held(opened), input[c].write_cmd + 1, Len(Held(opened)))

\* The write of the packet has failed.
Unwritten(c) ==
  /\ input[c].kind = "packet"
  /\ \A i \in DOMAIN data[opened] : data[opened][i].from # c

\* The store is read back and sent. When the write has failed, the stream may not
\* be readable, and fclose tries to write the packet again.
Send(c) ==
  /\ pc[c] = "send"
  /\ \/ /\ \E packets \in {ReadBack(c), <<>>} :
             /\ packets = ReadBack(c) \/ Unwritten(c)
             /\ reply' = [reply EXCEPT ![c] = [store |-> opened, packets |-> packets]]
        /\ UNCHANGED data \/ (Unwritten(c) /\ Store(c))
        /\ opened' = "none"
        /\ ReleaseFile
        /\ goto(c, "mark")
        /\ UNCHANGED <<keep_running, crashed, list_mutex, nodes, fd, input,
                       listening, node, starts>>
     \/ "sigpipe" \in Faults /\ Crash

\* Mutant of MarkedBy: the flag is set without looking the node up in the list.
MarkedUnchecked(c) == {tag[c]}

\* The node of the list that client_thread_node equals, if there is one.
MarkedBy(c) == Range(list) \cap {tag[c]}

set_thread_complete_success(c) ==
  /\ pc[c] = "mark" /\ list_mutex = Nobody
  /\ complete' = complete \cup MarkedBy(c)
  /\ goto(c, "done")
  /\ UNCHANGED <<keep_running, crashed, file_mutex, list_mutex, list, last, new,
                 tag, fd, traffic, outside>>

-----------------------------------------------------------------------------

Cleanup(p) ==
  \/ LockList(p) \/ check_completed_threads(p) \/ clean_threads(p)
  \/ CleanupStart(p) \/ CleanupEnd(p)

MainStep == Boot \/ MainLoop \/ MainSleep \/ MainStart \/ MainLink

\* What a thread does on its own once its client has sent something.
Handle(c) ==
  \/ Start(c) \/ OpenFile(c) \/ Flush(c) \/ SeekFile(c) \/ Send(c)
  \/ set_thread_complete_success(c)

Next ==
  \/ /\ Alive
     /\ \/ MainStep \/ end_program_singal \/ SecondInstance
        \/ \E p \in Threads : Cleanup(p)
        \/ \E c \in Conns : MainAccept(c) \/ Handle(c) \/ Receive(c) \/ HangUp(c)
  \/ ~Alive /\ Restart

Spec == Init /\ [][Next]_vars

\* The threads are scheduled, and a mutex is not withheld from a waiter for ever.
\* Nothing makes a client connect or send, a signal arrive, or a server start again.
Fairness ==
  /\ SF_vars(Alive /\ MainStep) /\ SF_vars(Alive /\ Cleanup(Main))
  /\ \A c \in Conns :
       /\ SF_vars(Alive /\ OpenFile(c)) /\ SF_vars(Alive /\ SeekFile(c))
       /\ SF_vars(Alive /\ set_thread_complete_success(c))
       /\ WF_vars(Alive /\ (Start(c) \/ Flush(c) \/ Send(c)))

FairSpec == Spec /\ Fairness

-----------------------------------------------------------------------------
(* Properties                                                              *)

UsingFile == {"flush", "send"}
Cleaning == {"cleanup", "cleanup_check", "cleanup_walk", "clean", "clean_walk",
             "unlink"}
PCs == UsingFile \cup Cleaning
         \cup {"none", "boot", "loop", "accept", "accepting", "accepted", "created",
               "check", "check_walk", "exit", "start", "recv", "packet", "seek",
               "mark", "done"}
Packet == [from : Conns \cup {Null}, cut : BOOLEAN]

\* The types of the state.
TypeOK ==
  /\ pc \in [Threads -> PCs]
  /\ keep_running \in BOOLEAN /\ crashed \in BOOLEAN
  /\ file_mutex \in Conns \cup {Nobody}
  /\ list_mutex \in Threads \cup {Nobody}
  /\ list \in Seq(Conns)
  /\ complete \subseteq Conns
  /\ last \in Conns \cup {Null} /\ new \in Conns \cup {Null}
  /\ tag \in [Conns -> Conns \cup {Wild, Null}]
  /\ fd \in [Conns -> {"none", "open", "closed"}]
  /\ input \in [Conns -> [kind : {"none", "packet", "seek"}, cut : BOOLEAN,
                          write_cmd : Nat, past : BOOLEAN]]
  /\ data \in [Stores -> Seq(Packet)]
  /\ reply \in [Conns -> [store : Stores, packets : Seq(Packet)] \cup {Null}]
  /\ listening \in BOOLEAN
  /\ node \in Stores \cup {"none"} /\ opened \in Stores \cup {"none"}
  /\ starts \in 1..MaxStarts

Finished(c) == pc[c] \in {"none", "done"}

\* The write and the read back of a packet are one operation on the device: no
\* other thread is between the two, whatever fails.
FileMutexExclusion ==
  \A c \in Conns : pc[c] \in UsingFile => file_mutex = c

\* The reply of a client whose packet the store refused: it has no packet of it.
LacksOwnPacket(c) ==
  /\ "nowrite" \in Faults
  /\ \A i \in DOMAIN reply[c].packets : reply[c].packets[i].from # c

\* A client that sends a packet is sent what its store holds, its own packet the
\* last and nothing written after it; only a write that failed, which the thread
\* does not notice, leaves the packet out. What the device has sent is what it held
\* at one moment, also over a crash and a new start of the server.
ReplyEndsWithOwnPacket ==
  \A c \in Conns :
    reply[c] # Null /\ input[c].kind = "packet" =>
      /\ \/ reply[c].packets # <<>> /\ Last(reply[c].packets).from = c
         \/ LacksOwnPacket(c)
      /\ reply[c].store = "device" =>
           \E n \in 0..Len(data["device"]) : reply[c].packets = HeldAfter("device", n)

\* While a thread writes and reads back a store, /dev/aesdchar still names it:
\* cleanup removes the name only when no thread is left.
OpenedIsNamed ==
  \A c \in Conns : pc[c] \in UsingFile => node = opened

\* Every packet goes to the device that /dev/aesdchar is there for, never to an
\* ordinary file of that name.
PacketsReachTheDevice == data["file"] = <<>>

\* Every thread that main has started and linked stays in the list until it is
\* joined, so that the shutdown can find it.
NoThreadForgotten ==
  \A c \in Conns \ {new} :
    pc[c] # "none" /\ fd[c] = "open" => c \in Range(list)

\* file_mutex is never left locked by a thread that is done with the device.
FileMutexReleased ==
  file_mutex # Nobody => pc[file_mutex] \in UsingFile

\* The socket of a connection is not closed under the thread that uses it.
SocketClosedAfterUse == \A c \in Conns : fd[c] = "closed" => Finished(c)

\* When main returns, every thread it started has ended and its socket is closed.
ExitJoinsAll ==
  pc[Main] = "exit" =>
    \A c \in Conns : Finished(c) /\ (pc[c] = "done" => fd[c] = "closed")

\* A client whose packet was received gets its reply, also during the shutdown.
RepliesArrive ==
  \A c \in Conns : input[c].kind = "packet" ~> reply[c] # Null

\* The signal has reached a main that is not about to sleep in accept.
SignalSeen == ~keep_running /\ pc[Main] \notin {"accept", "accepting"}

\* With no thread left at work, a signal ends the program: cleanup joins every
\* thread, whether or not it was marked complete, and main returns.
GracefulExit ==
  SignalSeen /\ (\A c \in Conns : Finished(c)) ~> pc[Main] = "exit"

\* The signal ends the program once the threads have what they wait for.
ShutdownCompletes ==
  SignalSeen /\ (\A c \in Conns : pc[c] \notin {"start", "recv"})
    ~> pc[Main] = "exit"

=============================================================================
