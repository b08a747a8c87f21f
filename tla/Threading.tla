----------------------------- MODULE Threading -----------------------------
(***************************************************************************)
(* examples/threading: a program that starts threads, each of which sleeps, *)
(* takes a mutex, sleeps, gives it back and returns its thread_data, and    *)
(* joins them. The joiner is not part of the repository; it does what       *)
(* threading.h asks of it.                                                  *)
(*                                                                          *)
(* Names that other modules use too have the prefix Threading, so that      *)
(* Examples can extend this module and SystemCalls.                         *)
(***************************************************************************)
EXTENDS Integers, FiniteSets

CONSTANTS
  Workers,         \* the threads
  Mutexes,         \* the mutexes of the caller
  Blocks,          \* the memory malloc may return
  NoWorker,        \* the owner of a free mutex
  NoBlock,         \* the NULL pointer
  ThreadingFaults  \* what may go wrong

\* struct thread_data. thread_complete_success is whatever the memory held until
\* it is set; the two times only decide how long the thread sleeps.
thread_data == [mutex : Mutexes, success : {"junk", "true"}]

ASSUME ThreadingAssumption ==
  /\ NoWorker \notin Workers
  /\ NoBlock \notin Blocks \cup thread_data
  /\ ThreadingFaults \subseteq {"nomem", "nothread", "nolock"}

VARIABLES
  where,       \* where each thread is
  starting,    \* the thread_data start_thread_obtaining_mutex has allocated
  param,       \* the thread_data each thread was given
  memory,      \* the thread_data in each block; NoBlock if it is free
  owner,       \* the owner of each mutex
  released,    \* the threads that have obtained and released their mutex
  reported     \* the thread_complete_success that the joiner has read

ThreadingVars == <<where, starting, param, memory, owner, released, reported>>

ThreadingInit ==
  /\ where = [w \in Workers |-> "none"]
  /\ starting = NoBlock
  /\ param = [w \in Workers |-> NoBlock]
  /\ memory = [b \in Blocks |-> NoBlock]
  /\ owner = [m \in Mutexes |-> NoWorker]
  /\ released = {}
  /\ reported = [w \in Workers |-> "unread"]

\* The mutex of a thread.
MutexOf(w) == memory[param[w]].mutex

\* Mutant of FreshThreadData: the thread is given the memory of another one.
SharedThreadData(b) == memory[b] # NoBlock \/ \A a \in Blocks : memory[a] = NoBlock

FreshThreadData(b) == memory[b] = NoBlock

\* start_thread_obtaining_mutex up to pthread_create: thread_complete_success is
\* not set and holds what was in the memory.
AllocateThreadData(m) ==
  /\ starting = NoBlock
  /\ \/ \E b \in Blocks :
          /\ FreshThreadData(b)
          /\ memory' = [memory EXCEPT ![b] = [mutex |-> m, success |-> "junk"]]
          /\ starting' = b
     \/ /\ "nomem" \in ThreadingFaults
        /\ UNCHANGED <<memory, starting>>
  /\ UNCHANGED <<where, param, owner, released, reported>>

\* pthread_create; its failure frees the thread_data.
CreateThread(w) ==
  /\ starting # NoBlock /\ where[w] = "none"
  /\ starting' = NoBlock
  /\ \/ /\ where' = [where EXCEPT ![w] = "sleep"]
        /\ param' = [param EXCEPT ![w] = starting]
        /\ reported' = [reported EXCEPT ![w] = "unread"]
        /\ UNCHANGED memory
     \/ /\ "nothread" \in ThreadingFaults
        /\ memory' = [memory EXCEPT ![starting] = NoBlock]
        /\ UNCHANGED <<where, param, reported>>
  /\ UNCHANGED <<owner, released>>

\* threadfunc: the first sleep ends.
Wake(w) ==
  /\ where[w] = "sleep"
  /\ where' = [where EXCEPT ![w] = "lock"]
  /\ UNCHANGED <<starting, param, memory, owner, released, reported>>

\* Mutant of Free: the mutex is taken whether or not it is free.
FreeAlways(m) == TRUE

Free(m) == owner[m] = NoWorker

\* pthread_mutex_lock
ObtainMutex(w) ==
  /\ where[w] = "lock"
  /\ Free(MutexOf(w))
  /\ owner' = [owner EXCEPT ![MutexOf(w)] = w]
  /\ where' = [where EXCEPT ![w] = "hold"]
  /\ UNCHANGED <<starting, param, memory, released, reported>>

\* pthread_mutex_lock fails: the thread returns with the flag as it was.
LockFails(w) ==
  /\ "nolock" \in ThreadingFaults
  /\ where[w] = "lock"
  /\ where' = [where EXCEPT ![w] = "ended"]
  /\ UNCHANGED <<starting, param, memory, owner, released, reported>>

\* Mutant of Unlock: the mutex is not released.
KeepLocked(w) == UNCHANGED owner

Unlock(w) == owner' = [owner EXCEPT ![MutexOf(w)] = NoWorker]

\* The second sleep ends and the mutex is released; by its owner, which does not
\* fail.
ReleaseMutex(w) ==
  /\ where[w] = "hold"
  /\ Unlock(w)
  /\ released' = released \cup {w}
  /\ where' = [where EXCEPT ![w] = "flag"]
  /\ UNCHANGED <<starting, param, memory, reported>>

\* Mutants of SuccessFlag: the flag is left as malloc returned it, or cleared.
FlagUnset(w) == memory[param[w]].success
FlagCleared(w) == "false"

SuccessFlag(w) == "true"

\* thread_complete_success is set, and the thread returns its thread_data.
SetFlag(w) ==
  /\ where[w] = "flag"
  /\ memory' = [memory EXCEPT ![param[w]].success = SuccessFlag(w)]
  /\ where' = [where EXCEPT ![w] = "ended"]
  /\ UNCHANGED <<starting, param, owner, released, reported>>

\* The joiner reads the flag and frees the thread_data. A flag that was never set
\* reads as anything.
JoinThread(w) ==
  /\ where[w] = "ended"
  /\ \E flag \in {"true", "false"} :
       /\ memory[param[w]].success \in {flag, "junk"}
       /\ reported' = [reported EXCEPT ![w] = flag]
  /\ where' = [where EXCEPT ![w] = "none"]
  /\ memory' = [memory EXCEPT ![param[w]] = NoBlock]
  /\ param' = [param EXCEPT ![w] = NoBlock]
  /\ released' = released \ {w}
  /\ UNCHANGED <<starting, owner>>

ThreadingNext ==
  \/ \E m \in Mutexes : AllocateThreadData(m)
  \/ \E w \in Workers : \/ CreateThread(w) \/ JoinThread(w) \/ Wake(w)
                        \/ ObtainMutex(w) \/ LockFails(w)
                        \/ ReleaseMutex(w) \/ SetFlag(w)

ThreadingSpec == ThreadingInit /\ [][ThreadingNext]_ThreadingVars

\* The sleeps end and the threads are scheduled; a mutex that is free again and
\* again is not withheld for ever. Nothing makes a lock fail.
ThreadingFairness ==
  \A w \in Workers :
    /\ WF_ThreadingVars(Wake(w) \/ ReleaseMutex(w) \/ SetFlag(w))
    /\ SF_ThreadingVars(ObtainMutex(w))

-----------------------------------------------------------------------------
(* Properties                                                              *)

Running == {"sleep", "lock", "hold", "flag", "ended"}

\* The types of the state.
ThreadingTypeOK ==
  /\ where \in [Workers -> Running \cup {"none"}]
  /\ starting \in Blocks \cup {NoBlock}
  /\ param \in [Workers -> Blocks \cup {NoBlock}]
  /\ memory \in [Blocks -> thread_data \cup {NoBlock}]
  /\ owner \in [Mutexes -> Workers \cup {NoWorker}]
  /\ released \subseteq Workers
  /\ reported \in [Workers -> {"unread", "true", "false"}]

\* A thread in its second sleep owns its mutex: between pthread_mutex_lock and
\* unlock of threadfunc there is one thread for each mutex.
MutexHeldByOne ==
  \A w \in Workers : where[w] = "hold" => owner[MutexOf(w)] = w

\* The pointers to thread_data: those of the threads, and the local new_data.
Held == {param[w] : w \in Workers} \cup {starting}

\* Each thread, from its start to its join, has a thread_data of its own, which is
\* allocated; no other memory is: nothing is freed twice, too early or never.
ThreadDataOwned ==
  /\ \A w \in Workers : where[w] \in Running => param[w] \in Blocks \ {starting}
  /\ \A v, w \in Workers : v # w /\ param[v] = param[w] => param[v] = NoBlock
  /\ \A b \in Blocks : memory[b] # NoBlock <=> b \in Held

\* A thread that has obtained and released its mutex is reported to the joiner as
\* a success, although the flag was never initialised.
SuccessReported ==
  [][\A w \in released : JoinThread(w) => reported'[w] = "true"]_ThreadingVars

\* Every thread that was started ends, so that the joiner is not kept waiting.
ThreadsFinish == \A w \in Workers : where[w] = "sleep" ~> where[w] = "ended"

=============================================================================
