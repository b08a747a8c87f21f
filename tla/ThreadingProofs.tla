--------------------------- MODULE ThreadingProofs ---------------------------
(***************************************************************************)
(* For any number of threads, mutexes and blocks, and all failures: a      *)
(* thread has a thread_data of its own from start to join, owns its mutex  *)
(* while it sleeps with it, and is reported as a success when it has given *)
(* the mutex back.                                                         *)
(***************************************************************************)
EXTENDS Threading, TLAPS

\* A thread that was not started, or was joined, has no thread_data.
NotStarted == \A w \in Workers : where[w] = "none" => param[w] = NoBlock

\* The two properties need each other: the mutex of a thread is a field of its
\* thread_data, which must not be freed, or given to another thread, meanwhile.
ThreadingInv == ThreadingTypeOK /\ MutexHeldByOne /\ ThreadDataOwned /\ NotStarted

\* A block holds a thread_data exactly if it is not free.
LEMMA ThreadDataIsNotFree == \A d \in thread_data : d # NoBlock
  BY ThreadingAssumption

\* A running thread has a block, and the block a mutex.
LEMMA RunningHasMutex ==
  ASSUME ThreadingInv, NEW w \in Workers, where[w] # "none"
  PROVE  /\ param[w] \in Blocks /\ param[w] # starting
         /\ memory[param[w]] \in thread_data
         /\ MutexOf(w) \in Mutexes
  <1>1. where[w] \in Running
    BY DEF ThreadingInv, ThreadingTypeOK
  <1>2. param[w] \in Blocks /\ param[w] # starting
    BY <1>1 DEF ThreadingInv, ThreadDataOwned
  <1>3. param[w] \in Held
    BY DEF Held
  <1>4. memory[param[w]] \in thread_data
    BY <1>2, <1>3 DEF ThreadingInv, ThreadDataOwned, ThreadingTypeOK
  <1> QED
    BY <1>2, <1>4 DEF MutexOf, thread_data

\* A step that changes where one thread is, within its run, and no pointer and no
\* memory, keeps everything but MutexHeldByOne.
LEMMA MoveKeeps ==
  ASSUME ThreadingInv, NEW w \in Workers, NEW place \in Running,
         where[w] # "none", where' = [where EXCEPT ![w] = place],
         UNCHANGED <<starting, param, memory>>,
         owner' \in [Mutexes -> Workers \cup {NoWorker}],
         released' \in SUBSET Workers,
         reported' = reported
  PROVE  ThreadingTypeOK' /\ ThreadDataOwned' /\ NotStarted'
  <1>1. ThreadingTypeOK'
    BY DEF ThreadingInv, ThreadingTypeOK
  <1>2. NotStarted'
    BY DEF ThreadingInv, NotStarted, ThreadingTypeOK, Running
  <1>3. Held' = Held
    BY DEF Held
  <1>4. \A v \in Workers : where'[v] \in Running => where[v] \in Running
    BY DEF ThreadingInv, ThreadingTypeOK
  <1>5. ThreadDataOwned'
    BY <1>3, <1>4 DEF ThreadingInv, ThreadDataOwned
  <1> QED
    BY <1>1, <1>2, <1>5

\* The same step keeps MutexHeldByOne when the thread does not come to hold its
\* mutex and the owners stay.
LEMMA MoveKeepsInv ==
  ASSUME ThreadingInv, NEW w \in Workers, NEW place \in Running \ {"hold"},
         where[w] # "none", where' = [where EXCEPT ![w] = place],
         UNCHANGED <<starting, param, memory, owner, released, reported>>
  PROVE  ThreadingInv'
  <1>1. ThreadingTypeOK' /\ ThreadDataOwned' /\ NotStarted'
    BY MoveKeeps DEF ThreadingInv, ThreadingTypeOK
  <1>2. \A v \in Workers : where'[v] = "hold" => where[v] = "hold"
    BY DEF ThreadingInv, ThreadingTypeOK
  <1>3. MutexHeldByOne'
    BY <1>2 DEF ThreadingInv, MutexHeldByOne, MutexOf
  <1> QED
    BY <1>1, <1>3 DEF ThreadingInv

\* The initial states have the invariant.
LEMMA InitEstablishes == ThreadingInit => ThreadingInv
  <1> SUFFICES ASSUME ThreadingInit PROVE ThreadingInv
    OBVIOUS
  <1>1. ThreadingTypeOK /\ MutexHeldByOne /\ NotStarted
    BY DEF ThreadingInit, ThreadingTypeOK, MutexHeldByOne, NotStarted
  <1>2. Held \subseteq {NoBlock}
    BY DEF ThreadingInit, Held
  <1>3. ThreadDataOwned
    BY <1>2, ThreadingAssumption DEF ThreadingInit, ThreadDataOwned, Running
  <1> QED
    BY <1>1, <1>3 DEF ThreadingInv

\* The new thread_data is nobody else's.
LEMMA AllocateKeeps ==
  ASSUME ThreadingInv, NEW m \in Mutexes, AllocateThreadData(m)
  PROVE  ThreadingInv'
  <1>1. CASE UNCHANGED <<memory, starting>>
    BY <1>1 DEF AllocateThreadData, ThreadingInv, ThreadingTypeOK, MutexHeldByOne,
                MutexOf, ThreadDataOwned, Held, NotStarted
  <1>2. ASSUME NEW b \in Blocks, FreshThreadData(b), starting' = b,
               memory' = [memory EXCEPT ![b] = [mutex |-> m, success |-> "junk"]]
        PROVE  ThreadingInv'
    <2>1. starting = NoBlock /\ UNCHANGED <<where, param, owner, released, reported>>
      BY DEF AllocateThreadData
    <2>2. [mutex |-> m, success |-> "junk"] \in thread_data
      BY DEF thread_data
    <2>3. b \notin Held
      BY <1>2 DEF FreshThreadData, ThreadingInv, ThreadDataOwned
    <2>4. \A w \in Workers : param[w] # b
      BY <2>3 DEF Held
    <2>5. ThreadingTypeOK'
      BY <1>2, <2>1, <2>2 DEF ThreadingInv, ThreadingTypeOK
    <2>6. NotStarted'
      BY <2>1 DEF ThreadingInv, NotStarted
    <2>7. MutexHeldByOne'
      <3>1. \A w \in Workers : where[w] = "hold" => memory'[param[w]] = memory[param[w]]
        BY <1>2, <2>4, RunningHasMutex DEF ThreadingInv, ThreadingTypeOK
      <3> QED
        BY <2>1, <3>1 DEF ThreadingInv, MutexHeldByOne, MutexOf
    <2>8. \A a \in Blocks : a \in Held' <=> a \in Held \/ a = b
      BY <1>2, <2>1, ThreadingAssumption DEF Held
    <2>9. \A a \in Blocks : memory'[a] # NoBlock <=> a \in Held'
      BY <1>2, <2>2, <2>8, ThreadDataIsNotFree
      DEF ThreadingInv, ThreadDataOwned, ThreadingTypeOK
    <2>10. ThreadDataOwned'
      BY <1>2, <2>1, <2>4, <2>9 DEF ThreadingInv, ThreadDataOwned
    <2> QED
      BY <2>5, <2>6, <2>7, <2>10 DEF ThreadingInv
  <1> QED
    BY <1>1, <1>2 DEF AllocateThreadData

\* pthread_create hands the thread_data over; its failure frees it.
LEMMA CreateKeeps ==
  ASSUME ThreadingInv, NEW w \in Workers, CreateThread(w)
  PROVE  ThreadingInv'
  <1>1. /\ starting # NoBlock /\ starting' = NoBlock /\ where[w] = "none"
        /\ starting \in Blocks /\ param[w] = NoBlock
        /\ UNCHANGED <<owner, released>>
    BY DEF CreateThread, ThreadingInv, ThreadingTypeOK, NotStarted
  <1>2. \A v \in Workers : param[v] # starting
    BY <1>1, ThreadingAssumption
    DEF ThreadingInv, ThreadingTypeOK, ThreadDataOwned, NotStarted
  <1>3. CASE /\ where' = [where EXCEPT ![w] = "sleep"]
             /\ param' = [param EXCEPT ![w] = starting]
             /\ reported' = [reported EXCEPT ![w] = "unread"]
             /\ UNCHANGED memory
    <2>1. ThreadingTypeOK'
      BY <1>1, <1>3 DEF ThreadingInv, ThreadingTypeOK, Running
    <2>2. NotStarted'
      BY <1>1, <1>3 DEF ThreadingInv, ThreadingTypeOK, NotStarted
    <2>3. MutexHeldByOne'
      BY <1>1, <1>3 DEF ThreadingInv, ThreadingTypeOK, MutexHeldByOne, MutexOf
    <2>4. \A a \in Blocks : a \in Held' <=> a \in Held
      BY <1>1, <1>3, ThreadingAssumption DEF Held, ThreadingInv, ThreadingTypeOK
    <2>5. ThreadDataOwned'
      BY <1>1, <1>2, <1>3, <2>4, ThreadingAssumption
      DEF ThreadingInv, ThreadingTypeOK, ThreadDataOwned
    <2> QED
      BY <2>1, <2>2, <2>3, <2>5 DEF ThreadingInv
  <1>4. CASE /\ memory' = [memory EXCEPT ![starting] = NoBlock]
             /\ UNCHANGED <<where, param, reported>>
    <2>1. ThreadingTypeOK' /\ NotStarted'
      BY <1>1, <1>4 DEF ThreadingInv, ThreadingTypeOK, NotStarted
    <2>2. MutexHeldByOne'
      <3>1. \A v \in Workers : where[v] = "hold" => memory'[param[v]] = memory[param[v]]
        BY <1>2, <1>4, RunningHasMutex DEF ThreadingInv, ThreadingTypeOK
      <3> QED
        BY <1>1, <1>4, <3>1 DEF ThreadingInv, MutexHeldByOne, MutexOf
    <2>3. \A a \in Blocks : a \in Held' <=> a \in Held /\ a # starting
      BY <1>1, <1>2, <1>4, ThreadingAssumption DEF Held
    <2>4. \A a \in Blocks : memory'[a] # NoBlock <=> a \in Held'
      BY <1>1, <1>4, <2>3 DEF ThreadingInv, ThreadDataOwned, ThreadingTypeOK
    <2>5. ThreadDataOwned'
      BY <1>1, <1>4, <2>4, ThreadingAssumption DEF ThreadingInv, ThreadDataOwned
    <2> QED
      BY <2>1, <2>2, <2>5 DEF ThreadingInv
  <1> QED
    BY <1>3, <1>4 DEF CreateThread

\* The mutex was free, so no other thread held it.
LEMMA ObtainKeeps ==
  ASSUME ThreadingInv, NEW w \in Workers, ObtainMutex(w)
  PROVE  ThreadingInv'
  <1>1. /\ where[w] = "lock" /\ owner[MutexOf(w)] = NoWorker
        /\ owner' = [owner EXCEPT ![MutexOf(w)] = w]
        /\ where' = [where EXCEPT ![w] = "hold"]
        /\ UNCHANGED <<starting, param, memory, released, reported>>
    BY DEF ObtainMutex, Free
  <1>2. MutexOf(w) \in Mutexes
    BY <1>1, RunningHasMutex
  <1>3. ThreadingTypeOK' /\ ThreadDataOwned' /\ NotStarted'
    <2>1. owner' \in [Mutexes -> Workers \cup {NoWorker}]
      BY <1>1, <1>2 DEF ThreadingInv, ThreadingTypeOK
    <2> QED
      BY <1>1, <2>1, MoveKeeps DEF ThreadingInv, ThreadingTypeOK, Running
  <1>4. \A v \in Workers : MutexOf(v)' = MutexOf(v)
    BY <1>1 DEF MutexOf
  <1>5. ASSUME NEW v \in Workers, where'[v] = "hold" PROVE owner'[MutexOf(v)] = v
    <2>1. CASE v = w
      BY <1>1, <1>2, <2>1 DEF ThreadingInv, ThreadingTypeOK
    <2>2. CASE v # w
      <3>1. where[v] = "hold"
        BY <1>1, <1>5, <2>2 DEF ThreadingInv, ThreadingTypeOK
      <3>2. owner[MutexOf(v)] = v /\ MutexOf(v) \in Mutexes
        BY <3>1, RunningHasMutex DEF ThreadingInv, MutexHeldByOne
      <3> QED
        BY <1>1, <1>2, <3>2, ThreadingAssumption DEF ThreadingInv, ThreadingTypeOK
    <2> QED
      BY <2>1, <2>2
  <1> QED
    BY <1>3, <1>4, <1>5 DEF ThreadingInv, MutexHeldByOne

\* The mutex a thread releases is its own, and no other thread holds it.
LEMMA ReleaseKeeps ==
  ASSUME ThreadingInv, NEW w \in Workers, ReleaseMutex(w)
  PROVE  ThreadingInv'
  <1>1. /\ where[w] = "hold"
        /\ owner' = [owner EXCEPT ![MutexOf(w)] = NoWorker]
        /\ where' = [where EXCEPT ![w] = "flag"]
        /\ released' = released \cup {w}
        /\ UNCHANGED <<starting, param, memory, reported>>
    BY DEF ReleaseMutex, Unlock
  <1>2. MutexOf(w) \in Mutexes /\ owner[MutexOf(w)] = w
    BY <1>1, RunningHasMutex DEF ThreadingInv, MutexHeldByOne
  <1>3. ThreadingTypeOK' /\ ThreadDataOwned' /\ NotStarted'
    <2>1. owner' \in [Mutexes -> Workers \cup {NoWorker}] /\ released' \in SUBSET Workers
      BY <1>1, <1>2 DEF ThreadingInv, ThreadingTypeOK
    <2> QED
      BY <1>1, <2>1, MoveKeeps DEF Running
  <1>4. \A v \in Workers : MutexOf(v)' = MutexOf(v)
    BY <1>1 DEF MutexOf
  <1>5. ASSUME NEW v \in Workers, where'[v] = "hold" PROVE owner'[MutexOf(v)] = v
    <2>1. v # w /\ where[v] = "hold"
      BY <1>1, <1>5 DEF ThreadingInv, ThreadingTypeOK
    <2>2. owner[MutexOf(v)] = v /\ MutexOf(v) \in Mutexes
      BY <2>1, RunningHasMutex DEF ThreadingInv, MutexHeldByOne
    <2> QED
      BY <1>1, <1>2, <2>1, <2>2 DEF ThreadingInv, ThreadingTypeOK
  <1> QED
    BY <1>3, <1>4, <1>5 DEF ThreadingInv, MutexHeldByOne

\* Setting the flag leaves the mutex of each thread_data alone.
LEMMA SetFlagKeeps ==
  ASSUME ThreadingInv, NEW w \in Workers, SetFlag(w)
  PROVE  ThreadingInv'
  <1>1. /\ where[w] = "flag"
        /\ memory' = [memory EXCEPT ![param[w]].success = "true"]
        /\ where' = [where EXCEPT ![w] = "ended"]
        /\ UNCHANGED <<starting, param, owner, released, reported>>
    BY DEF SetFlag, SuccessFlag
  <1>2. param[w] \in Blocks /\ memory[param[w]] \in thread_data
    BY <1>1, RunningHasMutex
  <1>3. /\ memory'[param[w]] \in thread_data
        /\ memory'[param[w]].mutex = memory[param[w]].mutex
    BY <1>1, <1>2 DEF ThreadingInv, ThreadingTypeOK, thread_data
  <1>4. /\ memory' \in [Blocks -> thread_data \cup {NoBlock}]
        /\ \A b \in Blocks \ {param[w]} : memory'[b] = memory[b]
    BY <1>1, <1>2, <1>3 DEF ThreadingInv, ThreadingTypeOK
  <1>5. ThreadingTypeOK' /\ NotStarted'
    BY <1>1, <1>4 DEF ThreadingInv, ThreadingTypeOK, NotStarted, Running
  <1>6. MutexHeldByOne'
    <2>1. ASSUME NEW v \in Workers, where'[v] = "hold"
          PROVE  owner'[memory'[param'[v]].mutex] = v
      <3>1. where[v] = "hold"
        BY <1>1, <2>1 DEF ThreadingInv, ThreadingTypeOK
      <3>2. param[v] \in Blocks
        BY <3>1, RunningHasMutex
      <3>3. memory'[param[v]].mutex = memory[param[v]].mutex
        BY <1>3, <1>4, <3>2
      <3> QED
        BY <1>1, <3>1, <3>3 DEF ThreadingInv, MutexHeldByOne, MutexOf
    <2> QED
      BY <2>1 DEF MutexHeldByOne, MutexOf
  <1>7. Held' = Held
    BY <1>1 DEF Held
  <1>8. \A b \in Blocks : memory'[b] # NoBlock <=> memory[b] # NoBlock
    BY <1>2, <1>3, <1>4, ThreadDataIsNotFree
  <1>9. ThreadDataOwned'
    BY <1>1, <1>7, <1>8 DEF ThreadingInv, ThreadingTypeOK, ThreadDataOwned, Running
  <1> QED
    BY <1>5, <1>6, <1>9 DEF ThreadingInv

\* The joiner frees the thread_data of the thread it has joined and no other.
LEMMA JoinKeeps ==
  ASSUME ThreadingInv, NEW w \in Workers, JoinThread(w)
  PROVE  ThreadingInv'
  <1>1. /\ where[w] = "ended"
        /\ where' = [where EXCEPT ![w] = "none"]
        /\ memory' = [memory EXCEPT ![param[w]] = NoBlock]
        /\ param' = [param EXCEPT ![w] = NoBlock]
        /\ released' = released \ {w}
        /\ UNCHANGED <<starting, owner>>
    BY DEF JoinThread
  <1>2. reported' \in [Workers -> {"unread", "true", "false"}]
    BY DEF JoinThread, ThreadingInv, ThreadingTypeOK
  <1>3. param[w] \in Blocks /\ param[w] # starting
    BY <1>1, RunningHasMutex
  <1>4. \A v \in Workers \ {w} : param[v] # param[w] /\ param'[v] = param[v]
    BY <1>1, <1>3, ThreadingAssumption
    DEF ThreadingInv, ThreadingTypeOK, ThreadDataOwned
  <1>5. ThreadingTypeOK' /\ NotStarted'
    BY <1>1, <1>2, <1>3 DEF ThreadingInv, ThreadingTypeOK, NotStarted
  <1>6. MutexHeldByOne'
    <2>1. ASSUME NEW v \in Workers, where'[v] = "hold"
          PROVE  owner'[memory'[param'[v]].mutex] = v
      <3>1. v # w /\ where[v] = "hold"
        BY <1>1, <2>1 DEF ThreadingInv, ThreadingTypeOK
      <3>2. param[v] \in Blocks
        BY <3>1, RunningHasMutex
      <3>3. memory'[param'[v]] = memory[param[v]]
        BY <1>1, <1>4, <3>1, <3>2 DEF ThreadingInv, ThreadingTypeOK
      <3> QED
        BY <1>1, <3>1, <3>3 DEF ThreadingInv, MutexHeldByOne, MutexOf
    <2> QED
      BY <2>1 DEF MutexHeldByOne, MutexOf
  <1>7. \A b \in Blocks : b \in Held' <=> b \in Held /\ b # param[w]
    BY <1>1, <1>3, <1>4, ThreadingAssumption
    DEF Held, ThreadingInv, ThreadingTypeOK
  <1>8. \A b \in Blocks : memory'[b] # NoBlock <=> b \in Held'
    BY <1>1, <1>3, <1>7 DEF ThreadingInv, ThreadDataOwned, ThreadingTypeOK
  <1>9. ThreadDataOwned'
    BY <1>1, <1>4, <1>8, ThreadingAssumption
    DEF ThreadingInv, ThreadingTypeOK, ThreadDataOwned, Running
  <1> QED
    BY <1>5, <1>6, <1>9 DEF ThreadingInv

\* Every step preserves ThreadingInv.
LEMMA NextKeeps == ThreadingInv /\ [ThreadingNext]_ThreadingVars => ThreadingInv'
  <1> SUFFICES ASSUME ThreadingInv, [ThreadingNext]_ThreadingVars PROVE ThreadingInv'
    OBVIOUS
  <1>1. CASE UNCHANGED ThreadingVars
    BY <1>1 DEF ThreadingVars, ThreadingInv, ThreadingTypeOK, MutexHeldByOne,
                MutexOf, ThreadDataOwned, Held, NotStarted
  <1>2. ASSUME NEW m \in Mutexes, AllocateThreadData(m) PROVE ThreadingInv'
    BY <1>2, AllocateKeeps
  <1>3. ASSUME NEW w \in Workers, CreateThread(w) PROVE ThreadingInv'
    BY <1>3, CreateKeeps
  <1>4. ASSUME NEW w \in Workers, JoinThread(w) PROVE ThreadingInv'
    BY <1>4, JoinKeeps
  <1>5. ASSUME NEW w \in Workers, Wake(w) PROVE ThreadingInv'
    BY <1>5, MoveKeepsInv DEF Wake, Running
  <1>6. ASSUME NEW w \in Workers, ObtainMutex(w) PROVE ThreadingInv'
    BY <1>6, ObtainKeeps
  <1>7. ASSUME NEW w \in Workers, LockFails(w) PROVE ThreadingInv'
    BY <1>7, MoveKeepsInv DEF LockFails, Running
  <1>8. ASSUME NEW w \in Workers, ReleaseMutex(w) PROVE ThreadingInv'
    BY <1>8, ReleaseKeeps
  <1>9. ASSUME NEW w \in Workers, SetFlag(w) PROVE ThreadingInv'
    BY <1>9, SetFlagKeeps
  <1> QED
    BY <1>1, <1>2, <1>3, <1>4, <1>5, <1>6, <1>7, <1>8, <1>9 DEF ThreadingNext

\* threadfunc holds its mutex alone between lock and unlock, for any number of
\* threads that share it and all failures of start_thread_obtaining_mutex.
THEOREM MutexExcludes == ThreadingSpec => []MutexHeldByOne
  <1>1. ThreadingInv => MutexHeldByOne
    BY DEF ThreadingInv
  <1> QED
    BY <1>1, InitEstablishes, NextKeeps, PTL DEF ThreadingSpec

\* The thread_data that start_thread_obtaining_mutex allocates belongs to one
\* thread until it is joined: it is not shared, freed early or twice, or leaked.
THEOREM ThreadDataSafety == ThreadingSpec => []ThreadDataOwned
  <1>1. ThreadingInv => ThreadDataOwned
    BY DEF ThreadingInv
  <1> QED
    BY <1>1, InitEstablishes, NextKeeps, PTL DEF ThreadingSpec


\* A thread that has released its mutex has not been joined, and its flag is set
\* when it has ended.
FlagSet ==
  \A w \in released :
    /\ where[w] \in {"flag", "ended"}
    /\ where[w] = "ended" => memory[param[w]].success = "true"

\* Every step keeps the flags of the released threads.
LEMMA NextKeepsFlagSet ==
  ASSUME ThreadingInv, FlagSet, [ThreadingNext]_ThreadingVars
  PROVE  FlagSet'
  <1>0. /\ released \subseteq Workers /\ where \in [Workers -> Running \cup {"none"}]
        /\ param \in [Workers -> Blocks \cup {NoBlock}]
        /\ memory \in [Blocks -> thread_data \cup {NoBlock}]
    BY DEF ThreadingInv, ThreadingTypeOK
  <1>1. \A v \in released : /\ where[v] \in {"flag", "ended"}
                            /\ param[v] \in Blocks \ {starting}
    BY <1>0, RunningHasMutex DEF FlagSet
  <1>2. \A v, w \in Workers : where[v] # "none" /\ v # w => param[v] # param[w]
    BY RunningHasMutex, ThreadingAssumption DEF ThreadingInv, ThreadDataOwned
  <1>3. \A v \in released : memory[param[v]] # NoBlock
    BY <1>0, <1>1, RunningHasMutex, ThreadDataIsNotFree
  <1>4. CASE UNCHANGED ThreadingVars
    BY <1>4 DEF ThreadingVars, FlagSet
  <1>5. ASSUME NEW m \in Mutexes, AllocateThreadData(m) PROVE FlagSet'
    BY <1>0, <1>1, <1>3, <1>5 DEF AllocateThreadData, FreshThreadData, FlagSet
  <1>6. ASSUME NEW w \in Workers, CreateThread(w) PROVE FlagSet'
    <2>1. released' = released /\ w \notin released /\ where[w] = "none"
      BY <1>1, <1>6 DEF CreateThread
    <2>2. \A v \in released : /\ where'[v] = where[v] /\ param'[v] = param[v]
                              /\ memory'[param[v]] = memory[param[v]]
      BY <1>0, <1>1, <1>6, <2>1 DEF CreateThread
    <2> QED
      BY <2>1, <2>2 DEF FlagSet
  <1>7. ASSUME NEW w \in Workers, Wake(w) \/ ObtainMutex(w) \/ LockFails(w)
        PROVE  FlagSet'
    <2>1. /\ w \notin released /\ UNCHANGED <<released, param, memory>>
          /\ \A v \in Workers \ {w} : where'[v] = where[v]
      BY <1>0, <1>1, <1>7 DEF Wake, ObtainMutex, LockFails
    <2> QED
      BY <1>0, <2>1 DEF FlagSet
  <1>8. ASSUME NEW w \in Workers, ReleaseMutex(w) PROVE FlagSet'
    <2>1. /\ released' = released \cup {w} /\ where'[w] = "flag"
          /\ UNCHANGED <<param, memory>>
          /\ \A v \in Workers \ {w} : where'[v] = where[v]
      BY <1>0, <1>8 DEF ReleaseMutex
    <2> QED
      BY <1>0, <2>1 DEF FlagSet
  <1>9. ASSUME NEW w \in Workers, SetFlag(w) PROVE FlagSet'
    <2>1. /\ released' = released /\ where'[w] = "ended" /\ UNCHANGED param
          /\ memory' = [memory EXCEPT ![param[w]].success = "true"]
          /\ \A v \in Workers \ {w} : where'[v] = where[v]
      BY <1>0, <1>9 DEF SetFlag, SuccessFlag
    <2>2. param[w] \in Blocks /\ memory[param[w]] \in thread_data
      BY <1>9, RunningHasMutex DEF SetFlag
    <2>3. memory'[param[w]].success = "true"
      BY <1>0, <2>1, <2>2 DEF thread_data
    <2>4. \A v \in released \ {w} : memory'[param[v]] = memory[param[v]]
      BY <1>0, <1>1, <1>2, <2>1
    <2> QED
      BY <1>0, <2>1, <2>3, <2>4 DEF FlagSet
  <1>10. ASSUME NEW w \in Workers, JoinThread(w) PROVE FlagSet'
    <2>1. /\ released' = released \ {w} /\ where[w] = "ended"
          /\ memory' = [memory EXCEPT ![param[w]] = NoBlock]
          /\ \A v \in Workers \ {w} : where'[v] = where[v] /\ param'[v] = param[v]
      BY <1>0, <1>10 DEF JoinThread
    <2>2. \A v \in released \ {w} : memory'[param[v]] = memory[param[v]]
      BY <1>0, <1>1, <1>2, <2>1
    <2> QED
      BY <1>0, <2>1, <2>2 DEF FlagSet
  <1> QED
    BY <1>4, <1>5, <1>6, <1>7, <1>8, <1>9, <1>10 DEF ThreadingNext

\* The joiner reads the flag a released thread has set, never the value that the
\* memory held before.
LEMMA JoinReadsTheFlag ==
  ASSUME ThreadingInv, FlagSet, NEW w \in released, JoinThread(w)
  PROVE  reported'[w] = "true"
  <1>1. w \in Workers /\ reported \in [Workers -> {"unread", "true", "false"}]
    BY DEF ThreadingInv, ThreadingTypeOK
  <1>2. memory[param[w]].success = "true"
    BY DEF FlagSet, JoinThread
  <1> QED
    BY <1>1, <1>2 DEF JoinThread

\* A thread that has obtained and released its mutex is reported as a success.
THEOREM SuccessIsReported == ThreadingSpec => SuccessReported
  <1> DEFINE I == ThreadingInv /\ FlagSet
             A(w) == JoinThread(w) => reported'[w] = "true"
  <1>1. ThreadingInit => I
    BY InitEstablishes DEF ThreadingInit, FlagSet
  <1>2. I /\ [ThreadingNext]_ThreadingVars => I'
    BY NextKeeps, NextKeepsFlagSet
  <1>3. I /\ [ThreadingNext]_ThreadingVars => [\A w \in released : A(w)]_ThreadingVars
    BY JoinReadsTheFlag
  <1>4. ThreadingSpec => [][\A w \in released : A(w)]_ThreadingVars
    <2> HIDE DEF A, I
    <2> QED
      BY <1>1, <1>2, <1>3, PTL DEF ThreadingSpec
  <1> QED
    BY <1>4 DEF SuccessReported, A

=============================================================================
