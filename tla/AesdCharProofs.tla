--------------------------- MODULE AesdCharProofs ---------------------------
(***************************************************************************)
(* The mutex of the driver excludes, for every number of tasks, files and  *)
(* blocks, every input and every failure of the kernel around the driver,  *)
(* the ones after which the driver keeps the lock for ever included.       *)
(***************************************************************************)
EXTENDS AesdChar, TLAPS

\* A call goes on only as long as its file is open, and a file is open only as
\* long as the module is loaded: aesd_init_module, which makes the lock free, can
\* not run while a task is in a critical section.
LockInv ==
  /\ pc \in [Tasks -> PCs]
  /\ call = [t \in Tasks |-> call[t]]
  /\ \A t \in Tasks : pc[t] # "idle" => call[t].file \in open
  /\ open # {} => loaded
  /\ MutualExclusion

\* A call starts on an open file and outside the critical sections.
LEMMA EnterKeepsLockInv ==
  ASSUME LockInv, NEW t \in Tasks, NEW args, NEW where \in PCs \ Critical,
         Enter(t, args, where), UNCHANGED <<loaded, open, buffer_lock>>
  PROVE  LockInv'
  BY DEF LockInv, Enter, goto, MutualExclusion, PCs, Critical

\* A call ends outside the critical sections.
LEMMA LeaveKeepsLockInv ==
  ASSUME LockInv, NEW t \in Tasks, Leave(t), UNCHANGED <<loaded, open>>,
         UNCHANGED buffer_lock \/ (buffer_lock = NoTask /\ buffer_lock' = t)
  PROVE  LockInv'
  <1>1. \A u \in Tasks : pc'[u] \in Critical => pc[u] \in Critical
    BY DEF LockInv, Leave, goto, Critical
  <1>2. MutualExclusion'
    BY <1>1, AesdCharAssumption DEF LockInv, MutualExclusion
  <1> QED
    BY <1>2 DEF LockInv, Leave, goto, PCs, Critical

\* A step inside a call, which changes nothing but where the task is and who
\* owns the lock: it takes a free lock, keeps its own, or gives it back.
LEMMA StepKeepsLockInv ==
  ASSUME LockInv, NEW t \in Tasks, pc[t] # "idle", NEW where \in PCs,
         goto(t, where), UNCHANGED <<loaded, open, call>>,
         \/ where \notin Critical /\ UNCHANGED buffer_lock
         \/ buffer_lock = NoTask /\ buffer_lock' = t
         \/ pc[t] \in Critical /\ UNCHANGED buffer_lock
         \/ pc[t] \in Critical /\ where \notin Critical /\ buffer_lock' = NoTask
  PROVE  LockInv'
  <1>1. /\ pc' = [pc EXCEPT ![t] = where] /\ pc \in [Tasks -> PCs]
        /\ \A u \in Tasks : u # t => pc'[u] = pc[u]
        /\ pc'[t] = where
    BY DEF LockInv, goto
  <1>2. MutualExclusion'
    <2> SUFFICES ASSUME NEW u \in Tasks, pc'[u] \in Critical
                 PROVE  buffer_lock' = u
      BY DEF MutualExclusion
    <2>1. CASE u = t
      BY <1>1, <2>1 DEF LockInv, MutualExclusion
    <2>2. CASE u # t
      <3>1. buffer_lock = u
        BY <1>1, <2>2 DEF LockInv, MutualExclusion
      <3> QED
        BY <2>2, <3>1, AesdCharAssumption DEF LockInv, MutualExclusion
    <2> QED
      BY <2>1, <2>2
  <1> QED
    BY <1>1, <1>2 DEF LockInv

\* Every step of the driver preserves LockInv.
LEMMA NextKeepsLockInv == LockInv /\ [Next]_vars => LockInv'
  <1> SUFFICES ASSUME LockInv, [Next]_vars PROVE LockInv'
    OBVIOUS
  <1>1. CASE UNCHANGED vars
    BY <1>1 DEF vars, LockInv, MutualExclusion
  <1>2. CASE aesd_init_module
    <2>1. \A t \in Tasks : pc[t] = "idle"
      BY <1>2 DEF aesd_init_module, LockInv
    <2> QED
      BY <1>2, <2>1 DEF aesd_init_module, LockInv, MutualExclusion, Critical
  <1>3. CASE aesd_cleanup_module
    BY <1>3 DEF aesd_cleanup_module, LockInv, MutualExclusion
  <1>4. ASSUME NEW f \in Files, aesd_open(f) PROVE LockInv'
    BY <1>4 DEF aesd_open, device, LockInv, MutualExclusion
  <1>5. ASSUME NEW f \in Files, aesd_release(f) PROVE LockInv'
    BY <1>5 DEF aesd_release, device, LockInv, MutualExclusion
  <1>6. ASSUME NEW t \in Tasks, Call(t) PROVE LockInv'
    <2>1. ASSUME NEW f \in Files, NEW count \in Counts, CallRead(t, f, count)
          PROVE  LockInv'
      BY <2>1, EnterKeepsLockInv DEF CallRead, device, PCs, Critical
    <2>2. ASSUME NEW f \in Files, NEW chunk \in Chunks, CallWrite(t, f, chunk)
          PROVE  LockInv'
      BY <2>2, EnterKeepsLockInv DEF CallWrite, device, PCs, Critical
    <2>3. ASSUME NEW f \in Files, NEW seek \in Seeks, CallLlseek(t, f, seek)
          PROVE  LockInv'
      BY <2>3, EnterKeepsLockInv DEF CallLlseek, device, PCs, Critical
    <2>4. ASSUME NEW f \in Files, NEW seekto \in SeekTos, CallIoctl(t, f, seekto)
          PROVE  LockInv'
      BY <2>4, EnterKeepsLockInv DEF CallIoctl, device, PCs, Critical
    <2> QED
      BY <1>6, <2>1, <2>2, <2>3, <2>4 DEF Call
  <1>7. ASSUME NEW t \in Tasks, Lock(t) PROVE LockInv'
    <2>1. CASE ReadFind(t)
      BY <2>1, StepKeepsLockInv DEF ReadFind, KeepLock, device, PCs, Critical
    <2>2. CASE WriteLock(t)
      BY <2>2, StepKeepsLockInv DEF WriteLock, KeepLock, device, PCs, Critical
    <2>3. CASE aesd_llseek(t)
      BY <2>3, LeaveKeepsLockInv DEF aesd_llseek, device
    <2>4. CASE aesd_ioctl(t)
      BY <2>4, LeaveKeepsLockInv DEF aesd_ioctl, device
    <2> QED
      BY <1>7, <2>1, <2>2, <2>3, <2>4 DEF Lock
  <1>8. ASSUME NEW t \in Tasks, Proceed(t) PROVE LockInv'
    <2>1. CASE ReadCopy(t)
      BY <2>1, StepKeepsLockInv DEF ReadCopy, mutex_unlock, device, PCs, Critical
    <2>2. CASE ReadReturn(t)
      BY <2>2, LeaveKeepsLockInv DEF ReadReturn, VfsReturn, device
    <2>3. CASE WriteCopy(t)
      BY <2>3, StepKeepsLockInv DEF WriteCopy, device, PCs, Critical
    <2>4. CASE WriteAppend(t)
      BY <2>4, StepKeepsLockInv DEF WriteAppend, mutex_unlock, PCs, Critical
    <2>5. CASE WriteReturn(t)
      BY <2>5, LeaveKeepsLockInv DEF WriteReturn, VfsReturn, device
    <2> QED
      BY <1>8, <2>1, <2>2, <2>3, <2>4, <2>5 DEF Proceed
  <1>9. ASSUME NEW t \in Tasks, Interrupted(t) PROVE LockInv'
    <2>1. CASE pc[t] \in {"llseek", "ioctl"}
      BY <1>9, <2>1, LeaveKeepsLockInv DEF Interrupted, device
    <2>2. CASE pc[t] \notin {"llseek", "ioctl"}
      BY <1>9, <2>2, StepKeepsLockInv DEF Interrupted, device, PCs, Critical
    <2> QED
      BY <2>1, <2>2
  <1> QED
    BY <1>1, <1>2, <1>3, <1>4, <1>5, <1>6, <1>7, <1>8, <1>9 DEF Next

\* At most one task is between the lock and the unlock of aesd_read or aesd_write,
\* and it owns buffer_lock.
THEOREM LockExcludes == Spec => []MutualExclusion
  <1>1. Init => LockInv
    BY DEF Init, LockInv, MutualExclusion, PCs, Critical
  <1>2. LockInv => MutualExclusion
    BY DEF LockInv
  <1> QED
    BY <1>1, <1>2, NextKeepsLockInv, PTL DEF Spec

=============================================================================
