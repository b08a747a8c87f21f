------------------------------ MODULE AesdChar ------------------------------
(***************************************************************************)
(* The aesdchar driver, aesd-char-driver/main.c: tasks that open the device *)
(* and call read, write, llseek and ioctl on it, the mutex that serialises  *)
(* them, the ring of complete commands, the command being assembled, and    *)
(* the kernel heap the two point into.                                      *)
(*                                                                          *)
(* A call is split where other tasks can run in between: while it waits for *)
(* buffer_lock, at the copies from and to user space (which may sleep with  *)
(* the lock held), and after the unlock. The part of the kernel around the  *)
(* driver (file objects, positions, allocator, mutex, module reference      *)
(* count) is modelled from how the driver uses it.                          *)
(***************************************************************************)
EXTENDS CircularBuffer, SequencesExt

CONSTANTS
  Tasks,       \* threads in user space
  Files,       \* struct file objects; the tasks may share them
  Addrs,       \* the blocks of the kernel heap
  NoTask,      \* the owner of a free mutex
  NewLine,     \* the byte '\n'
  Junk,        \* a byte of a block that nothing was copied to
  Chunks,      \* the buffers user space may write, as sequences of bytes
  Counts,      \* the counts user space may read
  Seeks,       \* the [whence, off] arguments of llseek
  SeekTos,     \* the struct aesd_seekto arguments of ioctl
  Faults,      \* what may go wrong in the kernel around the driver
  MaxCommand   \* bound: no write without a newline takes the command beyond it

AllFaults == {"nomem_kbuf", "nomem_grow", "nomem_rest", "efault_read",
              "efault_write", "eintr", "unload_partial"}

\* struct aesd_seekto; its unsigned fields are far from their width.
aesd_seekto == [write_cmd : Nat, write_cmd_offset : Nat]

UserBytes == UNION {Range(s) : s \in Chunks}

ASSUME AesdCharAssumption ==
  /\ Null \notin Addrs
  /\ NoTask \notin Tasks
  /\ Faults \subseteq AllFaults
  /\ Chunks \subseteq Seq(UserBytes)
  /\ Junk \notin UserBytes
  /\ Counts \subseteq Nat
  /\ Seeks \subseteq [whence : {"SET", "CUR", "END", "other"}, off : Int]
  /\ SeekTos \subseteq aesd_seekto
  /\ MaxCommand \in Nat

VARIABLES
  loaded,         \* the module is loaded
  open,           \* the open files
  f_pos,          \* the position of each file
  buffer_lock,    \* the task that holds aesd_device.buffer_lock
  c_buffer,       \* aesd_device.c_buffer
  current_entry,  \* aesd_device.current_entry: the command being assembled
  heap,           \* the bytes of each allocated block; <<>> if it is free
  pc,             \* where each task is
  call,           \* the file and the argument of each task's call
  pos,            \* the kernel's copy of the position during a read or write
  kbuf,           \* the local kbuf of aesd_write
  src,            \* slot, offset and length of what aesd_read copies
  ubuf,           \* the bytes a read has copied to the user
  ret             \* what the call will return

device == <<loaded, c_buffer, current_entry>>
locals == <<pos, kbuf, src, ubuf, ret>>
vars == <<loaded, open, f_pos, buffer_lock, c_buffer, current_entry, heap,
          pc, call, pos, kbuf, src, ubuf, ret>>

EINVAL == -22
ENOMEM == -12
EFAULT == -14
ERESTARTSYS == -512

NoSrc == [slot |-> 0, offset |-> 0, len |-> 0]
NoCall == [file |-> Null, count |-> 0, chunk |-> <<>>, seek |-> Null, seekto |-> Null]

Init ==
  /\ loaded = FALSE
  /\ open = {}
  /\ f_pos = [f \in Files |-> 0]
  /\ buffer_lock = NoTask
  /\ c_buffer = aesd_circular_buffer_init
  /\ current_entry = NoEntry
  /\ heap = [a \in Addrs |-> <<>>]
  /\ pc = [t \in Tasks |-> "idle"]
  /\ call = [t \in Tasks |-> NoCall]
  /\ pos = [t \in Tasks |-> 0]
  /\ kbuf = [t \in Tasks |-> Null]
  /\ src = [t \in Tasks |-> NoSrc]
  /\ ubuf = [t \in Tasks |-> <<>>]
  /\ ret = [t \in Tasks |-> 0]

-----------------------------------------------------------------------------
(* The kernel around the driver.                                           *)

FreeBlocks(h) == {a \in Addrs : h[a] = <<>>}

kmalloc(h, a, n) == [h EXCEPT ![a] = [i \in 1..n |-> Junk]]

kfree(h, p) == IF p = Null THEN h ELSE [h EXCEPT ![p] = <<>>]

Bytes(h, p) == IF p = Null THEN <<>> ELSE h[p]

\* krealloc keeps the bytes, and grows the block in place or moves it.
krealloc(h, p, a, n) ==
  [kfree(h, p) EXCEPT ![a] =
     [i \in 1..n |-> IF i <= Len(Bytes(h, p)) THEN Bytes(h, p)[i] ELSE Junk]]

\* memcpy(p + at, bytes, Len(bytes))
memcpy(h, p, at, bytes) ==
  [h EXCEPT ![p] = [i \in 1..Len(h[p]) |->
     IF i \in (at + 1)..(at + Len(bytes)) THEN bytes[i - at] ELSE h[p][i]]]

\* Mutant of mutex_unlock: the lock is not given back.
mutex_unlock_missing == UNCHANGED buffer_lock

mutex_unlock == buffer_lock' = NoTask

goto(t, where) == pc' = [pc EXCEPT ![t] = where]

\* A system call on an open file. The kernel reads the position of the file
\* before it calls read or write; nothing locks it.
Enter(t, args, where) ==
  /\ pc[t] = "idle" /\ args.file \in open
  /\ call' = [call EXCEPT ![t] = args]
  /\ goto(t, where)

\* A call that is done returns to user space.
Leave(t) ==
  /\ goto(t, "idle")
  /\ call' = [call EXCEPT ![t] = NoCall]

\* The end of read and write: the kernel stores its copy of the position unless
\* the call failed.
VfsReturn(t) ==
  /\ f_pos' = IF ret[t] >= 0 THEN [f_pos EXCEPT ![call[t].file] = pos[t]] ELSE f_pos
  /\ Leave(t)
  /\ pos' = [pos EXCEPT ![t] = 0]
  /\ ret' = [ret EXCEPT ![t] = 0]

-----------------------------------------------------------------------------
(* Loading, unloading, opening and closing.                                *)

\* aesd_init_module; aesd_setup_cdev either makes the device available or leaves
\* the module unloaded.
aesd_init_module ==
  /\ ~loaded
  /\ loaded' = TRUE
  /\ buffer_lock' = NoTask
  /\ c_buffer' = aesd_circular_buffer_init
  /\ current_entry' = NoEntry
  /\ UNCHANGED <<open, f_pos, heap, pc, call, locals>>

\* The loop of aesd_cleanup_module over every slot of the ring.
FreeEntries ==
  [a \in Addrs |-> IF \E i \in Slots : c_buffer.entry[i].buffptr = a
                   THEN <<>> ELSE heap[a]]

\* aesd_cleanup_module; the kernel refuses to unload while a file is open.
aesd_cleanup_module ==
  /\ loaded /\ open = {}
  /\ "unload_partial" \in Faults \/ current_entry.buffptr = Null
  /\ loaded' = FALSE
  /\ heap' = FreeEntries
  /\ c_buffer' = aesd_circular_buffer_init
  /\ current_entry' = NoEntry
  /\ UNCHANGED <<open, f_pos, buffer_lock, pc, call, locals>>

\* aesd_open: a new struct file starts at position 0.
aesd_open(f) ==
  /\ loaded /\ f \notin open
  /\ open' = open \cup {f}
  /\ f_pos' = [f_pos EXCEPT ![f] = 0]
  /\ UNCHANGED <<device, buffer_lock, heap, pc, call, locals>>

\* aesd_release, once no call uses the file.
aesd_release(f) ==
  /\ f \in open
  /\ \A t \in Tasks : call[t].file # f
  /\ open' = open \ {f}
  /\ f_pos' = [f_pos EXCEPT ![f] = 0]
  /\ UNCHANGED <<device, buffer_lock, heap, pc, call, locals>>

-----------------------------------------------------------------------------
(* aesd_read                                                               *)

CallRead(t, f, count) ==
  /\ Enter(t, [NoCall EXCEPT !.file = f, !.count = count],
           IF count = 0 THEN "read_return" ELSE "read_lock")
  /\ pos' = [pos EXCEPT ![t] = f_pos[f]]
  /\ ret' = [ret EXCEPT ![t] = IF count = 0 THEN EINVAL ELSE 0]
  /\ UNCHANGED <<device, open, f_pos, buffer_lock, heap, kbuf, src, ubuf>>

\* Mutant of KeepLock: the lock is given back before the bytes are copied.
DropLock(t) == buffer_lock' = NoTask

KeepLock(t) == buffer_lock' = t

\* Take the lock and find the entry; with no entry at the position, or past the
\* last one, give the lock back and return 0.
ReadFind(t) ==
  LET hit == aesd_circular_buffer_find_entry_offset_for_fpos(c_buffer, pos[t])
      left == c_buffer.entry[hit.slot].size - hit.offset
  IN  /\ pc[t] = "read_lock" /\ buffer_lock = NoTask
      /\ \/ /\ hit = NotFound
            /\ goto(t, "read_return")
            /\ UNCHANGED <<src, buffer_lock>>
         \/ /\ hit # NotFound
            /\ src' = [src EXCEPT ![t] =
                 [slot |-> hit.slot, offset |-> hit.offset,
                  len |-> IF left > call[t].count THEN call[t].count ELSE left]]
            /\ KeepLock(t)
            /\ goto(t, "read_copy")
      /\ UNCHANGED <<device, open, f_pos, heap, call, pos, kbuf, ubuf, ret>>

\* copy_to_user, then the position and the unlock.
ReadCopy(t) ==
  LET from == src[t]
  IN  /\ pc[t] = "read_copy"
      /\ \/ /\ ubuf' = [ubuf EXCEPT ![t] =
                 SubSeq(heap[c_buffer.entry[from.slot].buffptr],
                        from.offset + 1, from.offset + from.len)]
            /\ pos' = [pos EXCEPT ![t] = @ + from.len]
            /\ ret' = [ret EXCEPT ![t] = from.len]
         \/ /\ "efault_read" \in Faults
            /\ ret' = [ret EXCEPT ![t] = EFAULT]
            /\ UNCHANGED <<ubuf, pos>>
      /\ mutex_unlock
      /\ src' = [src EXCEPT ![t] = NoSrc]
      /\ goto(t, "read_return")
      /\ UNCHANGED <<device, open, f_pos, heap, call, kbuf>>

ReadReturn(t) ==
  /\ pc[t] = "read_return"
  /\ VfsReturn(t)
  /\ ubuf' = [ubuf EXCEPT ![t] = <<>>]
  /\ UNCHANGED <<device, open, buffer_lock, heap, kbuf, src>>

-----------------------------------------------------------------------------
(* aesd_write                                                              *)

NewLines(bytes) == {i \in 1..Len(bytes) : bytes[i] = NewLine}

Writing(t) == pc[t] \in {"write_lock", "write_copy", "write_append"}

\* The bytes of the command being assembled and of the writes under way.
Unterminated ==
  current_entry.size
    + FoldFunction(+, 0, [t \in Tasks |->
                            IF Writing(t) THEN Len(call[t].chunk) ELSE 0])

CallWrite(t, f, chunk) ==
  /\ NewLines(chunk) = {} => Unterminated + Len(chunk) <= MaxCommand
  /\ Enter(t, [NoCall EXCEPT !.file = f, !.chunk = chunk],
           IF chunk = <<>> THEN "write_return" ELSE "write_lock")
  /\ pos' = [pos EXCEPT ![t] = f_pos[f]]
  /\ ret' = [ret EXCEPT ![t] = IF chunk = <<>> THEN EINVAL ELSE 0]
  /\ UNCHANGED <<device, open, f_pos, buffer_lock, heap, kbuf, src, ubuf>>

\* Take the lock and allocate kbuf.
WriteLock(t) ==
  /\ pc[t] = "write_lock" /\ buffer_lock = NoTask
  /\ \/ \E a \in FreeBlocks(heap) :
          /\ heap' = kmalloc(heap, a, Len(call[t].chunk))
          /\ kbuf' = [kbuf EXCEPT ![t] = a]
          /\ KeepLock(t)
          /\ goto(t, "write_copy")
          /\ UNCHANGED ret
     \/ /\ "nomem_kbuf" \in Faults
        /\ ret' = [ret EXCEPT ![t] = ENOMEM]
        /\ goto(t, "write_return")
        /\ UNCHANGED <<heap, kbuf, buffer_lock>>
  /\ UNCHANGED <<device, open, f_pos, call, pos, src, ubuf>>

\* copy_from_user. Its failure jumps to free_kbuf, past the unlock.
WriteCopy(t) ==
  /\ pc[t] = "write_copy"
  /\ \/ /\ heap' = memcpy(heap, kbuf[t], 0, call[t].chunk)
        /\ goto(t, "write_append")
        /\ UNCHANGED ret
     \/ /\ "efault_write" \in Faults
        /\ ret' = [ret EXCEPT ![t] = EFAULT]
        /\ goto(t, "write_return")
        /\ UNCHANGED heap
  /\ UNCHANGED <<device, open, f_pos, buffer_lock, call, pos, kbuf, src, ubuf>>

\* Mutant of CommandBytes: the newline is left to the next command.
BytesBeforeNewLine(bytes) ==
  IF NewLines(bytes) = {} THEN Len(bytes) ELSE Min(NewLines(bytes)) - 1

\* current_cmd_bytes: up to and including the first newline.
CommandBytes(bytes) ==
  IF NewLines(bytes) = {} THEN Len(bytes) ELSE Min(NewLines(bytes))

\* Mutant of AppendOffset: the bytes go to the start of current_entry.
AppendAtStart == 0

\* Where memcpy puts the bytes of the command in current_entry.
AppendOffset == current_entry.size

\* Mutant of FreeOverwritten: the memory of the overwritten entry is not freed.
KeepOverwritten(h) == h

FreeOverwritten(h) == kfree(h, Overwritten(c_buffer))

\* Mutant of KeepPartial: the size of current_entry is not updated.
KeepPartialSize(t, h, entry, n) ==
  /\ heap' = h
  /\ current_entry' = [entry EXCEPT !.size = current_entry.size]
  /\ ret' = [ret EXCEPT ![t] = n]
  /\ UNCHANGED c_buffer

\* No newline: the bytes wait in current_entry.
KeepPartial(t, h, entry, n) ==
  /\ heap' = h
  /\ current_entry' = entry
  /\ ret' = [ret EXCEPT ![t] = n]
  /\ UNCHANGED c_buffer

\* A newline: the command goes into the ring and the rest starts the next one.
\* A failure to allocate the rest makes the write a short one.
Commit(t, h, entry, n) ==
  LET freed == FreeOverwritten(h)
      rest  == SubSeq(h[kbuf[t]], n + 1, Len(h[kbuf[t]]))
  IN  /\ c_buffer' = aesd_circular_buffer_add_entry(c_buffer, entry)
      /\ \/ /\ rest = <<>> \/ "nomem_rest" \in Faults
            /\ heap' = freed
            /\ current_entry' = NoEntry
            /\ ret' = [ret EXCEPT ![t] = n]
         \/ /\ rest # <<>>
            /\ \E a \in FreeBlocks(freed) :
                 /\ heap' = memcpy(kmalloc(freed, a, Len(rest)), a, 0, rest)
                 /\ current_entry' = [buffptr |-> a, size |-> Len(rest)]
                 /\ ret' = [ret EXCEPT ![t] = Len(h[kbuf[t]])]

\* The rest of the critical section: grow current_entry, append the command and
\* commit it if it is complete. When krealloc fails the pointer is overwritten
\* with NULL and the size is kept.
WriteAppend(t) ==
  LET bytes == heap[kbuf[t]]
      n     == CommandBytes(bytes)
      size  == current_entry.size + n
      old   == current_entry.buffptr
  IN  /\ pc[t] = "write_append"
      /\ \/ \E a \in FreeBlocks(heap) \cup ({old} \ {Null}) :
              LET h     == memcpy(krealloc(heap, old, a, size), a,
                                  AppendOffset, SubSeq(bytes, 1, n))
                  entry == [buffptr |-> a, size |-> size]
              IN  IF NewLines(bytes) = {}
                  THEN KeepPartial(t, h, entry, n)
                  ELSE Commit(t, h, entry, n)
         \/ /\ "nomem_grow" \in Faults
            /\ current_entry' = [current_entry EXCEPT !.buffptr = Null]
            /\ ret' = [ret EXCEPT ![t] = ENOMEM]
            /\ UNCHANGED <<heap, c_buffer>>
      /\ mutex_unlock
      /\ goto(t, "write_return")
      /\ UNCHANGED <<loaded, open, f_pos, call, pos, kbuf, src, ubuf>>

WriteReturn(t) ==
  /\ pc[t] = "write_return"
  /\ heap' = kfree(heap, kbuf[t])
  /\ kbuf' = [kbuf EXCEPT ![t] = Null]
  /\ VfsReturn(t)
  /\ UNCHANGED <<device, open, buffer_lock, src, ubuf>>

-----------------------------------------------------------------------------
(* aesd_llseek                                                             *)

CallLlseek(t, f, seek) ==
  /\ Enter(t, [NoCall EXCEPT !.file = f, !.seek = seek], "llseek")
  /\ UNCHANGED <<device, open, f_pos, buffer_lock, heap, locals>>

\* What off counts from.
SeekBase(f, whence) ==
  CASE whence = "SET" -> 0
    [] whence = "CUR" -> f_pos[f]
    [] whence = "END" -> TotalSize(c_buffer)

\* The whole call. An unknown whence or a negative position returns with the
\* lock still held.
aesd_llseek(t) ==
  LET file   == call[t].file
      seek   == call[t].seek
      newpos == SeekBase(file, seek.whence) + seek.off
      valid  == seek.whence # "other" /\ newpos >= 0
  IN  /\ pc[t] = "llseek" /\ buffer_lock = NoTask
      /\ \/ /\ valid
            /\ f_pos' = [f_pos EXCEPT ![file] = newpos]
            /\ UNCHANGED buffer_lock
         \/ /\ ~valid
            /\ buffer_lock' = t
            /\ UNCHANGED f_pos
      /\ Leave(t)
      /\ UNCHANGED <<device, open, heap, locals>>

-----------------------------------------------------------------------------
(* aesd_ioctl                                                              *)

\* copy_from_user comes before the lock; its failure returns at once, as does an
\* unknown command.
CallIoctl(t, f, seekto) ==
  /\ Enter(t, [NoCall EXCEPT !.file = f, !.seekto = seekto], "ioctl")
  /\ UNCHANGED <<device, open, f_pos, buffer_lock, heap, locals>>

\* The index is checked only as long as the ring is not full.
CommandInRange(write_cmd) ==
  c_buffer.full \/ write_cmd < num_entries(c_buffer)

OffsetInRange(seekto) ==
  seekto.write_cmd_offset <= c_buffer.entry[SlotAt(c_buffer, seekto.write_cmd)].size

\* Mutant of SeekToPosition: the loop counts the named command as well.
SeekPastCommand(seekto) ==
  SizeOfFirst(c_buffer, seekto.write_cmd + 1) + seekto.write_cmd_offset

SeekToPosition(seekto) ==
  SizeOfFirst(c_buffer, seekto.write_cmd) + seekto.write_cmd_offset

\* The locked part of the call.
aesd_ioctl(t) ==
  LET seekto == call[t].seekto
  IN  /\ pc[t] = "ioctl" /\ buffer_lock = NoTask
      /\ f_pos' = IF CommandInRange(seekto.write_cmd) /\ OffsetInRange(seekto)
                  THEN [f_pos EXCEPT ![call[t].file] = SeekToPosition(seekto)]
                  ELSE f_pos
      /\ Leave(t)
      /\ UNCHANGED <<device, open, buffer_lock, heap, locals>>

\* A call that sleeps in mutex_lock_interruptible is interrupted and gives up.
Interrupted(t) ==
  /\ "eintr" \in Faults /\ buffer_lock # NoTask
  /\ \/ /\ pc[t] = "read_lock"
        /\ ret' = [ret EXCEPT ![t] = ERESTARTSYS]
        /\ goto(t, "read_return")
        /\ UNCHANGED call
     \/ /\ pc[t] = "write_lock"
        /\ ret' = [ret EXCEPT ![t] = ERESTARTSYS]
        /\ goto(t, "write_return")
        /\ UNCHANGED call
     \/ /\ pc[t] \in {"llseek", "ioctl"}
        /\ Leave(t)
        /\ UNCHANGED ret
  /\ UNCHANGED <<device, open, f_pos, buffer_lock, heap, pos, kbuf, src, ubuf>>

-----------------------------------------------------------------------------

Call(t) ==
  \E f \in Files :
    \/ \E count \in Counts : CallRead(t, f, count)
    \/ \E chunk \in Chunks : CallWrite(t, f, chunk)
    \/ \E seek \in Seeks : CallLlseek(t, f, seek)
    \/ \E seekto \in SeekTos : CallIoctl(t, f, seekto)

\* The steps that take the lock.
Lock(t) == ReadFind(t) \/ WriteLock(t) \/ aesd_llseek(t) \/ aesd_ioctl(t)

\* The steps of a call that need no lock they do not already hold.
Proceed(t) ==
  ReadCopy(t) \/ ReadReturn(t) \/ WriteCopy(t) \/ WriteAppend(t) \/ WriteReturn(t)

Next ==
  \/ aesd_init_module \/ aesd_cleanup_module
  \/ \E f \in Files : aesd_open(f) \/ aesd_release(f)
  \/ \E t \in Tasks : Call(t) \/ Lock(t) \/ Proceed(t) \/ Interrupted(t)

Spec == Init /\ [][Next]_vars

\* The scheduler runs every task, copies from and to user space end, and the
\* kernel's mutex hands over to a waiter in the end.
Fairness == \A t \in Tasks : WF_vars(Proceed(t)) /\ SF_vars(Lock(t))

FairSpec == Spec /\ Fairness

-----------------------------------------------------------------------------
(* Properties                                                              *)

Critical == {"read_copy", "write_copy", "write_append"}
PCs == Critical \cup {"idle", "read_lock", "read_return", "write_lock",
                      "write_return", "llseek", "ioctl"}
KernelBytes == UserBytes \cup {Junk}
Entry == [buffptr : Addrs, size : Nat \ {0}]

\* The types of the state.
TypeOK ==
  /\ loaded \in BOOLEAN
  /\ open \subseteq Files
  /\ f_pos \in [Files -> Nat]
  /\ buffer_lock \in Tasks \cup {NoTask}
  /\ c_buffer \in BufferOf(Entry)
  /\ current_entry \in [buffptr : Addrs \cup {Null}, size : Nat]
  /\ heap \in [Addrs -> Seq(KernelBytes)]
  /\ pc \in [Tasks -> PCs]
  /\ \A t \in Tasks : pc[t] # "idle" => call[t].file \in open
  /\ pos \in [Tasks -> Nat]
  /\ kbuf \in [Tasks -> Addrs \cup {Null}]
  /\ src \in [Tasks -> [slot : Slots, offset : Nat, len : Nat]]
  /\ ubuf \in [Tasks -> Seq(KernelBytes)]
  /\ ret \in [Tasks -> Int]

\* A task between a lock and an unlock of aesd_read or aesd_write owns the lock,
\* so at most one task at a time is there.
MutualExclusion == \A t \in Tasks : pc[t] \in Critical => buffer_lock = t

\* The lock is never held by a task that is not in a critical section: every way
\* out of a call gives it back.
LockReleased ==
  buffer_lock # NoTask => pc[buffer_lock] \in Critical

\* Where the driver keeps pointers: the ring, current_entry and the local kbuf of
\* each write.
Holders == (Slots \X {"ring"}) \cup (Tasks \X {"kbuf"}) \cup {<<Null, "current">>}

Pointers ==
  [h \in Holders |->
     CASE h[2] = "ring"    -> c_buffer.entry[h[1]].buffptr
       [] h[2] = "kbuf"    -> kbuf[h[1]]
       [] h[2] = "current" -> current_entry.buffptr]

\* No pointer of the driver dangles and no two point to the same block, so no
\* block is freed twice or used after it was freed: the memory add_entry hands
\* back, kbuf and the remainder of a write are each freed once.
PointersSound ==
  \A h \in Holders :
    Pointers[h] # Null =>
      /\ heap[Pointers[h]] # <<>>
      /\ \A g \in Holders \ {h} : Pointers[g] # Pointers[h]

\* Every allocated block can still be reached, and so freed.
NoLeak == \A a \in Addrs : heap[a] # <<>> => a \in Range(Pointers)

\* The bytes an entry stands for.
Text(e) == SubSeq(Bytes(heap, e.buffptr), 1, e.size)

Window == [k \in 1..num_entries(c_buffer) |-> Text(Contents(c_buffer)[k])]

Stream == FlattenSeq(Window)

\* Every entry of the ring is one whole command: its block has exactly its size,
\* and a newline at its end and nowhere else.
EntriesAreCommands ==
  \A i \in Slots : LET e == c_buffer.entry[i] IN
    e # NoEntry => /\ Len(heap[e.buffptr]) = e.size
                   /\ NewLines(heap[e.buffptr]) = {e.size}

\* No byte that the driver did not copy from a user is ever part of a command.
NothingUninitialised ==
  Junk \notin Range(Stream) \cup Range(Text(current_entry))

\* Prefixes of what the users write.
Accepted == UNION {{SubSeq(s, 1, n) : n \in 1..Len(s)} : s \in Chunks}

\* The device implements CommandWindow: whatever the interleaving of the writers
\* and however their writes cut the commands, it holds the most recent commands.
Commands == INSTANCE CommandWindow
              WITH Capacity <- MaxWrites, Writes <- Accepted,
                   window <- Window, pending <- Text(current_entry)
ImplementsCommandWindow == Commands!Spec

\* A write that returns n has added the first n bytes of the user's buffer, and
\* nothing else, to what the device keeps, also when it stores less than was asked.
WriteStoresWhatItReports ==
  [][\A t \in Tasks :
       pc[t] = "write_append" /\ pc'[t] = "write_return" =>
         LET kept  == IF c_buffer' # c_buffer /\ c_buffer.full
                      THEN FlattenSeq(Tail(Window)) ELSE Stream
             added == SubSeq(call[t].chunk, 1, ret'[t])
         IN  (Stream \o Text(current_entry))' = kept \o Text(current_entry) \o added
    ]_vars

\* A read returns the bytes of the concatenated commands from the position it
\* was called at, without a gap, and returns 0 only at or past their end.
ReadsDeliverTheStream ==
  [][\A t \in Tasks :
       /\ pc[t] = "read_copy" /\ pc'[t] = "read_return" /\ ret'[t] # EFAULT =>
            /\ ubuf'[t] = SubSeq(Stream, pos[t] + 1, pos'[t])
            /\ Len(ubuf'[t]) = ret'[t]
            /\ ret'[t] \in 1..call[t].count
       /\ pc[t] = "read_lock" /\ pc'[t] = "read_return" /\ ret'[t] = 0 =>
            pos[t] >= Len(Stream)
    ]_vars

\* The command of the ring that a struct aesd_seekto names, if it has that byte.
NamesByte(seekto) ==
  /\ seekto.write_cmd < num_entries(c_buffer)
  /\ seekto.write_cmd_offset < Contents(c_buffer)[seekto.write_cmd + 1].size

\* AESDCHAR_IOCSEEKTO with a byte that exists moves the file to that byte: the
\* next read finds the named command at the named offset.
SeekToFindsTheByte ==
  [][\A t \in Tasks :
       LET seekto == call[t].seekto IN
       pc[t] = "ioctl" /\ buffer_lock = NoTask /\ pc'[t] = "idle" /\ NamesByte(seekto) =>
         aesd_circular_buffer_find_entry_offset_for_fpos(c_buffer, f_pos'[call[t].file])
           = [slot   |-> SlotAt(c_buffer, seekto.write_cmd),
              offset |-> seekto.write_cmd_offset]
    ]_vars

\* AESDCHAR_IOCSEEKTO moves the file only to a byte of a command that exists.
SeekToRejectsOutOfRange ==
  [][\A t \in Tasks :
       pc[t] = "ioctl" /\ f_pos' # f_pos /\ pc'[t] = "idle" =>
         NamesByte(call[t].seekto)
    ]_vars

\* Every system call returns.
CallsReturn == \A t \in Tasks : pc[t] # "idle" ~> pc[t] = "idle"

=============================================================================
