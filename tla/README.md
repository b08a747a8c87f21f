# A TLA+ verification of the aesdchar driver and the aesdsocket server

The repository holds a Linux character device (`aesd-char-driver/`), a
multi-threaded socket server that stores what clients send on that device and
sends it back (`server/`), two small libraries (`examples/`) and course scripts
(`finder-app/`). The driver and the server carry most of the state, the
concurrency and the failure handling; the two libraries have some of each. These
four are what is modelled here.

## 1. Inventory

### Components

| component | source | state | operations |
|---|---|---|---|
| circular buffer | `aesd-circular-buffer.[ch]` | array of entries (pointer, size), `in_offs`, `out_offs`, `full` | `init`, `add_entry` (returns the overwritten pointer), `find_entry_offset_for_fpos`, the `FOREACH` loop |
| aesdchar driver | `main.c`, `aesdchar.h`, `aesd_ioctl.h` | one ring, one `current_entry` (the command being assembled), `buffer_lock`; per call: `kbuf`, the position | load, unload, `open`, `release`, `read`, `write`, `llseek`, `ioctl` |
| socket server | `server/aesdsocket.c` | `keep_running`, `file_mutex`, `linked_list_mutex`, the list of threads, main's `last`, one `thread_data` per connection, the listening socket | accept loop, `message_handler_thread`, `handle_ioctl`, `set_thread_complete_success`, `check_completed_threads`, `clean_threads`, `cleanup`, the signal handler; start-up; the timestamp timer |
| load, unload, start and stop scripts | `aesdchar_load`, `aesdchar_unload`, `*-start-stop` | the node `/dev/aesdchar`, the loaded module | load, unload, start, stop |
| threading example | `examples/threading` | a mutex, one `thread_data` per thread | `start_thread_obtaining_mutex`, `threadfunc` |
| systemcalls example | `examples/systemcalls` | during a call: a child process, an output file; the caller's stdout buffer | `do_system`, `do_exec`, `do_exec_redirect` |
| finder application, image and QEMU scripts, tests | `finder-app/`, `student-test/`, `*.sh` | none between runs | - |

### How they interact

- The driver calls the circular buffer with `buffer_lock` held. Ownership of
  memory crosses that call: the entry's block goes into the ring, the
  overwritten block comes back and is the driver's to free.
- Any number of tasks call the driver. They share the device, and may share a
  `struct file` and so its position.
- Each server thread opens the device, writes a packet and reads the whole
  device back, all under `file_mutex`. The list of threads is shared by main and
  the threads under `linked_list_mutex`.
- The signal handler clears `keep_running` and, by interrupting `accept`, wakes
  main. `cleanup` runs in main, and also in a thread that cannot open the device.
- The name `/dev/aesdchar` is made by the driver's scripts, opened by the server's
  threads and removed by `cleanup`, also by that of a second instance.
- The two libraries of `examples/` are used by programs outside the repository, and
  neither uses the other.

### What is hard, and what correct means

*Circular buffer.* Full and empty have the same offsets and only the flag tells
them apart; the lookup must be right at the borders of entries and across the
wrap. Correct: it holds the most recent entries in age order, hands memory back
exactly when it forgets an entry, and finds every byte of their concatenation.

*Driver.* Writers cut commands anywhere and interleave in one `current_entry`;
three allocations and a user copy can fail in the middle of a write; copies may
sleep; a full ring frees memory a reader may be looking at. Correct: the device
is the window of the most recent commands; every block is owned exactly once;
nothing uninitialised is stored; reads deliver the stream; seeks find the named
byte; the lock is given back on every way out; every call returns.

*Server.* Threads append and read back concurrently; completed threads are
joined while others start; the node a thread marks complete is looked up through
a pointer that is never assigned; the device may refuse a write, which the server
does not notice; shutdown races with all of it. Correct: a reply
is the device up to the client's own packet; mutexes are given back; sockets
outlive their threads; no thread is lost; a signal ends the program.

*Threading.* Threads are started, sleep, contend for mutexes and are joined in any
order; allocation, creation and locking may fail. Correct: a thread holds its
mutex alone; its `thread_data` is its own until it is joined, and freed once; a
success is reported; every thread ends.

*Systemcalls.* Each call forks a process that has a copy of the caller's buffers
and descriptors; open, fork, dup2, execv and waitpid may fail. Correct: the result
says how the command ended; the caller's text is written once and in order; the
output goes to the file and nowhere else; no descriptor is left; the call returns.

`PROJECT.json` lists the hazards one by one, at their lines.

## 2. Modules

| module | models | role |
|---|---|---|
| `CircularBuffer` | `aesd-circular-buffer.[ch]` | the ring's functions as operators on a record with the fields of the struct |
| `CircularBufferSpec` | a caller of `add_entry` that holds the lock | the ring as a state machine |
| `RecentWrites` | - | abstract: the last *n* entries, and the pointer handed back |
| `AesdChar` | `main.c` | the driver, using `CircularBuffer` |
| `CommandWindow` | - | abstract: a stream of bytes cut at newlines, the last *n* commands |
| `AesdSocket` | `aesdsocket.c` | the server from its start to its end, and over new starts |
| `Threading` | `threading.[ch]` | threads that obtain and release a mutex, and their joiner |
| `SystemCalls` | `systemcalls.c` | the three calls, their child processes, and a caller that prints |
| `Examples` | - | a program that uses `Threading` or `SystemCalls` |
| `MCCircularBuffer`, `MCAesdChar`, `MCAesdSocket` | - | small instances |
| `RingLemmas` | - | lemmas on the ring's operators, sums and concatenations, shared by the proofs of the ring and of the driver |
| `CircularBufferProofs` | - | theorems on the ring |
| `AesdCharProofs`, `AesdCharMemoryProofs`, `AesdCharStreamProofs` | - | theorems on the driver: the lock; pointers, types and memory; the bytes and the refinement. Each extends the one before |
| `AesdSocketProofs` | - | theorems on the server |
| `ThreadingProofs`, `ExamplesProofs` | - | theorems on the two libraries |

Operators whose comment begins "Mutant of" are faulty versions of the
definition below them: with the fault in place the run named in `PROJECT.json`
must fail, which shows that the property looks at the code it is about. No
specification uses them.

### `CircularBuffer`, `CircularBufferSpec`

The operators keep the source's names. `add_entry` is split into its result
(`aesd_circular_buffer_add_entry`) and the pointer it returns (`Overwritten`).
The walk of the lookup over the slots is the smallest age at which the running
total of sizes exceeds the offset (`BeyondOffset`, `SizeOfFirst`). Like the code,
`SizeOfFirst` walks round the array when asked for more than it holds.
`CircularBufferSpec!ByteMap` is the reference for the lookup: the concatenation of the
entries, each byte named by its slot and its offset.
Offsets are `uint8_t` in the code, hence the assumption `MaxWrites \in 1..255`;
within it no addition of the code leaves the width. Entries are not empty: the
driver never commits an empty one, and `add_entry` relies on it to tell full from
empty.

### `AesdChar`

`c_buffer`, `current_entry` and `buffer_lock` are the fields of `struct
aesd_dev`; `heap` is the kernel heap as the bytes of each allocated block, with
`Junk` for bytes nothing was copied to. A call is split where other tasks can
run in between:

| code | actions |
|---|---|
| `aesd_read` | `CallRead`, `ReadFind` (lock, lookup), `ReadCopy` (copy, unlock), `ReadReturn` |
| `aesd_write` | `CallWrite`, `WriteLock` (lock, `kmalloc`), `WriteCopy`, `WriteAppend` (to the unlock), `WriteReturn` (`kfree(kbuf)`) |
| `aesd_llseek`, `aesd_ioctl` | `CallLlseek`, `CallIoctl`, then the locked part as one step |
| a signal in `mutex_lock_interruptible` | `Interrupted` |
| open, release, load, unload | one action each |

Steps inside a critical section that touch only what `buffer_lock` protects are
merged: nothing else can observe them. The kernel around the driver
(`kmalloc`, `krealloc` which may move the block or not, the copy of the position
that the VFS keeps during a read or write, the refusal to unload while a file is
open) is modelled from how the driver uses it and marked external. `Faults` names
what may fail; the actions take a failing branch only if it is in `Faults`.
Two places are modelled as written although they are probably not meant: the
returns of `aesd_llseek` and the jump of `aesd_write` that skip the unlock, and a
failed `krealloc`, after which `current_entry` has a size and no memory. After a
lost lock the model goes on, with everyone else waiting.

### `AesdSocket`

`pc` says where main and each thread are; a connection, its thread and its list
node have one name. `list` is the `SLIST`, `complete` the nodes whose flag is
set, `tag` the uninitialised `client_thread_node`, whose value is any member of
`Garbage`.

The start of main up to its loop is one step, `Boot`: nothing runs beside it. It
ends in the loop, in a plain return (signal handlers, mutexes, socket), or in
`cleanup` (address, options, bind, fork, setsid, listen). `Restart` is the start of
a new process once the old one has returned or died; mutexes, list and sockets are
new, the stores and the name `/dev/aesdchar` are as they were left.
`SecondInstance` is another process that fails to bind while this one listens:
all that is seen of it is the `unlink` in its `cleanup`.

There are two stores, each the log of the packets written to it: the device, and
the ordinary file that `fopen` makes when the name `/dev/aesdchar` is gone. A packet is a
whole command of the device, which holds the last `Capacity` of them: `Held` is what it
can be read for, `HeldAfter(s, n)` what it held after *n* packets. Other programs may
have written `Earlier` packets before the server's first start. `node` is
what the name stands for, `opened` the store that the owner of `file_mutex` has open,
which may have lost its name since. A packet records who sent
it and whether an earlier piece of it was dropped (`recv` returned it without a
newline).

`Flush` stands for `fwrite` and `fflush`. The device refuses a write when it is out of
memory (`aesd_write` returns `-ENOMEM`, `main.c:124-128`, `154-157`), a disk when it is
full; nobody looks at the result (`aesdsocket.c:113`, `119`). With `nowrite` in `Faults`
the packet may not be stored there; then `Send` finds the store without it, or a stream
that cannot be read and an empty reply, and `fclose` may still write the packet after
the reply has gone. A retry that succeeds when `fseek` flushes the stream has the
effect of a `Flush` that succeeds. A retry by `fgets`, between two parts of the
reply, and a write that stores a part of the packet are not modelled.

`CanSeek` is the `ioctl` of a seek command: the device must be there, and
`aesd_ioctl` (`main.c:266-283`) takes the command if the index exists, or is not looked
at because the ring is full, and the offset lies in the command; `past` says that it does
not. An accepted offset is left out of the reply, which starts with the whole command.

`check_completed_threads` and `clean_threads` are loops that keep
`linked_list_mutex` over their joins, one join per step, so that a join can block
with the mutex held. A process that dereferences NULL or is killed by `SIGPIPE`
stops (`crashed`). A thread that joins itself gets an error: in `clean_threads`
`temp_thread_data` is then NULL, in `check_completed_threads` it is
uninitialised and the step is a choice of outcomes (`ForgetSelf`).
Formatting, logging, addresses, the 1024-byte chunks of the reply and the result
values that nobody tests are left out. The freed node that
`SLIST_FOREACH` steps over still has its link with the C library's allocator;
the model takes the walk to go on.

### `Threading`, `SystemCalls`, `Examples`

`Threading` splits `start_thread_obtaining_mutex` into the allocation and
`pthread_create`, and `threadfunc` into its two sleeps, the lock, the unlock and the
setting of the flag. `memory` is what `malloc` hands out, `param` the pointer each
thread was given. `thread_complete_success` starts as "junk" and reads as either
value. The joiner is not in the repository; `JoinThread` does what `threading.h`
asks: it reads the flag and frees the memory.

In `SystemCalls`, call *i* has child process *i*. The caller prints numbered lines
into its buffer and makes calls; a child has a copy of the buffer, which `exit(1)`
writes and `execv` drops. `written` is what has arrived in each place (stdout and the
output files), in order. The commands exit with 0, exit with 1, are killed, or
cannot be executed. An interrupted `waitpid` leaves `status` unassigned: either
result is possible, the child goes on and may still write during the next call.

`Examples` chooses one library at the start; the states of the two add up and are
not multiplied.

## 3. Runs

| run | configuration | question and answer |
|---|---|---|
| `ring` | 4 slots, 5 blocks, sizes 1 to 3 | The ring is well formed (`RingShape`), implements `RecentWrites`, leaves no dangling pointer (`NoDanglingEntry`), and its lookup and total size agree with the concatenation, at every offset up to one past the end (`LookupIsConcatenation`). |
| `driver_writes` | 2 writers, ring of 2, 5 blocks, commands of up to 4 bytes cut in every way, failures `nomem_kbuf`, `nomem_rest`, `eintr` | The device implements `CommandWindow`; a write has stored what it reports; memory is owned once, not leaked, not read uninitialised; the lock excludes and is given back. |
| `driver_reads` | 2 tasks on one shared file: read (of 0 to 2 bytes, fewer than an entry may have left), write, `llseek`, `ioctl` (to the start, the inside and the end of a command), all failures | Reads deliver the stream without a gap, seeks find the byte, and neither the lock nor the pointers are broken by any failure. |
| `driver_liveness` | every kind of call, ring of 1, fairness | `CallsReturn`. |
| `server_faults` | 2 connections, every failure but a split packet, any value in `client_thread_node`, two starts, second instances, a device of 2 packets that has one at the start | The mutex excludes, also over failures and new starts. A reply from the device is what that held at one moment, and it ends with the client's own packet or, only if the write of that failed, lacks it. |
| `server_serve` | 2 connections, clients that keep to the protocol, one start, fairness | Replies arrive, `file_mutex` is given back, sockets are closed after use, no thread is forgotten, `exit` follows the join of all, the device keeps its name while a thread uses it, and a signal with no thread at work ends the program. |
| `examples` | 3 threads, 2 mutexes, memory for 2; or 2 calls and 2 lines; every failure, fairness | Each thread owns its mutex and its data, a success is reported, threads end; results are truthful, text is written once and before the output of `do_exec`, redirected output is in the file only, no descriptor is left, and a call waits only for a command that never ends. |

Five more runs exhibit disagreements between the code and what the repository
says of it; each checks one property and TLC's counterexample is short.

| run | what happens |
|---|---|
| `driver_llseek_keeps_lock` | `aesd_llseek` returns `-EINVAL` with `buffer_lock` held (`main.c:226-232`); every later call blocks. |
| `driver_seekto_unchecked` | On a full ring the index of `AESDCHAR_IOCSEEKTO` is not checked (`main.c:267`); command 2 of a ring of two is accepted. |
| `server_seek_keeps_mutex` | `handle_ioctl` returns with `file_mutex` locked when the device refuses the seek (`aesdsocket.c:386-392`). |
| `server_shutdown_hangs` | `clean_threads` joins under `linked_list_mutex` a thread that needs it to end (`aesdsocket.c:215-238`, `252`). |
| `server_restart_loses_device` | `cleanup` removes the node `/dev/aesdchar` (`aesdsocket.c:25`, `157-158`); after a stop and a start the packets go to an ordinary file. |

Known behaviour that no run of its own shows:

- A write with two newlines leaves the second command in `current_entry`
  (`main.c:139`, `177-185`), and the next entry holds two commands: with the chunk
  `<<nl, a, nl>>` in `Chunks`, `EntriesAreCommands` fails. The comment at `main.c:164`
  does not say what such a write should do.
- The offset of `AESDCHAR_IOCSEEKTO` may be the size of the command (`main.c:279`): the
  position one past its last byte is accepted. `driver_reads` has such seeks.
- `check_completed_threads` joins no thread that has completed (`aesdsocket.c:187-201`):
  the flag it looks at is set through `client_thread_node`, which nothing assigns
  (`aesdsocket.c:137`). The threads are joined when the program ends.
- A signal between the test of `keep_running` and `accept` (`aesdsocket.c:562`, `574`)
  does not end the program: `accept` waits for a next connection.
- The result of `fwrite` and `fflush` is ignored (`aesdsocket.c:113`, `119`): a client
  whose packet the device refuses gets the device without it. `ReplyEndsWithOwnPacket`
  names the case.
- `do_system` returns true for a command that fails or does not exist
  (`systemcalls.c:24`); its comment (lines 9-12) promises false. The model does the
  same, and `TruthfulResult` leaves `do_system` out.
- `do_exec_redirect` does not flush stdout before its `fork`, as `do_exec` does, so a
  child that cannot execute the command writes the caller's pending text a second
  time, into the output file (or to stdout after a failed `dup2`).
  `TextWrittenOnce` counts these copies.
- `do_exec` and `do_exec_redirect` do not look at what `waitpid` returns.
- `thread_complete_success` is not initialised: a thread that could not lock its
  mutex may be reported as a success.

### What the passing runs leave out

A property that a known defect breaks is checked with that defect's trigger out
of `Faults` or of the inputs, so that it says something about the rest:

- `driver_writes`: no `efault_write` (keeps the lock), no `nomem_grow` (leaks the
  block and leaves a size without memory), no `unload_partial` (unloading between
  two parts of a command leaks the first), no chunk with two newlines.
  `driver_liveness`: no `efault_write`, no seek that is rejected.
  `driver_reads` has all of these failures, and checks what still holds.
- `server_serve`: no `hangup` and `sigpipe` (the process dies), no `nofile`
  (`cleanup` in a thread with `file_mutex` held), no `nomem_node` (the socket is
  closed under the thread), no `seek_missing` and no `seek_past` (keep `file_mutex`), no
  `nowrite`, which matters to what a reply holds and is the subject of
  `server_faults`. `Garbage` is
  `{Wild}`: freshly mapped or reused memory that is not the address of a live
  node, which is what the build produces in practice. No node is then ever
  marked complete, so that threads are joined at the end only.
  No `second_instance`, and no `nostart`: the other process's `cleanup`, or that of a
  failed start, removes the name. `server_faults` has all these failures and every
  value.
- `server_faults`: no `split`. A packet whose first piece was forgotten is stored and
  sent back like any other, and with `split` the run would only be longer;
  `server_serve` has it.
- `examples`: nothing; its properties name the cases they leave out
  (`TruthfulResult` and `OutputInPlace`: an interrupted wait).

`GracefulExit` begins once the signal has reached a main that is not between the
test of `keep_running` and `accept`. `MainSleep` may follow the signal, and the property
fails if it begins with the signal.

### Bounds

`MaxWrites` is 1, 2 or 4 (10 in the code): what matters is empty, partly filled,
just full, and overwriting with the start at each slot, all of which a ring of 2
reaches and a ring of 4 reaches with distinct first, middle and last slots. Two
tasks are enough for every pairwise race on one lock. One file, shared, is the
harder case than one each. The blocks suffice for the ring, `current_entry` and
the `kbuf` of the one task in the critical section, with one to spare where a
moving `krealloc` needs it; a task waiting in `WriteReturn` may hold another, and
an allocation then waits for it or fails. `MaxCommand` bounds an unterminated command: a
write without a newline starts only as long as the bytes not yet ended by a
newline stay within it; it is the only bound in a guard. In `server_faults` the
device holds 2 packets and has one at the start, so that the second connection
overwrites, and a reply is then not the log from its beginning; the other server runs
start with an empty device. Each connection sends one packet
or command, as the server's threads handle no more. `MaxStarts` is 2 in
`server_faults` and `server_restart_loses_device`: every way to end is followed by a
start, on a device with or without its name. The other server runs have one start,
as their properties are about one process. `MaxCalls` 2 lets a call meet a child that
an earlier one left behind; `MaxLines` 2 lets text be pending before and between the
calls, which name one output file so that the second truncates what the first has
written. Memory for two `thread_data` and three threads make blocks be used again
while another thread waits for the mutex. `Symmetry` (tasks and blocks, connections,
blocks alone for the ring) is used in runs without liveness only.

`CHECK_DEADLOCK FALSE` stands in the server's configurations because the program
may exit, may crash, and in the states of the findings does block for ever, and in
that of the examples because a program may end. The
driver's runs check deadlock: while a file can be opened and closed
there is always a step, so there it says little.

### Fairness

`AesdChar!Fairness`: a task that needs nothing is scheduled (WF), a copy from or
to user space ends (WF), and a task that waits for `buffer_lock` gets it if it is
free again and again (SF): the kernel's mutex queues its waiters and hands the lock
over to one that starves. `AesdSocket!Fairness` says the same of the server's threads
and its two mutexes. Nothing makes a client connect or send, a signal arrive, or an
interrupted call happen. SF for the pthread mutexes is more than POSIX promises; no
client can hold one for longer than its reply, and there are finitely many.

`ThreadingFairness`: sleeps end and threads are scheduled (WF), and a mutex that is
free again and again is not withheld for ever (SF on the lock that succeeds; nothing
forces one to fail). `SystemCallsFairness`: the caller and its children are scheduled
up to `execv`. That a command ends is not assumed: `CommandsReturn` has it as its only
excuse.

## 4. Proofs

Every invariant and every action property that a passing run checks is also a theorem,
and so are both refinements. A theorem holds for every value of the constants that meets the
module's named assumptions (`MaxWritesAssumption`, `PtrsAssumption`, `SizesAssumption`,
`AesdCharAssumption`, `AesdSocketAssumption`, `ThreadingAssumption`,
`SystemCallsAssumption`, which TLC evaluates on its instances): any number of slots,
tasks, files, blocks, connections, threads, calls and lines, and any inputs.

Some theorems have a hypothesis more. It names the failures or inputs after which the
code does break the property, and nothing else; section 3 says what happens then. Each
is met by the configuration of the run that checks the property.

| hypothesis | says | why it is needed |
|---|---|---|
| `NoEarlyExit` | no `efault_write`; seeks with a known `whence` and a non-negative offset | these returns keep `buffer_lock` |
| `NothingLost` | no `nomem_grow`, no `unload_partial` | the failed `krealloc` and the unload within a command lose a block |
| `GrowSucceeds` | no `nomem_grow` | after it `current_entry` has a size and no memory |
| `OneNewLine` | a write has at most one newline | a second one ends up inside an entry |
| `ListKept` | `Garbage` has no node; no `nomem_node`, `nofile`, `second_instance` | the list, the sockets and the name depend on nobody marking another's node, and on `cleanup` running once, in main |
| `SeeksSucceed` | `ListKept`, no `seek_missing`, no `seek_past`, one start | `handle_ioctl` keeps `file_mutex` when the seek fails, as it does on the ordinary file that a second start finds |

### Ring

- `RingSafety` (`RingShape`) and `RingTypes`. `RingShape`
  is inductive with the types: not full means the ring fills from slot 0 and the
  rest is zero; full means every slot is used and `in_offs = out_offs`, and full
  it stays. Neither part survives `add_entry` alone: that the flag is set exactly
  when the last free slot is used needs the zero sizes, and these need the
  offsets. Assumptions: `MaxWrites \in 1..255`, non-zero sizes.
- `RingRefinement`: under `RingShape`, `add_entry` appends to `Contents` (`AddAppends`)
  or drops the oldest and returns its memory (`AddReplacesOldest`).
- `RingNeverDangles` (`NoDanglingEntry`): that the entries' blocks differ is what makes
  it inductive; the one slot that referred to the block has just been overwritten.
- `LookupIsExact` (`LookupIsConcatenation`): the running totals of the lookup are
  strictly increasing up to the number of entries, so that each byte of the
  concatenation lies in exactly one entry, wherever the ring starts. The totals are
  sums over the slots. `RingLemmas` proves what is needed by induction: a set of
  naturals that has 0 and the successor of each of its members is `Nat`
  (`NatInductive`, from the least element of a set, `LeastExists`), applied to the set
  of the lengths for which the fact holds.

### Driver

- `LockExcludes` (`MutualExclusion`). The invariant `LockInv` adds that a call
  keeps its file open and an open file keeps the module loaded: without it
  `aesd_init_module`, which resets the mutex, could run while a task is
  in its critical section.
- `DriverTypes`, `DriverPointers` (`PointersSound`), with all failures. `DriverInv` is
  `LockInv`, the types, `Memory` (the ring is well formed, its entries have the size of
  their blocks, the pointers of the ring, of `current_entry` and of every `kbuf` are
  allocated and differ) and, for each task, what its locals mean where it stands
  (`TaskInv`): the result of the lookup in `read_copy`, the size and content of `kbuf` in
  a write. What a task found under the lock still holds at its next step, because the
  others cannot be inside; this is where `LockExcludes` is used.
- `SeekToIsExact` (`SeekToFindsTheByte`), `LockComesBack` (`LockReleased`, under
  `NoEarlyExit`), `DriverLeaksNothing` (`NoLeak`, under `NothingLost`; `LeakInv` adds that
  an unloaded module points to nothing, so that `aesd_init_module` forgets nothing).
- `ReadsAreTheStream` (`ReadsDeliverTheStream`, with all failures): the byte that the
  lookup finds is the byte of `Stream`, a concatenation defined by a fold.
- `OnlyUserBytes`, `RingHoldsCommands`, `WritesStoreWhatTheyReport`,
  `DeviceRefinesCommandWindow`. The critical section of `aesd_write` is described by
  what it does to the texts (`Extended`, `Completed`); `BytesInv` and `CommandsInv` say
  that these are bytes of the users, and whole commands and the start of the next.
  In the refinement the step of `CommandWindow` is the append; all others stutter.

### Server

- `FileMutexExcludes` (`FileInv` adds the type of `pc`) and `ServerTypes` (`TypeInv`), with
  all failures and any garbage: `cleanup` in a thread, joins of oneself, and the paths
  that never unlock are cases like the others.
- `RepliesEndWithTheirPacket` (`ReplyEndsWithOwnPacket`, with all failures, the refused
  write included, for any capacity of the device and anything on it before).
  `ReplyInv` follows each connection (`Conversation`): before its packet is written nothing
  has been sent and no store has it (`NotStored`); from then to the reply the packet is the
  last one of the store that the thread has open, since nobody else can have written, or
  the write failed and it is in no store; afterwards stores only grow, also over new
  starts, and what the device held after *n* packets is what it was
  (`StoreKeepsThePast`). That the last packet of the log is still among those held needs
  only that the device holds at least one.
- `ThreadsAreFound`, `SocketsOutliveThreads`, `MainWaitsForThreads`,
  `DeviceKeepsItsName`, under `ListKept`, from one invariant, `ServeInv`: no node is ever
  marked complete, the list has each started thread once, main's `last` is in it, and
  `clean_threads` shortens it one joined thread at a time until, with the list empty,
  the name is removed.
- `FileMutexComesBack` (`FileMutexReleased`), under `SeeksSucceed`: until main returns the
  name is the device's, and the device takes every seek that is under way, since one that
  it takes it goes on taking when more packets arrive (`StoreKeepsSeeks`).

### Libraries

- `MutexExcludes`, `ThreadDataSafety`, with all failures. One invariant serves both,
  since they need each other: the mutex a thread holds is found through its
  `thread_data`, so that nobody may free or share this meanwhile; and that a thread at
  rest has no pointer (`NotStarted`) keeps a failed `pthread_create` from freeing another
  thread's block. `SuccessIsReported` (`SuccessReported`) adds that a thread which has
  released its mutex and ended has its flag set (`FlagSet`).
- `ResultsAreTruthful`, `OutputsAreClosed`, with all failures. `ProcessInv`: only the call
  in progress has a descriptor, and each child fits its call (`Fits`) by its state,
  status and place of output.
- `TextComesFirst`, `OutputGoesWhereItShould`, `TextIsNotRepeated`, with all failures.
  `TextInv` puts together where text may come from (`SourceInv`: buffers hold printed
  lines, each once), that no line is lost and that those before `do_exec` are written
  (`FlushInv`), what the output file holds while no earlier child is at work (`PlaceInv`),
  and a count (`CopiesInv`): a line that is still in the buffer has been written only by
  children that called `exit(1)`. The proof first shows that each action is one of five
  kinds of step as far as the text goes (`Effects`).
- `ExamplesTypes`: the types of both. That a program of `Examples` is one of each library,
  so that the theorems above hold of it, is the lemma `ExamplesKeepApart`: it is how
  `Examples` is defined.

### Only model-checked

- The liveness properties `CallsReturn`, `RepliesArrive`, `GracefulExit`, `ThreadsFinish`
  and `CommandsReturn`: the provers do not reason about fairness and `ENABLED`.
- The five violations, which are counterexamples.

## 5. Not modelled

- The timestamp timer (`print_timestamp`, `set_timer`): nothing calls it as long as
  `USE_AESD_CHAR_DEVICE` is 1.
- The driver's scripts: they load the module and make the node before the server
  starts, which is the server's initial state, and undo both after it has stopped;
  `AesdChar` has load and unload. A forced `rmmod -f` (`aesdchar-start-stop`) while the
  device is open is refused, as by a kernel without forced unloading.
- `create_thread_data` that fails: main goes round its loop.
- `finder-app`, the image scripts and the tests: no state between runs.
- The failure of `pthread_mutex_lock`, `unlock` and `init`: with default mutexes
  that are initialised they do not fail. `Threading` has the failure of the lock, as
  its caller brings the mutex, and not that of the unlock by the owner.
- The times of the threading example, and the argument lists of systemcalls.
- Arguments that the kernel rules out (NULL `filp`, `buf`, `f_pos`; a negative
  position), and `ENOTTY`, `EFAULT` of `aesd_ioctl` before the lock, which change
  nothing.
- Overflow of `loff_t` and of the running totals: sizes are bounded by memory.

## 6. Plan

1. Done: `CircularBuffer`, `RecentWrites`, `AesdChar`, `CommandWindow`, `AesdSocket`
   with the life of the process and of the device node, `Threading`, `SystemCalls`,
   `Examples`, their runs, and the theorems above.
2. Nothing more of the system is left to model that has state: see section 5.
3. Weaker hypotheses where the code allows it: `ListKept` with `nofile` for the
   properties that survive a `cleanup` in a thread; `FileMutexReleased` over several
   starts, for clients that send no seek command.
