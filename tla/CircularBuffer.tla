--------------------------- MODULE CircularBuffer ---------------------------
(***************************************************************************)
(* The ring of aesd-char-driver/aesd-circular-buffer.[ch]: a fixed array   *)
(* of MaxWrites entries, the slot the next entry goes to, the slot of the  *)
(* oldest entry, and a flag that tells a full ring from an empty one.      *)
(*                                                                         *)
(* The functions of the library take the buffer as an argument and so do   *)
(* the operators below; CircularBufferSpec makes a state machine of them   *)
(* and AesdChar calls them on the ring of the device.                      *)
(***************************************************************************)
EXTENDS Integers, FiniteSetsExt

CONSTANTS
  MaxWrites,   \* AESDCHAR_MAX_WRITE_OPERATIONS_SUPPORTED
  Null         \* the NULL pointer

\* The offsets and the loop index of the FOREACH macro are uint8_t, so 255
\* slots are the most the code can count.
ASSUME MaxWritesAssumption == MaxWrites \in 1..255

Slots == 0..(MaxWrites - 1)

\* A zeroed struct aesd_buffer_entry.
NoEntry == [buffptr |-> Null, size |-> 0]

\* What memset leaves in a struct aesd_circular_buffer.
aesd_circular_buffer_init ==
  [entry    |-> [i \in Slots |-> NoEntry],
   in_offs  |-> 0,
   out_offs |-> 0,
   full     |-> FALSE]

\* Mutant of Advance: the offset is not wrapped.
AdvanceUnwrapped(offs) == offs + 1

Advance(offs) == (offs + 1) % MaxWrites

\* The slot of the k-th oldest entry, counting from 0.
SlotAt(buffer, k) == (buffer.out_offs + k) % MaxWrites

IsEmpty(buffer) == buffer.in_offs = buffer.out_offs /\ ~buffer.full

\* The number of entries, the way aesd_ioctl counts them.
num_entries(buffer) ==
  IF buffer.full THEN MaxWrites ELSE buffer.in_offs - buffer.out_offs

\* Mutant of Overwritten: the oldest entry is handed back from a ring with room.
OverwrittenUnlessEmpty(buffer) == buffer.entry[buffer.out_offs].buffptr

\* The pointer aesd_circular_buffer_add_entry returns: the memory of the entry
\* it is about to overwrite, which its caller must free.
Overwritten(buffer) ==
  IF buffer.full THEN buffer.entry[buffer.in_offs].buffptr ELSE Null

\* Mutant of OutAfterAdd: the start does not move when the oldest is overwritten.
OutUnmoved(buffer) == buffer.out_offs

\* The slot of the oldest entry once the entry at in_offs is overwritten.
OutAfterAdd(buffer) ==
  IF buffer.full THEN Advance(buffer.out_offs) ELSE buffer.out_offs

\* The buffer aesd_circular_buffer_add_entry leaves behind.
aesd_circular_buffer_add_entry(buffer, add_entry) ==
  LET entries == [buffer.entry EXCEPT ![buffer.in_offs] = add_entry]
      in      == Advance(buffer.in_offs)
      out     == OutAfterAdd(buffer)
  IN  [entry    |-> entries,
       in_offs  |-> in,
       out_offs |-> out,
       full     |-> buffer.full \/ (in = out /\ entries[in].size # 0)]

\* The total size of the n oldest slots. Like the loops of the code it walks
\* round the array, so n may exceed the number of entries.
SizeOfFirst(buffer, n) ==
  LET sum[k \in 0..n] ==
        IF k = 0 THEN 0 ELSE sum[k - 1] + buffer.entry[SlotAt(buffer, k - 1)].size
  IN  sum[n]

NotFound == [slot |-> -1, offset |-> 0]

\* Mutant of BeyondOffset: >= for >, so an offset at the end of an entry is found
\* in it and not in the next one.
AtOffset(buffer, char_offset) ==
  {k \in Slots : SizeOfFirst(buffer, k + 1) >= char_offset}

\* The entries, by age, at which the running total exceeds char_offset.
BeyondOffset(buffer, char_offset) ==
  {k \in Slots : SizeOfFirst(buffer, k + 1) > char_offset}

\* The slot that holds the byte at char_offset of the concatenated entries, and
\* the offset of the byte in that slot.
aesd_circular_buffer_find_entry_offset_for_fpos(buffer, char_offset) ==
  LET beyond == BeyondOffset(buffer, char_offset)
      first  == Min(beyond)
  IN  IF IsEmpty(buffer) \/ beyond = {}
      THEN NotFound
      ELSE [slot   |-> SlotAt(buffer, first),
            offset |-> char_offset - SizeOfFirst(buffer, first)]

\* The sum over every slot that the AESD_CIRCULAR_BUFFER_FOREACH loop of
\* aesd_llseek computes.
TotalSize(buffer) ==
  LET sum[i \in 0..MaxWrites] ==
        IF i = 0 THEN 0 ELSE sum[i - 1] + buffer.entry[i - 1].size
  IN  sum[MaxWrites]

\* The buffers whose entries are zero or members of E.
BufferOf(E) ==
  [entry : [Slots -> E \cup {NoEntry}], in_offs : Slots, out_offs : Slots,
   full : BOOLEAN]

\* The offsets and the flag agree with the array. Until the ring is full for
\* the first time it fills from slot 0 and the slots from in_offs on are zero;
\* from then on it stays full, and the slot written next is the oldest.
IsRing(buffer, E) ==
  /\ buffer.full => buffer.in_offs = buffer.out_offs
  /\ ~buffer.full => buffer.out_offs = 0
  /\ \A i \in Slots : IF buffer.full \/ i < buffer.in_offs
                      THEN buffer.entry[i] \in E
                      ELSE buffer.entry[i] = NoEntry

\* The entries in age order: what the offsets and the flag stand for.
Contents(buffer) ==
  [k \in 1..num_entries(buffer) |-> buffer.entry[SlotAt(buffer, k - 1)]]

=============================================================================
