------------------------- MODULE CircularBufferSpec -------------------------
(***************************************************************************)
(* The circular buffer as a component: one caller that holds the lock and  *)
(* adds one entry after another, each with memory of its own.              *)
(***************************************************************************)
EXTENDS CircularBuffer, SequencesExt

CONSTANTS
  Ptrs,        \* the memory blocks the caller may pass
  Sizes        \* the sizes of the entries it may pass

ASSUME PtrsAssumption == Null \notin Ptrs
\* aesd_write never commits an empty entry. With one in the slot it wraps to,
\* add_entry would not notice that the ring is full.
ASSUME SizesAssumption == Sizes \subseteq Nat \ {0}

VARIABLES
  buffer,      \* struct aesd_circular_buffer
  released     \* the pointer the last call returned

vars == <<buffer, released>>

Entry == [buffptr : Ptrs, size : Sizes]

Held == {buffer.entry[i].buffptr : i \in Slots}

Init == /\ buffer = aesd_circular_buffer_init
        /\ released = Null

\* The caller may pass any block the ring does not already refer to.
AddEntry(e) ==
  /\ e.buffptr \notin Held
  /\ buffer' = aesd_circular_buffer_add_entry(buffer, e)
  /\ released' = Overwritten(buffer)

Next == \E e \in Entry : AddEntry(e)

Spec == Init /\ [][Next]_vars

-----------------------------------------------------------------------------

\* The fields keep the ranges that the modulo arithmetic on the offsets gives
\* them, and the ring refers to the blocks of its caller only.
TypeOK ==
  /\ buffer \in BufferOf(Entry)
  /\ released \in Ptrs \cup {Null}

\* After any sequence of aesd_circular_buffer_add_entry calls, in_offs, out_offs
\* and full describe which slots are in use and which is the oldest.
RingShape == IsRing(buffer, Entry)

\* The ring implements RecentWrites: in age order it holds the MaxWrites most
\* recent entries, and add_entry returns the memory of the oldest entry when,
\* and only when, it overwrites that entry.
Recent == INSTANCE RecentWrites
            WITH Capacity <- MaxWrites, Entries <- Entry,
                 recent <- Contents(buffer)
ImplementsRecentWrites == Recent!Spec

\* The block handed back to the caller is one the ring no longer refers to, so
\* freeing it leaves no dangling entry, and the blocks in use are all different.
NoDanglingEntry ==
  /\ released # Null => released \notin Held
  /\ \A i, j \in Slots :
       i # j /\ buffer.entry[i].buffptr # Null
         => buffer.entry[i].buffptr # buffer.entry[j].buffptr

\* Every byte of the concatenated entries, as the slot that holds it and its
\* offset there.
ByteMap ==
  LET bytes(k) == [j \in 1..Contents(buffer)[k].size |->
                     [slot |-> SlotAt(buffer, k - 1), offset |-> j - 1]]
  IN  FlattenSeq([k \in 1..num_entries(buffer) |-> bytes(k)])

\* aesd_circular_buffer_find_entry_offset_for_fpos finds every byte of the
\* concatenated entries where it is, and nothing at the first offset past them
\* or beyond; the total that aesd_llseek computes for SEEK_END is that offset.
LookupIsConcatenation ==
  /\ TotalSize(buffer) = Len(ByteMap)
  /\ \A p \in 0..(Len(ByteMap) + 1) :
       aesd_circular_buffer_find_entry_offset_for_fpos(buffer, p) =
         IF p < Len(ByteMap) THEN ByteMap[p + 1] ELSE NotFound

=============================================================================
