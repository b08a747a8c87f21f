------------------------ MODULE AesdCharStreamProofs ------------------------
(***************************************************************************)
(* The bytes of the driver: what a read delivers, what a write stores, and  *)
(* that the device implements CommandWindow.                                *)
(***************************************************************************)
EXTENDS AesdCharMemoryProofs, FiniteSetTheorems

\* Text and Window of any ring and heap.
TextIn(h, e) == SubSeq(Bytes(h, e.buffptr), 1, e.size)
WindowOf(c, h) == [k \in 1..num_entries(c) |-> TextIn(h, Contents(c)[k])]

\* The block of the k-th oldest entry of a ring.
BlockAt(c, h, k) == h[c.entry[SlotAt(c, k)].buffptr]

\* The text of an entry is its block.
LEMMA EntryAt ==
  ASSUME NEW c, NEW k, NEW e, NEW h, Memory(c, k, e, h),
         NEW j \in Nat, j < num_entries(c)
  PROVE  /\ SlotAt(c, j) \in Slots /\ c.entry[SlotAt(c, j)] \in Entry
         /\ Contents(c)[j + 1] = c.entry[SlotAt(c, j)]
         /\ BlockAt(c, h, j) \in Seq(KernelBytes)
         /\ Len(BlockAt(c, h, j)) = c.entry[SlotAt(c, j)].size
         /\ j + 1 \in 1..num_entries(c) /\ num_entries(c) \in 0..MaxWrites
         /\ WindowOf(c, h)[j + 1] = BlockAt(c, h, j)
  <1> DEFINE x == c.entry[SlotAt(c, j)]
             b == BlockAt(c, h, j)
  <1>1. c \in BufferOf(Entry) /\ IsRing(c, Entry) /\ h \in Heaps
    BY DEF Memory
  <1>2. num_entries(c) \in 0..MaxWrites /\ j \in Slots
    BY <1>1, EntrySizes, SizesByAge, MaxWritesAssumption DEF Slots
  <1>3. SlotAt(c, j) \in Slots /\ x \in Entry
    BY <1>1, <1>2, EntrySizes, SizesByAge
  <1>4. j + 1 \in 1..num_entries(c) /\ (j + 1) - 1 = j
    BY <1>2
  <1>5. Contents(c)[j + 1] = x
    BY <1>4 DEF Contents
  <1>6. x # NoEntry /\ x.buffptr \in Addrs /\ x.buffptr # Null /\ x.size \in Nat
    BY <1>3, AesdCharAssumption DEF Entry, NoEntry
  <1>7. b \in Seq(KernelBytes) /\ Len(b) = x.size
    BY <1>1, <1>3, <1>6 DEF Memory, Heaps, BlockAt
  <1>8. TextIn(h, x) = SubSeq(b, 1, Len(b))
    BY <1>6, <1>7 DEF TextIn, Bytes, BlockAt
  <1>9. TextIn(h, x) = b
    <2> HIDE DEF x, b
    <2>1. SubSeq(b, 1, Len(b)) = b
      BY <1>7, WholePart
    <2> QED
      BY <1>8, <2>1
  <1>10. WindowOf(c, h)[j + 1] = TextIn(h, Contents(c)[j + 1])
    BY <1>4 DEF WindowOf
  <1> QED
    BY <1>2, <1>3, <1>4, <1>5, <1>7, <1>9, <1>10

\* The window is a sequence of sequences of bytes, one for each entry.
LEMMA WindowType ==
  ASSUME NEW c, NEW k, NEW e, NEW h, Memory(c, k, e, h), NEW S,
         \A j \in Nat : j < num_entries(c) => BlockAt(c, h, j) \in Seq(S)
  PROVE  WindowOf(c, h) \in Seq(Seq(S)) /\ Len(WindowOf(c, h)) = num_entries(c)
  <1> DEFINE W == WindowOf(c, h)
             T == Seq(S)
  <1>1. num_entries(c) \in Nat
    <2>1. num_entries(c) \in 0..MaxWrites
      BY EntrySizes, SizesByAge DEF Memory
    <2> QED
      BY <2>1, MaxWritesAssumption
  <1>2. ASSUME NEW i \in 1..num_entries(c) PROVE W[i] \in T
    <2>1. i - 1 \in Nat /\ i - 1 < num_entries(c) /\ (i - 1) + 1 = i
      BY <1>1
    <2>2. W[(i - 1) + 1] = BlockAt(c, h, i - 1)
      BY <2>1, EntryAt
    <2> QED
      BY <2>1, <2>2
  <1>3. W = [i \in 1..num_entries(c) |-> W[i]]
    BY DEF WindowOf
  <1> HIDE DEF W, T
  <1>4. W \in [1..num_entries(c) -> T]
    BY <1>2, <1>3
  <1>5. W \in Seq(T) /\ Len(W) = num_entries(c)
    BY <1>1, <1>4, BytesType
  <1> QED
    BY <1>5 DEF W, T

\* The concatenations of the window are as long as the loops over the ring say.
LEMMA WindowSizes ==
  ASSUME NEW c, NEW k, NEW e, NEW h, Memory(c, k, e, h), NEW S,
         NEW F, Concats(S, WindowOf(c, h), F), Len(WindowOf(c, h)) = num_entries(c)
  PROVE  \A j \in Nat : j <= num_entries(c) => Len(F[j]) = SizeOfFirst(c, j)
  <1> DEFINE A == {j \in Nat : j <= num_entries(c) => Len(F[j]) = SizeOfFirst(c, j)}
  <1>1. /\ c.out_offs \in Slots /\ (\A i \in Slots : c.entry[i].size \in Nat)
        /\ num_entries(c) \in 0..MaxWrites
    BY EntrySizes, SizesByAge DEF Memory
  <1>2. num_entries(c) \in Nat
    BY <1>1, MaxWritesAssumption
  <1>3. 0 \in A
    <2>1. F[0] = <<>>
      BY DEF Concats, Flattens
    <2>2. SizeOfFirst(c, 0) = 0
      BY <1>1, SizeOfFirstAdds
    <2> QED
      BY <2>1, <2>2
  <1>4. ASSUME NEW j \in A PROVE j + 1 \in A
    <2> SUFFICES ASSUME j + 1 <= num_entries(c)
                 PROVE  Len(F[j + 1]) = SizeOfFirst(c, j + 1)
      OBVIOUS
    <2>1. j \in Nat /\ j < num_entries(c) /\ j <= num_entries(c)
      BY <1>2
    <2>2. Len(F[j]) = SizeOfFirst(c, j)
      BY <2>1
    <2>3. Extends(S, F[j], WindowOf(c, h)[j + 1], F[j + 1])
      BY <2>1, ConcatsStep
    <2>4. Len(WindowOf(c, h)[j + 1]) = c.entry[SlotAt(c, j)].size
      BY <2>1, EntryAt, SMTT(30)
    <2>5. SizeOfFirst(c, j + 1) = SizeOfFirst(c, j) + c.entry[SlotAt(c, j)].size
      BY <1>1, <2>1, SizeOfFirstAdds
    <2>6. Len(F[j + 1]) = Len(F[j]) + Len(WindowOf(c, h)[j + 1])
      BY <2>3 DEF Extends
    <2> QED
      BY <2>2, <2>4, <2>5, <2>6, Zenon
  <1>5. A = Nat
    <2>1. A \in SUBSET Nat
      OBVIOUS
    <2> HIDE DEF A
    <2> QED
      BY <1>3, <1>4, <2>1, NatInductive
  <1> QED
    BY <1>5

\* The bytes that s names are the part of the stream at position p.
InStream(c, h, p, s) ==
  SubSeq(h[c.entry[s.slot].buffptr], s.offset + 1, s.offset + s.len)
    = SubSeq(FlattenSeq(WindowOf(c, h)), p + 1, p + s.len)

\* What a read has found is the part of the stream at its position.
LEMMA FoundInStream ==
  ASSUME NEW c, NEW k, NEW e, NEW h, Memory(c, k, e, h),
         NEW p \in Nat, NEW n \in Nat \ {0}, NEW s, Found(c, p, n, s)
  PROVE  InStream(c, h, p, s)
  <1> DEFINE W == WindowOf(c, h)
  <1>1. \A j \in Nat : j < num_entries(c) => BlockAt(c, h, j) \in Seq(KernelBytes)
    BY EntryAt
  <1>2. W \in Seq(Seq(KernelBytes)) /\ Len(W) = num_entries(c)
    BY <1>1, WindowType
  <1>3. PICK F : Concats(KernelBytes, W, F)
    <2> HIDE DEF W
    <2> QED
      BY <1>2, FlattensExists DEF Concats
  <1>4. \A j \in Nat : j <= num_entries(c) => Len(F[j]) = SizeOfFirst(c, j)
    BY <1>2, <1>3, WindowSizes
  <1>5. PICK i \in Slots :
          /\ i < num_entries(c)
          /\ SizeOfFirst(c, i) <= p /\ p < SizeOfFirst(c, i + 1)
          /\ s = [slot |-> SlotAt(c, i), offset |-> p - SizeOfFirst(c, i),
                  len |-> IF SizeOfFirst(c, i + 1) - p > n THEN n ELSE SizeOfFirst(c, i + 1) - p]
    BY DEF Found
  <1>6. i \in Nat /\ num_entries(c) \in Nat
    <2>1. num_entries(c) \in 0..MaxWrites
      BY EntrySizes, SizesByAge DEF Memory
    <2> QED
      BY <2>1, MaxWritesAssumption DEF Slots
  <1> DEFINE q == SizeOfFirst(c, i)
             o == s.offset
             l == s.len
             b == W[i + 1]
  <1>7. Len(F[i]) = q /\ q \in Nat
    <2>1. Len(F[i]) = q
      BY <1>4, <1>5, <1>6
    <2>2. c.out_offs \in Slots /\ (\A j \in Slots : c.entry[j].size \in Nat)
      BY EntrySizes, SizesByAge DEF Memory
    <2>3. q \in Nat
      BY <1>6, <2>2, SizeOfFirstAdds
    <2> QED
      BY <2>1, <2>3
  <1>8. s.slot = SlotAt(c, i) /\ o = p - q
    BY <1>5
  <1>9. b = h[c.entry[s.slot].buffptr] /\ Len(b) = c.entry[s.slot].size
    BY <1>5, <1>6, <1>8, EntryAt DEF BlockAt
  <1>10. o \in Nat /\ l \in 1..n /\ o + l <= Len(b)
    <2>1. o \in Nat /\ l \in 1..n /\ o + l <= c.entry[s.slot].size
      BY FoundInBlock
    <2> HIDE DEF o, l, b
    <2> QED
      BY <1>9, <2>1
  <1> HIDE DEF q, o, l, b, W
  <1>11. l \in Nat
    BY <1>10
  <1>12. SubSeq(FlattenSeq(W), Len(F[i]) + o + 1, Len(F[i]) + o + l)
           = SubSeq(b, o + 1, o + l)
    <2>1. i < Len(W) /\ o + l <= Len(W[i + 1])
      BY <1>2, <1>5, <1>10 DEF b
    <2>2. i \in Nat /\ o \in Nat /\ l \in Nat
      BY <1>6, <1>10, <1>11
    <2>3. SamePart(W, F, i, o, l)
      BY <1>3, <2>1, <2>2, FlattenPart
    <2> QED
      BY <2>3 DEF b, SamePart
  <1>13. Len(F[i]) + o + 1 = p + 1 /\ Len(F[i]) + o + l = p + l
    BY <1>7, <1>8, <1>10, <1>11
  <1>14. SubSeq(FlattenSeq(W), p + 1, p + l) = SubSeq(b, o + 1, o + l)
    BY <1>12, <1>13
  <1> QED
    BY <1>9, <1>14 DEF W, o, l, InStream

\* The stream is as long as the sizes of the entries say.
LEMMA StreamLength ==
  ASSUME NEW c, NEW k, NEW e, NEW h, Memory(c, k, e, h)
  PROVE  Len(FlattenSeq(WindowOf(c, h))) = SizeOfFirst(c, num_entries(c))
  <1> DEFINE W == WindowOf(c, h)
  <1>1. \A j \in Nat : j < num_entries(c) => BlockAt(c, h, j) \in Seq(KernelBytes)
    BY EntryAt
  <1>2. W \in Seq(Seq(KernelBytes)) /\ Len(W) = num_entries(c)
    BY <1>1, WindowType
  <1>3. PICK F : Concats(KernelBytes, W, F)
    <2> HIDE DEF W
    <2> QED
      BY <1>2, FlattensExists DEF Concats
  <1>4. \A j \in Nat : j <= num_entries(c) => Len(F[j]) = SizeOfFirst(c, j)
    BY <1>2, <1>3, WindowSizes
  <1>5. num_entries(c) \in Nat
    <2>1. num_entries(c) \in 0..MaxWrites
      BY EntrySizes, SizesByAge DEF Memory
    <2> QED
      BY <2>1, MaxWritesAssumption
  <1>6. FlattenSeq(W) = F[Len(W)]
    <2> HIDE DEF W
    <2> QED
      BY <1>3, <1>5, ConcatsStep
  <1> QED
    BY <1>2, <1>4, <1>5, <1>6

\* The definitions of the model for the present ring and heap.
LEMMA StreamIs ==
  /\ Window = WindowOf(c_buffer, heap)
  /\ Stream = FlattenSeq(WindowOf(c_buffer, heap))
  <1>1. Window = WindowOf(c_buffer, heap)
    BY DEF Window, WindowOf, Text, TextIn
  <1> QED
    BY <1>1 DEF Stream

\* A read returns the bytes of the concatenated commands from its position on, at
\* least one and at most as many as asked for, and 0 only past the last of them,
\* whatever happened between its lock and its unlock.
THEOREM ReadsAreTheStream == Spec => ReadsDeliverTheStream
  <1> DEFINE Copies(t) ==
        pc[t] = "read_copy" /\ pc'[t] = "read_return" /\ ret'[t] # EFAULT =>
          /\ ubuf'[t] = SubSeq(Stream, pos[t] + 1, pos'[t])
          /\ Len(ubuf'[t]) = ret'[t]
          /\ ret'[t] \in 1..call[t].count
             Ends(t) ==
        pc[t] = "read_lock" /\ pc'[t] = "read_return" /\ ret'[t] = 0 =>
          pos[t] >= Len(Stream)
  <1>1. ASSUME DriverInv, Next, NEW t \in Tasks PROVE Copies(t)
    <2> SUFFICES ASSUME pc[t] = "read_copy", pc'[t] = "read_return", ret'[t] # EFAULT
                 PROVE  /\ ubuf'[t] = SubSeq(Stream, pos[t] + 1, pos'[t])
                        /\ Len(ubuf'[t]) = ret'[t]
                        /\ ret'[t] \in 1..call[t].count
      OBVIOUS
    <2>1. ReadCopy(t)
      <3>1. Call(t) \/ Lock(t) \/ Proceed(t) \/ Interrupted(t)
        BY <1>1, OwnStep
      <3>2. ~Call(t) /\ ~Lock(t) /\ ~Interrupted(t)
        BY DEF Call, CallRead, CallWrite, CallLlseek, CallIoctl, Enter, Interrupted,
               Lock, ReadFind, WriteLock, aesd_llseek, aesd_ioctl
      <3>3. ~ReadReturn(t) /\ ~WriteCopy(t) /\ ~WriteAppend(t) /\ ~WriteReturn(t)
        BY DEF ReadReturn, WriteCopy, WriteAppend, WriteReturn
      <3> QED
        BY <3>1, <3>2, <3>3 DEF Proceed
    <2> DEFINE s == src[t]
               b == heap[c_buffer.entry[s.slot].buffptr]
               out == SubSeq(b, s.offset + 1, s.offset + s.len)
    <2>2. /\ Memory(c_buffer, kbuf, current_entry, heap)
          /\ pos \in [Tasks -> Nat] /\ ubuf \in [Tasks -> Seq(KernelBytes)]
          /\ ret \in [Tasks -> Int]
          /\ call[t].count \in Nat \ {0}
          /\ Found(c_buffer, pos[t], call[t].count, s)
      BY <1>1 DEF DriverInv, LocalTypes, TaskInv
    <2>3. /\ ubuf' = [ubuf EXCEPT ![t] = out]
          /\ pos' = [pos EXCEPT ![t] = pos[t] + s.len]
          /\ ret' = [ret EXCEPT ![t] = s.len]
      BY <2>1, <2>2 DEF ReadCopy
    <2>4. ubuf'[t] = out /\ pos'[t] = pos[t] + s.len /\ ret'[t] = s.len
      BY <2>2, <2>3
    <2>5. out = SubSeq(FlattenSeq(WindowOf(c_buffer, heap)), pos[t] + 1, pos[t] + s.len)
      <3> DEFINE p == pos[t]
                 n == call[t].count
      <3>1. p \in Nat /\ n \in Nat \ {0} /\ Found(c_buffer, p, n, s)
        BY <2>2
      <3> HIDE DEF s, p, n
      <3>2. InStream(c_buffer, heap, p, s)
        BY <2>2, <3>1, FoundInStream
      <3> QED
        BY <3>2 DEF p, s, InStream
    <2>6. /\ b \in Seq(KernelBytes) /\ s.offset \in Nat /\ s.len \in 1..call[t].count
          /\ s.offset + s.len <= Len(b)
      <3> DEFINE p == pos[t]
                 n == call[t].count
      <3>1. p \in Nat /\ n \in Nat \ {0} /\ Found(c_buffer, p, n, s)
        BY <2>2
      <3> HIDE DEF s, p, n
      <3>2. /\ heap[c_buffer.entry[s.slot].buffptr] \in Seq(KernelBytes)
            /\ Len(heap[c_buffer.entry[s.slot].buffptr]) = c_buffer.entry[s.slot].size
            /\ s.offset \in Nat /\ s.len \in 1..n
            /\ s.offset + s.len <= c_buffer.entry[s.slot].size
        BY <2>2, <3>1, FoundInBlock
      <3> QED
        BY <3>2 DEF n
    <2>7. Len(out) = s.len
      <3>1. s.len \in Nat
        BY <2>2, <2>6
      <3> HIDE DEF s, b
      <3> QED
        BY <2>6, <3>1, PartFacts
    <2> HIDE DEF out, s
    <2> QED
      BY <2>4, <2>5, <2>6, <2>7, StreamIs
  <1>2. ASSUME DriverInv, Next, NEW t \in Tasks PROVE Ends(t)
    <2> SUFFICES ASSUME pc[t] = "read_lock", pc'[t] = "read_return", ret'[t] = 0
                 PROVE  pos[t] >= Len(Stream)
      OBVIOUS
    <2>1. ReadFind(t)
      <3>1. Call(t) \/ Lock(t) \/ Proceed(t) \/ Interrupted(t)
        BY <1>2, OwnStep
      <3>2. ~Call(t) /\ ~Proceed(t)
        BY DEF Call, CallRead, CallWrite, CallLlseek, CallIoctl, Enter,
               Proceed, ReadCopy, ReadReturn, WriteCopy, WriteAppend, WriteReturn
      <3>3. ~WriteLock(t) /\ ~aesd_llseek(t) /\ ~aesd_ioctl(t)
        BY DEF WriteLock, aesd_llseek, aesd_ioctl
      <3>4. ~Interrupted(t)
        BY <1>2 DEF Interrupted, ERESTARTSYS, DriverInv, LocalTypes
      <3> QED
        BY <3>1, <3>2, <3>3, <3>4 DEF Lock
    <2>2. /\ Memory(c_buffer, kbuf, current_entry, heap) /\ pos[t] \in Nat
          /\ pc \in [Tasks -> PCs]
      BY <1>2 DEF DriverInv, LocalTypes, LockInv
    <2>3. aesd_circular_buffer_find_entry_offset_for_fpos(c_buffer, pos[t]) = NotFound
      BY <2>1, <2>2 DEF ReadFind, goto
    <2>4. SizeOfFirst(c_buffer, num_entries(c_buffer)) <= pos[t]
      BY <2>2, <2>3, EntrySizes, LookupIsSound DEF Memory
    <2>5. Len(Stream) = SizeOfFirst(c_buffer, num_entries(c_buffer))
      BY <2>2, StreamLength, StreamIs
    <2>6. Len(Stream) \in Nat
      <3>1. num_entries(c_buffer) \in 0..MaxWrites /\ c_buffer.out_offs \in Slots
            /\ \A i \in Slots : c_buffer.entry[i].size \in Nat
        BY <2>2, EntrySizes, SizesByAge DEF Memory
      <3>2. num_entries(c_buffer) \in Nat
        BY <3>1, MaxWritesAssumption
      <3> QED
        BY <2>5, <3>1, <3>2, SizeOfFirstAdds
    <2> QED
      BY <2>2, <2>4, <2>5, <2>6
  <1> HIDE DEF Copies, Ends
  <1>3. DriverInv /\ [Next]_vars => [\A t \in Tasks : /\ Copies(t)
                                                      /\ Ends(t)]_vars
    BY <1>1, <1>2
  <1>4. Spec => [][\A t \in Tasks : /\ Copies(t)
                                    /\ Ends(t)]_vars
    BY <1>3, InitDriverInv, NextKeepsDriverInv, PTL DEF Spec
  <1> QED
    BY <1>4 DEF ReadsDeliverTheStream, Copies, Ends

-----------------------------------------------------------------------------
(* What the operations of the driver do to the texts of the entries.       *)

\* The texts of a sequence of entries.
TextsOf(h, s) == [k \in 1..Len(s) |-> TextIn(h, s[k])]

\* The texts of the entries of a ring, in age order, are its window.
LEMMA WindowIsTexts ==
  ASSUME NEW c, NEW k, NEW e, NEW h, Memory(c, k, e, h)
  PROVE  /\ WindowOf(c, h) = TextsOf(h, Contents(c))
         /\ Contents(c) \in Seq(Entry) /\ Len(Contents(c)) = num_entries(c)
         /\ num_entries(c) \in 0..MaxWrites /\ (num_entries(c) < MaxWrites <=> ~c.full)
  <1>1. /\ Len(Contents(c)) = num_entries(c) /\ Contents(c) \in Seq(Entry)
        /\ num_entries(c) \in 0..MaxWrites /\ (num_entries(c) < MaxWrites <=> ~c.full)
    BY ContentsType DEF Memory
  <1> QED
    BY <1>1 DEF WindowOf, TextsOf

\* One more entry, one more text.
LEMMA TextsAppend ==
  ASSUME NEW E, NEW s \in Seq(E), NEW x \in E, NEW h
  PROVE  TextsOf(h, Append(s, x)) = Append(TextsOf(h, s), TextIn(h, x))
  <1> DEFINE n == Len(s)
             a == Append(s, x)
             T == {TextIn(h, a[i]) : i \in 1..(n + 1)}
             f == TextsOf(h, a)
             g == TextsOf(h, s)
             y == TextIn(h, x)
  <1>1. n \in Nat /\ Len(a) = n + 1 /\ a[n + 1] = x /\ \A i \in 1..n : a[i] = s[i]
    OBVIOUS
  <1> HIDE DEF n, a
  <1>2. f \in [1..(n + 1) -> T]
    BY <1>1 DEF TextsOf
  <1>3. g \in [1..n -> T] /\ y \in T /\ n + 1 \in Nat
    <2>1. \A i \in 1..n : i \in 1..(n + 1) /\ TextIn(h, s[i]) = TextIn(h, a[i])
      BY <1>1
    <2>2. g = [i \in 1..n |-> TextIn(h, s[i])]
      BY DEF TextsOf, n
    <2>3. n + 1 \in 1..(n + 1) /\ n + 1 \in Nat
      BY <1>1
    <2> QED
      BY <1>1, <2>1, <2>2, <2>3
  <1>4. \A i \in 1..n : f[i] = g[i]
    BY <1>1 DEF TextsOf, n
  <1>5. f[n + 1] = y
    BY <1>1 DEF TextsOf
  <1> HIDE DEF T, f, g, y
  <1>6. f \in Seq(T) /\ Len(f) = n + 1 /\ g \in Seq(T) /\ Len(g) = n
    BY <1>1, <1>2, <1>3, BytesType
  <1>7. Append(g, y) \in Seq(T) /\ Len(Append(g, y)) = n + 1
    BY <1>3, <1>6
  <1>8. \A i \in 1..(n + 1) : f[i] = Append(g, y)[i]
    BY <1>1, <1>3, <1>4, <1>5, <1>6
  <1>9. f = Append(g, y)
    BY <1>6, <1>7, <1>8, SeqEqual
  <1> QED
    BY <1>9 DEF f, g, y, a

\* One entry less, one text less.
LEMMA TextsTail ==
  ASSUME NEW E, NEW s \in Seq(E), s # <<>>, NEW h
  PROVE  TextsOf(h, Tail(s)) = Tail(TextsOf(h, s))
  <1> DEFINE n == Len(s)
             a == Tail(s)
             T == {TextIn(h, s[i]) : i \in 1..n}
             f == TextsOf(h, a)
             g == TextsOf(h, s)
  <1>1. n \in Nat /\ n >= 1 /\ Len(a) = n - 1 /\ \A i \in 1..(n - 1) : a[i] = s[i + 1]
    OBVIOUS
  <1> HIDE DEF n, a
  <1>2. g \in [1..n -> T]
    BY DEF TextsOf, n
  <1>3. f \in [1..(n - 1) -> T] /\ n - 1 \in Nat
    <2>1. \A i \in 1..(n - 1) : i + 1 \in 1..n /\ TextIn(h, a[i]) = TextIn(h, s[i + 1])
      BY <1>1
    <2>2. f = [i \in 1..(n - 1) |-> TextIn(h, a[i])]
      BY <1>1 DEF TextsOf
    <2> QED
      BY <1>1, <2>1, <2>2
  <1>4. \A i \in 1..(n - 1) : f[i] = g[i + 1]
    <2>1. f = [i \in 1..(n - 1) |-> TextIn(h, a[i])]
      BY <1>1 DEF TextsOf
    <2>2. g = [i \in 1..n |-> TextIn(h, s[i])]
      BY DEF TextsOf, n
    <2>3. \A i \in 1..(n - 1) : i + 1 \in 1..n
      BY <1>1
    <2> QED
      BY <1>1, <2>1, <2>2, <2>3
  <1> HIDE DEF T, f, g
  <1>5. f \in Seq(T) /\ Len(f) = n - 1 /\ g \in Seq(T) /\ Len(g) = n
    BY <1>1, <1>2, <1>3, BytesType
  <1>6. g # <<>> /\ Tail(g) \in Seq(T) /\ Len(Tail(g)) = n - 1
    BY <1>1, <1>5
  <1>7. \A i \in 1..(n - 1) : f[i] = Tail(g)[i]
    BY <1>1, <1>4, <1>5, <1>6
  <1>8. f = Tail(g)
    BY <1>5, <1>6, <1>7, SeqEqual
  <1> QED
    BY <1>8 DEF f, g, a

\* The window only depends on the blocks of the ring.
LEMMA WindowSame ==
  ASSUME NEW c, NEW k, NEW e, NEW h, Memory(c, k, e, h), NEW g,
         \A i \in Slots : c.entry[i].buffptr # Null => g[c.entry[i].buffptr] = h[c.entry[i].buffptr]
  PROVE  WindowOf(c, g) = WindowOf(c, h)
  <1>1. num_entries(c) \in Nat
    <2>1. num_entries(c) \in 0..MaxWrites
      BY EntrySizes, SizesByAge DEF Memory
    <2> QED
      BY <2>1, MaxWritesAssumption
  <1>2. ASSUME NEW i \in 1..num_entries(c)
        PROVE  TextIn(g, Contents(c)[i]) = TextIn(h, Contents(c)[i])
    <2>1. i - 1 \in Nat /\ i - 1 < num_entries(c) /\ (i - 1) + 1 = i
      BY <1>1
    <2> DEFINE j == i - 1
               x == c.entry[SlotAt(c, j)]
    <2>2. SlotAt(c, j) \in Slots /\ x \in Entry /\ Contents(c)[j + 1] = x
      BY <2>1, EntryAt
    <2>3. x.buffptr \in Addrs /\ x.buffptr # Null
      BY <2>2, AesdCharAssumption DEF Entry
    <2>4. g[x.buffptr] = h[x.buffptr]
      BY <2>2, <2>3
    <2>5. Contents(c)[i] = x
      BY <2>1, <2>2
    <2> HIDE DEF x
    <2> QED
      BY <2>3, <2>4, <2>5 DEF TextIn, Bytes
  <1> QED
    BY <1>2 DEF WindowOf

\* The text of an entry with a block is the block, that of one without is empty.
LEMMA TextIsBlock ==
  ASSUME NEW c, NEW k, NEW e, NEW h, Memory(c, k, e, h)
  PROVE  /\ e.buffptr # Null => TextIn(h, e) = h[e.buffptr] /\ e.buffptr \in Addrs
         /\ e.buffptr = Null /\ e.size = 0 => TextIn(h, e) = <<>>
         /\ Len(h[e.buffptr]) = e.size \/ e.buffptr = Null
  <1>1. ASSUME e.buffptr # Null PROVE TextIn(h, e) = h[e.buffptr] /\ e.buffptr \in Addrs
    <2> DEFINE b == h[e.buffptr]
    <2>1. e.buffptr \in Addrs /\ b \in Seq(KernelBytes) /\ Len(b) = e.size
      BY <1>1 DEF Memory, Heaps
    <2>2. TextIn(h, e) = SubSeq(b, 1, Len(b))
      BY <1>1, <2>1 DEF TextIn, Bytes
    <2> HIDE DEF b
    <2>3. SubSeq(b, 1, Len(b)) = b
      BY <2>1, WholePart
    <2> QED
      BY <2>1, <2>2, <2>3 DEF b
  <1>2. e.buffptr = Null /\ e.size = 0 => TextIn(h, e) = SubSeq(<<>>, 1, 0)
    BY DEF TextIn, Bytes
  <1>3. SubSeq(<<>>, 1, 0) = <<>>
    OBVIOUS
  <1> QED
    BY <1>1, <1>2, <1>3 DEF Memory

\* Without its pointer an entry has no bytes: only a failed krealloc takes the one
\* and leaves the other.
Whole(e) == e.buffptr = Null => e.size = 0

\* The block that current_entry grows into has its text and then the new bytes.
LEMMA GrowText ==
  ASSUME NEW c, NEW k, NEW e, NEW h, Memory(c, k, e, h), Whole(e), NEW a,
         NEW bytes \in Seq(KernelBytes), NEW g, Growth(c, k, e, h, a, bytes, g)
  PROVE  /\ g[a] = TextIn(h, e) \o bytes
         /\ TextIn(h, e) \in Seq(KernelBytes)
         /\ a \in Addrs
         /\ TextIn(g, Grown(e, a, bytes)) = TextIn(h, e) \o bytes
         /\ WindowOf(c, g) = WindowOf(c, h)
  <1> DEFINE x == TextIn(h, e)
             y == g[a]
             n == e.size
  <1>1. x \in Seq(KernelBytes) /\ Len(x) = n /\ n \in Nat
    <2>1. CASE e.buffptr # Null
      <3>1. h[e.buffptr] \in Seq(KernelBytes) /\ Len(h[e.buffptr]) = e.size /\ e.size \in Nat
        BY <2>1 DEF Memory, Heaps
      <3> QED
        BY <2>1, <3>1, TextIsBlock
    <2>2. CASE e.buffptr = Null
      <3>1. x = <<>> /\ e.size = 0
        BY <2>2, TextIsBlock DEF Whole
      <3> QED
        BY <3>1
    <2> QED
      BY <2>1, <2>2
  <1>2. /\ Memory(c, k, Grown(e, a, bytes), g) /\ a \in Addrs /\ Len(y) = n + Len(bytes)
        /\ \A i \in 1..(n + Len(bytes)) :
             y[i] = IF i > n THEN bytes[i - n]
                    ELSE IF e.buffptr = Null THEN Junk ELSE h[e.buffptr][i]
        /\ \A i \in Slots : c.entry[i].buffptr # Null =>
             g[c.entry[i].buffptr] = h[c.entry[i].buffptr]
    BY DEF Growth
  <1>3. y \in Seq(KernelBytes)
    BY <1>2 DEF Memory, Heaps
  <1>4. \A i \in 1..n : y[i] = x[i]
    <2>1. CASE e.buffptr # Null
      <3>1. x = h[e.buffptr]
        BY <2>1, TextIsBlock
      <3>2. \A i \in 1..n : i \in 1..(n + Len(bytes)) /\ ~(i > n)
        BY <1>1
      <3> HIDE DEF x, y, n
      <3> QED
        BY <1>2, <2>1, <3>1, <3>2
    <2>2. CASE e.buffptr = Null
      BY <1>1, <2>2 DEF Whole
    <2> QED
      BY <2>1, <2>2
  <1>5. \A i \in 1..Len(bytes) : y[n + i] = bytes[i]
    <2>1. Len(bytes) \in Nat
      OBVIOUS
    <2>2. \A i \in 1..Len(bytes) : n + i \in 1..(n + Len(bytes)) /\ n + i > n /\ (n + i) - n = i
      BY <1>1, <2>1
    <2> HIDE DEF x, y, n
    <2> QED
      BY <1>2, <2>2
  <1> HIDE DEF x, y, n
  <1>6. y = x \o bytes
    <2>1. /\ x \o bytes \in Seq(KernelBytes) /\ Len(x \o bytes) = n + Len(bytes)
          /\ \A i \in 1..n : (x \o bytes)[i] = x[i]
          /\ \A i \in 1..Len(bytes) : (x \o bytes)[n + i] = bytes[i]
      <3>1. /\ x \o bytes \in Seq(KernelBytes) /\ Len(x \o bytes) = Len(x) + Len(bytes)
            /\ \A i \in 1..Len(x) : (x \o bytes)[i] = x[i]
            /\ \A i \in 1..Len(bytes) : (x \o bytes)[Len(x) + i] = bytes[i]
        <4>1. x \in Seq(KernelBytes)
          BY <1>1
        <4> QED
          BY <4>1, ConcatFacts
      <3> QED
        BY <1>1, <3>1
    <2>2. Len(bytes) \in Nat
      OBVIOUS
    <2> DEFINE z == x \o bytes
               m == Len(bytes)
    <2> HIDE DEF z, m
    <2>3. ASSUME NEW i \in 1..(n + m) PROVE y[i] = z[i]
      <3>1. i \in 1..n \/ (i - n \in 1..m /\ n + (i - n) = i)
        BY <1>1, <2>2 DEF m
      <3> QED
        BY <1>4, <1>5, <2>1, <3>1 DEF z, m
    <2>4. y = z
      BY <1>2, <1>3, <2>1, <2>3, SeqEqual DEF z, m
    <2> QED
      BY <2>4 DEF z
  <1>7. TextIn(g, Grown(e, a, bytes)) = y
    <2>1. Grown(e, a, bytes).buffptr = a /\ a # Null
      BY <1>2, AesdCharAssumption DEF Grown
    <2> QED
      BY <1>2, <2>1, TextIsBlock DEF y
  <1>8. WindowOf(c, g) = WindowOf(c, h)
    BY <1>2, WindowSame
  <1> QED
    BY <1>1, <1>2, <1>6, <1>7, <1>8 DEF x, y

\* The window without the command that the next one replaces.
KeptWindow(c, w) == IF c.full THEN Tail(w) ELSE w

\* The window once the entry is in the ring ends with the text of the entry.
LEMMA CommitText ==
  ASSUME NEW c, NEW k, NEW e, NEW h, Memory(c, k, e, h), NEW g,
         Committed(c, k, e, h, aesd_circular_buffer_add_entry(c, e), g)
  PROVE  WindowOf(aesd_circular_buffer_add_entry(c, e), g)
           = Append(KeptWindow(c, WindowOf(c, h)), TextIn(h, e))
  <1> DEFINE d == aesd_circular_buffer_add_entry(c, e)
             s == Contents(c)
             r == IF c.full THEN Tail(s) ELSE s
  <1>1. /\ Memory(d, k, NoEntry, g) /\ e \in Entry
        /\ \A i \in Slots : d.entry[i].buffptr # Null => g[d.entry[i].buffptr] = h[d.entry[i].buffptr]
    BY DEF Committed
  <1>2. c \in BufferOf(Entry) /\ IsRing(c, Entry) /\ c.full \in BOOLEAN
    BY DEF Memory, BufferOf
  <1>3. Contents(d) = Append(r, e)
    BY <1>1, <1>2, EntrySizes, AddAppends, AddReplacesOldest
  <1>4. WindowOf(d, h) = WindowOf(d, g)
    <2> HIDE DEF d
    <2> QED
      BY <1>1, WindowSame
  <1>5. /\ WindowOf(d, g) = TextsOf(g, Contents(d))
        /\ Len(Contents(d)) = num_entries(d)
    <2> HIDE DEF d
    <2> QED
      BY <1>1, WindowIsTexts
  <1>6. WindowOf(d, h) = TextsOf(h, Contents(d))
    BY <1>5 DEF WindowOf, TextsOf
  <1>7. /\ WindowOf(c, h) = TextsOf(h, s) /\ s \in Seq(Entry) /\ Len(s) = num_entries(c)
        /\ num_entries(c) \in 0..MaxWrites /\ (num_entries(c) < MaxWrites <=> ~c.full)
    BY WindowIsTexts
  <1>8. c.full => s # <<>>
    BY <1>7, MaxWritesAssumption
  <1> HIDE DEF d, s
  <1>9. r \in Seq(Entry)
    BY <1>7, <1>8
  <1>10. TextsOf(h, Append(r, e)) = Append(TextsOf(h, r), TextIn(h, e))
    <2> HIDE DEF r
    <2> QED
      BY <1>1, <1>9, TextsAppend
  <1>11. TextsOf(h, r) = KeptWindow(c, TextsOf(h, s))
    BY <1>7, <1>8, TextsTail DEF KeptWindow
  <1> QED
    BY <1>3, <1>4, <1>6, <1>7, <1>10, <1>11 DEF d

\* The failure after which a command has bytes that nobody wrote: krealloc fails,
\* and the size of the command that is lost stays.
GrowSucceeds == "nomem_grow" \notin Faults

\* The critical section of aesd_write as it shows in the texts: the chunk becomes
\* part of the command being assembled, or completes a command, which goes into
\* the ring, and what follows starts the next one or is left to the caller.
Extended(t) ==
  /\ NewLines(call[t].chunk) = {}
  /\ c_buffer' = c_buffer
  /\ WindowOf(c_buffer', heap') = WindowOf(c_buffer, heap)
  /\ TextIn(heap', current_entry') = TextIn(heap, current_entry) \o Command(call[t].chunk)
  /\ ret'[t] = CommandBytes(call[t].chunk)

Completed(t) ==
  /\ NewLines(call[t].chunk) # {}
  /\ c_buffer' # c_buffer
  /\ WindowOf(c_buffer', heap')
       = Append(KeptWindow(c_buffer, WindowOf(c_buffer, heap)),
                TextIn(heap, current_entry) \o Command(call[t].chunk))
  /\ \/ /\ TextIn(heap', current_entry') = <<>>
        /\ ret'[t] = CommandBytes(call[t].chunk)
     \/ /\ TextIn(heap', current_entry') = Remainder(call[t].chunk)
        /\ ret'[t] = Len(call[t].chunk)

\* A step of the critical section of aesd_write is one or the other.
LEMMA AppendText ==
  ASSUME GrowSucceeds, DriverInv, Whole(current_entry), NEW t \in Tasks, WriteAppend(t)
  PROVE  (Extended(t) \/ Completed(t)) /\ Whole(current_entry')
  <1> DEFINE chunk == call[t].chunk
             cmd   == Command(chunk)
             rest  == Remainder(chunk)
             c     == c_buffer
             x     == TextIn(heap, current_entry)
  <1>1. pc[t] = "write_append" /\ Memory(c, kbuf, current_entry, heap) /\ ret \in [Tasks -> Int]
    BY DEF WriteAppend, DriverInv, LocalTypes
  <1>2. /\ cmd \in Seq(KernelBytes) /\ rest \in Seq(KernelBytes)
        /\ CommandBytes(chunk) \in Int /\ Len(chunk) \in Int
    <2>1. cmd \in Seq(UserBytes) /\ rest \in Seq(UserBytes) /\ chunk \in Seq(UserBytes)
          /\ CommandBytes(chunk) \in 1..Len(chunk)
      BY <1>1, WriteBytes
    <2>2. \A s \in Seq(UserBytes) : s \in Seq(KernelBytes) /\ Len(s) \in Int
      BY DEF KernelBytes
    <2> QED
      BY <2>1, <2>2
  <1>3. ASSUME NEW a \in GrowBlocks, NEW g, NEW e, g = GrownHeap(heap, current_entry, a, cmd),
               e = Grown(current_entry, a, cmd)
        PROVE  /\ Growth(c, kbuf, current_entry, heap, a, cmd, g)
               /\ g[a] = x \o cmd /\ a \in Addrs /\ a # Null
               /\ TextIn(g, e) = x \o cmd /\ WindowOf(c, g) = WindowOf(c, heap)
               /\ Memory(c, kbuf, e, g) /\ e.buffptr = a
               /\ \A i \in Slots : c.entry[i].buffptr # a
    <2>1. Growth(c, kbuf, current_entry, heap, a, cmd, g)
      BY <1>1, <1>3, AppendGrows
    <2>2. /\ g[a] = x \o cmd /\ a \in Addrs
          /\ TextIn(g, Grown(current_entry, a, cmd)) = x \o cmd
          /\ WindowOf(c, g) = WindowOf(c, heap)
      <3> HIDE DEF chunk, cmd
      <3> QED
        BY <1>1, <1>2, <2>1, GrowText
    <2>3. /\ Memory(c, kbuf, Grown(current_entry, a, cmd), g)
          /\ \A i \in Slots : c.entry[i].buffptr # a
      BY <2>1 DEF Growth
    <2>4. a # Null /\ e.buffptr = a
      BY <1>3, <2>2, AesdCharAssumption DEF Grown
    <2> QED
      BY <1>3, <2>1, <2>2, <2>3, <2>4
  <1>4. ASSUME NEW a \in GrowBlocks, AppendKeeps(t, a)
        PROVE  Extended(t) /\ Whole(current_entry')
    <2> DEFINE g == GrownHeap(heap, current_entry, a, cmd)
               e == Grown(current_entry, a, cmd)
    <2>1. /\ NewLines(chunk) = {} /\ heap' = g /\ current_entry' = e /\ c_buffer' = c
          /\ ret' = [ret EXCEPT ![t] = CommandBytes(chunk)]
      BY <1>4 DEF AppendKeeps
    <2>2. /\ TextIn(g, e) = x \o cmd /\ WindowOf(c, g) = WindowOf(c, heap)
          /\ e.buffptr = a /\ a # Null
      <3> HIDE DEF g, e, cmd, x
      <3> QED
        BY <1>3 DEF g, e
    <2>3. ret'[t] = CommandBytes(chunk)
      BY <1>1, <2>1
    <2> HIDE DEF g, e
    <2> QED
      BY <2>1, <2>2, <2>3 DEF Extended, Whole
  <1>5. ASSUME NEW a \in GrowBlocks, AppendCommits(t, a)
        PROVE  Completed(t) /\ Whole(current_entry')
    <2> DEFINE g == GrownHeap(heap, current_entry, a, cmd)
               e == Grown(current_entry, a, cmd)
               d == aesd_circular_buffer_add_entry(c, e)
               f == kfree(g, Overwritten(c))
    <2>1. NewLines(chunk) # {} /\ c_buffer' = d
      BY <1>5 DEF AppendCommits
    <2>2. \/ /\ heap' = f /\ current_entry' = NoEntry
             /\ ret' = [ret EXCEPT ![t] = CommandBytes(chunk)]
          \/ /\ rest # <<>>
             /\ \E b \in FreeBlocks(f) :
                  /\ heap' = memcpy(kmalloc(f, b, Len(rest)), b, 0, rest)
                  /\ current_entry' = [buffptr |-> b, size |-> Len(rest)]
                  /\ ret' = [ret EXCEPT ![t] = Len(chunk)]
      BY <1>5 DEF AppendCommits
    <2>3. Committed(c, kbuf, e, g, d, f)
      BY <1>1, AppendCommitted
    <2>4. /\ TextIn(g, e) = x \o cmd /\ WindowOf(c, g) = WindowOf(c, heap)
          /\ Memory(c, kbuf, e, g) /\ e.buffptr = a /\ \A i \in Slots : c.entry[i].buffptr # a
      <3> HIDE DEF g, e, cmd, x
      <3> QED
        BY <1>3 DEF g, e
    <2>5. WindowOf(d, f) = Append(KeptWindow(c, WindowOf(c, heap)), x \o cmd)
      <3> HIDE DEF g, e, f, x, cmd
      <3>1. WindowOf(d, f) = Append(KeptWindow(c, WindowOf(c, g)), TextIn(g, e))
        BY <2>3, <2>4, CommitText
      <3> QED
        BY <2>4, <3>1
    <2>6. Memory(d, kbuf, NoEntry, f)
      BY <2>3 DEF Committed
    <2>7. d # c
      <3>1. c.in_offs \in Slots /\ d.entry[c.in_offs] = e
        BY <1>1, <2>3 DEF Committed, Memory, BufferOf
      <3>2. c.entry[c.in_offs].buffptr # e.buffptr
        BY <2>4, <3>1
      <3> QED
        BY <3>1, <3>2
    <2> HIDE DEF g, e, d, f
    <2>8. CASE /\ heap' = f /\ current_entry' = NoEntry
               /\ ret' = [ret EXCEPT ![t] = CommandBytes(chunk)]
      <3>1. TextIn(f, NoEntry) = <<>> /\ Whole(NoEntry)
        BY <2>6, TextIsBlock DEF NoEntry, Whole
      <3>2. ret'[t] = CommandBytes(chunk)
        BY <1>1, <2>8
      <3> QED
        BY <2>1, <2>5, <2>7, <2>8, <3>1, <3>2 DEF Completed
    <2>9. ASSUME rest # <<>>, NEW b \in FreeBlocks(f),
                 heap' = memcpy(kmalloc(f, b, Len(rest)), b, 0, rest),
                 current_entry' = [buffptr |-> b, size |-> Len(rest)],
                 ret' = [ret EXCEPT ![t] = Len(chunk)]
          PROVE  Completed(t) /\ Whole(current_entry')
      <3> DEFINE m == memcpy(kmalloc(f, b, Len(rest)), b, 0, rest)
                 q == [buffptr |-> b, size |-> Len(rest)]
      <3>1. Stored(d, kbuf, f, b, rest, m)
        <4> HIDE DEF rest
        <4> QED
          BY <1>2, <2>6, <2>9, StoreRest
      <3> HIDE DEF m
      <3>2. /\ Memory(d, kbuf, q, m) /\ b \in Addrs /\ m[b] = rest
            /\ \A i \in Slots : d.entry[i].buffptr # Null => m[d.entry[i].buffptr] = f[d.entry[i].buffptr]
        BY <3>1 DEF Stored
      <3>3. WindowOf(d, m) = WindowOf(d, f)
        BY <2>6, <3>2, WindowSame
      <3>4. q.buffptr = b /\ b # Null
        BY <3>2, AesdCharAssumption
      <3>5. TextIn(m, q) = rest
        <4> HIDE DEF q, rest
        <4> QED
          BY <3>2, <3>4, TextIsBlock
      <3>6. ret'[t] = Len(chunk)
        BY <1>1, <2>9
      <3> HIDE DEF q
      <3>7. heap' = m /\ current_entry' = q
        BY <2>9 DEF m, q
      <3> QED
        BY <2>1, <2>5, <2>7, <3>3, <3>4, <3>5, <3>6, <3>7 DEF Completed, Whole
    <2> QED
      BY <2>2, <2>8, <2>9
  <1>6. ~AppendFails(t)
    BY DEF AppendFails, GrowSucceeds
  <1> QED
    BY <1>4, <1>5, <1>6, AppendCases

\* The device before and after a step that does not touch the texts, and one that
\* empties them.
SameTexts ==
  /\ c_buffer' = c_buffer /\ current_entry' = current_entry
  /\ WindowOf(c_buffer', heap') = WindowOf(c_buffer, heap)
  /\ TextIn(heap', current_entry') = TextIn(heap, current_entry)

NoTexts ==
  /\ c_buffer' = aesd_circular_buffer_init /\ current_entry' = NoEntry
  /\ WindowOf(c_buffer', heap') = <<>>
  /\ TextIn(heap', current_entry') = <<>>

\* A step that only changes blocks the device has no pointer to.
LEMMA OtherBlocksKeepTexts ==
  ASSUME DriverInv, c_buffer' = c_buffer, current_entry' = current_entry,
         NEW x, heap \in Heaps, \A a \in Addrs \ {x} : heap'[a] = heap[a],
         \A i \in Slots : c_buffer.entry[i].buffptr # Null => c_buffer.entry[i].buffptr # x,
         current_entry.buffptr # Null => current_entry.buffptr # x
  PROVE  SameTexts
  <1>1. Memory(c_buffer, kbuf, current_entry, heap)
    BY DEF DriverInv
  <1>2. \A i \in Slots : c_buffer.entry[i].buffptr # Null =>
          heap'[c_buffer.entry[i].buffptr] = heap[c_buffer.entry[i].buffptr]
    BY <1>1, RingEntries DEF Memory
  <1>3. WindowOf(c_buffer, heap') = WindowOf(c_buffer, heap)
    BY <1>1, <1>2, WindowSame
  <1>4. Bytes(heap', current_entry.buffptr) = Bytes(heap, current_entry.buffptr)
    BY <1>1 DEF Memory, Bytes
  <1> QED
    BY <1>3, <1>4 DEF SameTexts, TextIn

\* Only the critical section of aesd_write and the load and unload of the module
\* change what the device keeps.
LEMMA StepTexts ==
  ASSUME DriverInv, [Next]_vars
  PROVE  SameTexts \/ NoTexts \/ \E t \in Tasks : WriteAppend(t)
  <1>1. /\ Memory(c_buffer, kbuf, current_entry, heap) /\ heap \in Heaps
        /\ kbuf \in [Tasks -> Addrs \cup {Null}]
        /\ Apart(c_buffer, kbuf, current_entry, heap)
    BY DEF DriverInv, Memory
  <1>2. ASSUME UNCHANGED <<c_buffer, current_entry, heap>> PROVE SameTexts
    BY <1>2 DEF SameTexts
  <1>3. CASE aesd_init_module \/ aesd_cleanup_module
    <2>1. c_buffer' = aesd_circular_buffer_init /\ current_entry' = NoEntry
      BY <1>3 DEF aesd_init_module, aesd_cleanup_module
    <2>2. num_entries(aesd_circular_buffer_init) = 0
      BY DEF num_entries, aesd_circular_buffer_init
    <2>3. WindowOf(aesd_circular_buffer_init, heap') = [k \in 1..0 |-> TextIn(heap', Contents(aesd_circular_buffer_init)[k])]
      BY <2>2 DEF WindowOf
    <2>4. WindowOf(aesd_circular_buffer_init, heap') = <<>>
      BY <2>3
    <2>5. TextIn(heap', NoEntry) = SubSeq(<<>>, 1, 0)
      BY DEF TextIn, NoEntry, Bytes
    <2>6. SubSeq(<<>>, 1, 0) = <<>>
      OBVIOUS
    <2> QED
      BY <2>1, <2>4, <2>5, <2>6 DEF NoTexts
  <1>4. ASSUME NEW t \in Tasks, WriteLock(t) PROVE SameTexts
    <2>1. CASE UNCHANGED heap
      BY <1>2, <1>4, <2>1 DEF WriteLock, device
    <2>2. ASSUME NEW a \in FreeBlocks(heap), heap' = kmalloc(heap, a, Len(call[t].chunk))
          PROVE  SameTexts
      <3>1. a \in Addrs /\ heap[a] = <<>>
        BY DEF FreeBlocks
      <3>2. \A b \in Addrs \ {a} : heap'[b] = heap[b]
        BY <1>1, <2>2, <3>1 DEF kmalloc, Heaps
      <3>3. c_buffer' = c_buffer /\ current_entry' = current_entry
        BY <1>4 DEF WriteLock, device
      <3> QED
        BY <1>1, <3>1, <3>2, <3>3, OtherBlocksKeepTexts DEF Apart
    <2> QED
      BY <1>4, <2>1, <2>2 DEF WriteLock
  <1>5. ASSUME NEW t \in Tasks, WriteCopy(t) PROVE SameTexts
    <2>1. kbuf[t] \in Addrs /\ kbuf[t] # Null
      BY <1>1, <1>5 DEF WriteCopy, DriverInv, TaskInv
    <2>2. \A x \in Addrs \ {kbuf[t]} : heap'[x] = heap[x]
      BY <1>1, <1>5, <2>1 DEF WriteCopy, memcpy, Heaps
    <2>3. c_buffer' = c_buffer /\ current_entry' = current_entry
      BY <1>5 DEF WriteCopy, device
    <2> QED
      BY <1>1, <2>1, <2>2, <2>3, OtherBlocksKeepTexts DEF Apart
  <1>6. ASSUME NEW t \in Tasks, WriteReturn(t) PROVE SameTexts
    <2>1. \A x \in Addrs : heap'[x] = IF x = kbuf[t] THEN <<>> ELSE heap[x]
      BY <1>1, <1>6, KfreeHeap DEF WriteReturn
    <2>2. c_buffer' = c_buffer /\ current_entry' = current_entry
      BY <1>6 DEF WriteReturn, device
    <2>3. \A x \in Addrs \ {kbuf[t]} : heap'[x] = heap[x]
      BY <2>1
    <2>4. /\ \A i \in Slots : c_buffer.entry[i].buffptr # Null => c_buffer.entry[i].buffptr # kbuf[t]
          /\ current_entry.buffptr # Null => current_entry.buffptr # kbuf[t]
      BY <1>1 DEF Apart
    <2> QED
      BY <1>1, <2>2, <2>3, <2>4, OtherBlocksKeepTexts
  <1>7. ASSUME NEW t \in Tasks,
               \/ Call(t) \/ ReadFind(t) \/ aesd_llseek(t) \/ aesd_ioctl(t)
               \/ ReadCopy(t) \/ ReadReturn(t) \/ Interrupted(t)
        PROVE  SameTexts
    BY <1>2, <1>7 DEF Call, CallRead, CallWrite, CallLlseek, CallIoctl, ReadFind,
       aesd_llseek, aesd_ioctl, ReadCopy, ReadReturn, Interrupted, device, locals
  <1>8. ASSUME NEW f \in Files, aesd_open(f) \/ aesd_release(f) PROVE SameTexts
    BY <1>2, <1>8 DEF aesd_open, aesd_release, device, locals
  <1>9. CASE UNCHANGED vars
    BY <1>2, <1>9 DEF vars
  <1> QED
    BY <1>3, <1>4, <1>5, <1>6, <1>7, <1>8, <1>9 DEF Next, Lock, Proceed

\* The window after a step of the critical section has the texts it had and the
\* text of the completed command.
LEMMA WindowStays ==
  ASSUME DriverInv, NEW T, WindowOf(c_buffer, heap) \in Seq(T),
         NEW t \in Tasks, Extended(t) \/ Completed(t),
         Completed(t) => TextIn(heap, current_entry) \o Command(call[t].chunk) \in T
  PROVE  WindowOf(c_buffer', heap') \in Seq(T)
  <1> DEFINE W == WindowOf(c_buffer, heap)
             x == TextIn(heap, current_entry) \o Command(call[t].chunk)
  <1>1. CASE Extended(t)
    BY <1>1 DEF Extended
  <1>2. CASE Completed(t)
    <2>1. /\ W = TextsOf(heap, Contents(c_buffer))
          /\ Len(Contents(c_buffer)) = num_entries(c_buffer)
          /\ num_entries(c_buffer) \in 0..MaxWrites
          /\ (num_entries(c_buffer) < MaxWrites <=> ~c_buffer.full)
      BY WindowIsTexts DEF DriverInv
    <2>2. Len(W) = num_entries(c_buffer)
      BY <2>1, MaxWritesAssumption DEF TextsOf
    <2>3. c_buffer.full => W # <<>>
      BY <2>1, <2>2, MaxWritesAssumption
    <2> HIDE DEF W, x
    <2>4. KeptWindow(c_buffer, W) \in Seq(T)
      BY <2>3 DEF KeptWindow, W
    <2>5. Append(KeptWindow(c_buffer, W), x) \in Seq(T)
      BY <1>2, <2>4 DEF x
    <2> QED
      BY <1>2, <2>5 DEF Completed, W, x
  <1> QED
    BY <1>1, <1>2

\* The device keeps bytes of its users and no other.
BytesInv ==
  /\ Whole(current_entry)
  /\ WindowOf(c_buffer, heap) \in Seq(Seq(UserBytes))
  /\ TextIn(heap, current_entry) \in Seq(UserBytes)

\* Every step keeps BytesInv: the bytes of a write are copied before they count.
LEMMA NextKeepsBytesInv ==
  ASSUME GrowSucceeds, DriverInv, BytesInv, [Next]_vars
  PROVE  BytesInv'
  <1> DEFINE T == Seq(UserBytes)
             W == WindowOf(c_buffer, heap)
             x == TextIn(heap, current_entry)
  <1>1. CASE SameTexts
    BY <1>1 DEF SameTexts, BytesInv
  <1>2. CASE NoTexts
    BY <1>2 DEF NoTexts, BytesInv, Whole, NoEntry
  <1>3. ASSUME NEW t \in Tasks, WriteAppend(t) PROVE BytesInv'
    <2> DEFINE cmd  == Command(call[t].chunk)
               rest == Remainder(call[t].chunk)
    <2>1. (Extended(t) \/ Completed(t)) /\ Whole(current_entry')
      BY <1>3, AppendText DEF BytesInv
    <2>2. cmd \in T /\ rest \in T
      BY <1>3, WriteBytes DEF WriteAppend
    <2>3. x \in T /\ W \in Seq(T)
      BY DEF BytesInv
    <2>4. x \o cmd \in T
      <3> HIDE DEF x, cmd
      <3> QED
        BY <2>2, <2>3
    <2>5. TextIn(heap', current_entry') \in T
      <3>1. <<>> \in T
        OBVIOUS
      <3> HIDE DEF T
      <3> QED
        BY <2>1, <2>2, <2>4, <3>1 DEF Extended, Completed
    <2>6. WindowOf(c_buffer', heap') \in Seq(T)
      <3> HIDE DEF T
      <3> QED
        BY <2>1, <2>3, <2>4, WindowStays
    <2> QED
      BY <2>1, <2>5, <2>6 DEF BytesInv
  <1> QED
    BY <1>1, <1>2, <1>3, StepTexts

\* BytesInv at the start.
LEMMA InitBytesInv == Init => BytesInv
  <1> SUFFICES ASSUME Init PROVE BytesInv
    OBVIOUS
  <1>1. c_buffer = aesd_circular_buffer_init /\ current_entry = NoEntry
    BY DEF Init
  <1>2. num_entries(aesd_circular_buffer_init) = 0
    BY DEF num_entries, aesd_circular_buffer_init
  <1>3. WindowOf(c_buffer, heap) = [k \in 1..0 |-> TextIn(heap, Contents(c_buffer)[k])]
    BY <1>1, <1>2 DEF WindowOf
  <1>4. WindowOf(c_buffer, heap) = <<>>
    BY <1>3
  <1>5. TextIn(heap, NoEntry) = SubSeq(<<>>, 1, 0)
    BY DEF TextIn, NoEntry, Bytes
  <1>6. SubSeq(<<>>, 1, 0) = <<>>
    OBVIOUS
  <1> QED
    BY <1>1, <1>4, <1>5, <1>6 DEF BytesInv, Whole, NoEntry

\* As long as krealloc does not fail, no byte of the kernel's memory that nothing
\* was copied to becomes part of a command.
THEOREM OnlyUserBytes ==
  ASSUME GrowSucceeds
  PROVE  Spec => []NothingUninitialised
  <1>1. BytesInv => NothingUninitialised
    <2> SUFFICES ASSUME BytesInv PROVE NothingUninitialised
      OBVIOUS
    <2>1. FlattenSeq(WindowOf(c_buffer, heap)) \in Seq(UserBytes)
      BY FlattenType DEF BytesInv
    <2>2. Stream \in Seq(UserBytes) /\ Text(current_entry) \in Seq(UserBytes)
      BY <2>1, StreamIs DEF BytesInv, Text, TextIn
    <2>3. \A s \in Seq(UserBytes) : Junk \notin Range(s)
      <3> SUFFICES ASSUME NEW s \in Seq(UserBytes), NEW i \in DOMAIN s, s[i] = Junk PROVE FALSE
        BY DEF Range
      <3>1. s[i] \in UserBytes
        OBVIOUS
      <3> QED
        BY <3>1, AesdCharAssumption
    <2> QED
      BY <2>2, <2>3 DEF NothingUninitialised
  <1>2. DriverInv /\ BytesInv /\ [Next]_vars => BytesInv'
    BY NextKeepsBytesInv
  <1> QED
    BY <1>1, <1>2, InitBytesInv, InitDriverInv, NextKeepsDriverInv, PTL DEF Spec

-----------------------------------------------------------------------------
(* Commands.                                                               *)

CompleteCommand == {s \in Seq(UserBytes) : s # <<>> /\ NewLines(s) = {Len(s)}}
PartialCommand == {s \in Seq(UserBytes) : NewLines(s) = {}}

\* A write holds at most one newline. The driver looks for the first one only: a
\* second one stays in the remainder, inside of the next command.
OneNewLine == \A s \in Chunks : \A i, j \in NewLines(s) : i = j

\* The bytes a write appends and the rest are the user's bytes.
LEMMA ChunkParts ==
  ASSUME NEW chunk \in Seq(UserBytes), chunk # <<>>
  PROVE  Command(chunk) \o Remainder(chunk) = chunk
  <1> DEFINE n == CommandBytes(chunk)
             l == Len(chunk)
             x == Command(chunk)
             y == Remainder(chunk)
  <1>1. l \in Nat /\ n \in Nat /\ 1 <= n /\ n <= l
    BY CommandBytesType
  <1> HIDE DEF n
  <1>2. /\ x \in Seq(UserBytes) /\ Len(x) = n /\ x # <<>> /\ \A i \in 1..n : x[i] = chunk[i]
    BY <1>1 DEF Command, n
  <1>3. /\ y \in Seq(UserBytes) /\ Len(y) = l - n /\ \A i \in 1..(l - n) : y[i] = chunk[n + i]
    BY <1>1 DEF Remainder, n
  <1> HIDE DEF x, y, l
  <1>4. x \o y = chunk
    <2> DEFINE z == x \o y
    <2>1. /\ z \in Seq(UserBytes) /\ Len(z) = Len(x) + Len(y)
          /\ \A i \in 1..Len(x) : z[i] = x[i]
          /\ \A i \in 1..Len(y) : z[Len(x) + i] = y[i]
      <3>1. x \in Seq(UserBytes) /\ y \in Seq(UserBytes)
        BY <1>2, <1>3
      <3> QED
        BY <3>1, ConcatFacts
    <2> HIDE DEF z
    <2>2. Len(z) = l
      BY <1>1, <1>2, <1>3, <2>1
    <2>3. ASSUME NEW i \in 1..l PROVE z[i] = chunk[i]
      <3>1. i \in 1..n \/ (i - n \in 1..(l - n) /\ n + (i - n) = i)
        BY <1>1
      <3> QED
        BY <1>2, <1>3, <2>1, <3>1
    <2>4. z = chunk
      BY <2>1, <2>2, <2>3, SeqEqual DEF l
    <2> QED
      BY <2>4 DEF z
  <1> QED
    BY <1>4 DEF x, y

\* The newlines of the bytes a write appends, and of the rest.
LEMMA ChunkNewLines ==
  ASSUME OneNewLine, NEW chunk \in Chunks, chunk \in Seq(UserBytes), chunk # <<>>
  PROVE  /\ NewLines(chunk) = {} => Command(chunk) \in PartialCommand
         /\ NewLines(chunk) # {} => Command(chunk) \in CompleteCommand
         /\ Remainder(chunk) \in PartialCommand
  <1> DEFINE n == CommandBytes(chunk)
             l == Len(chunk)
             x == Command(chunk)
             y == Remainder(chunk)
  <1>1. l \in Nat /\ n \in Nat /\ 1 <= n /\ n <= l
    BY CommandBytesType
  <1>2. /\ NewLines(chunk) = {} => n = l
        /\ NewLines(chunk) # {} => chunk[n] = NewLine /\ \A i \in 1..(n - 1) : chunk[i] # NewLine
    BY CommandBytesType
  <1> HIDE DEF n
  <1>3. /\ x \in Seq(UserBytes) /\ Len(x) = n /\ x # <<>> /\ \A i \in 1..n : x[i] = chunk[i]
    BY <1>1 DEF Command, n
  <1>4. /\ y \in Seq(UserBytes) /\ Len(y) = l - n /\ \A i \in 1..(l - n) : y[i] = chunk[n + i]
    BY <1>1 DEF Remainder, n
  <1> HIDE DEF x, y, l
  <1>5. NewLines(chunk) = {i \in 1..l : chunk[i] = NewLine}
    BY DEF NewLines, l
  <1>6. ASSUME NewLines(chunk) = {} PROVE x \in PartialCommand
    <2>1. \A i \in 1..n : chunk[i] # NewLine
      BY <1>1, <1>5, <1>6
    <2> QED
      BY <1>3, <2>1 DEF PartialCommand, NewLines
  <1>7. ASSUME NewLines(chunk) # {} PROVE x \in CompleteCommand
    <2>1. NewLines(x) = {n}
      <3>1. \A i \in 1..n : x[i] = NewLine <=> i = n
        BY <1>1, <1>2, <1>3, <1>7
      <3>2. n \in 1..n
        BY <1>1
      <3> QED
        BY <1>3, <3>1, <3>2 DEF NewLines
    <2> QED
      BY <1>3, <2>1 DEF CompleteCommand
  <1>8. y \in PartialCommand
    <2>1. ASSUME NEW i \in 1..(l - n), y[i] = NewLine PROVE FALSE
      <3>1. n + i \in 1..l /\ n \in 1..l /\ n + i # n
        BY <1>1
      <3>2. n + i \in NewLines(chunk)
        BY <1>4, <1>5, <2>1, <3>1
      <3>3. n \in NewLines(chunk)
        BY <1>2, <1>5, <3>1, <3>2
      <3> QED
        BY <3>1, <3>2, <3>3 DEF OneNewLine
    <2> QED
      BY <1>4, <2>1 DEF PartialCommand, NewLines
  <1> QED
    BY <1>6, <1>7, <1>8 DEF x, y

\* The newlines of a command that goes on.
LEMMA JoinNewLines ==
  ASSUME NEW x \in PartialCommand, NEW y
  PROVE  /\ y \in PartialCommand => x \o y \in PartialCommand
         /\ y \in CompleteCommand => x \o y \in CompleteCommand
  <1> DEFINE z == x \o y
             m == Len(x)
             n == Len(y)
  <1> SUFFICES ASSUME y \in Seq(UserBytes)
               PROVE  /\ y \in PartialCommand => z \in PartialCommand
                      /\ y \in CompleteCommand => z \in CompleteCommand
    BY DEF PartialCommand, CompleteCommand
  <1>1. x \in Seq(UserBytes) /\ \A i \in 1..m : x[i] # NewLine
    BY DEF PartialCommand, NewLines
  <1>2. /\ z \in Seq(UserBytes) /\ Len(z) = m + n
        /\ \A i \in 1..m : z[i] = x[i]
        /\ \A i \in 1..n : z[m + i] = y[i]
    BY <1>1, ConcatFacts
  <1>3. m \in Nat /\ n \in Nat
    BY <1>1
  <1> HIDE DEF z, m, n
  <1>4. ASSUME NEW i \in 1..(m + n)
        PROVE  z[i] = NewLine => i - m \in 1..n /\ y[i - m] = NewLine
    <2>1. i \in 1..m \/ (i - m \in 1..n /\ m + (i - m) = i)
      BY <1>3
    <2>2. CASE i \in 1..m
      BY <1>1, <1>2, <2>2
    <2>3. CASE i - m \in 1..n /\ m + (i - m) = i
      <3>1. z[m + (i - m)] = y[i - m]
        BY <1>2, <2>3
      <3> QED
        BY <2>3, <3>1
    <2> QED
      BY <2>1, <2>2, <2>3
  <1>5. ASSUME y \in PartialCommand PROVE z \in PartialCommand
    BY <1>2, <1>4, <1>5 DEF PartialCommand, NewLines, n
  <1>6. ASSUME y \in CompleteCommand PROVE z \in CompleteCommand
    <2>1. y # <<>> /\ \A i \in 1..n : y[i] = NewLine <=> i = n
      <3>1. y # <<>> /\ {i \in 1..n : y[i] = NewLine} = {n}
        BY <1>6 DEF CompleteCommand, NewLines, n
      <3> QED
        BY <3>1
    <2>2. n >= 1
      BY <1>3, <2>1 DEF n
    <2>3. \A i \in 1..(m + n) : z[i] = NewLine <=> i = m + n
      <3>1. z[m + n] = NewLine
        BY <1>2, <1>3, <2>1, <2>2
      <3>2. ASSUME NEW i \in 1..(m + n), z[i] = NewLine
            PROVE  i = m + n
        <4>1. i - m \in 1..n /\ y[i - m] = NewLine
          BY <1>4, <3>2
        <4>2. i - m = n
          BY <2>1, <4>1
        <4> QED
          BY <1>3, <4>2
      <3> QED
        BY <3>1, <3>2
    <2>4. m + n \in 1..(m + n) /\ z # <<>>
      BY <1>2, <1>3, <2>2
    <2> QED
      BY <1>2, <2>3, <2>4 DEF CompleteCommand, NewLines
  <1> QED
    BY <1>5, <1>6

\* The device keeps complete commands and the start of the next one.
CommandsInv ==
  /\ Whole(current_entry)
  /\ WindowOf(c_buffer, heap) \in Seq(CompleteCommand)
  /\ TextIn(heap, current_entry) \in PartialCommand

\* What a write makes of the commands the device keeps.
LEMMA AppendCommands ==
  ASSUME GrowSucceeds, OneNewLine, DriverInv, CommandsInv, NEW t \in Tasks, WriteAppend(t)
  PROVE  /\ Extended(t) \/ Completed(t)
         /\ call[t].chunk \in Chunks /\ call[t].chunk \in Seq(UserBytes)
         /\ call[t].chunk # <<>>
         /\ Extended(t) => /\ Command(call[t].chunk) \in PartialCommand
                           /\ TextIn(heap, current_entry) \o Command(call[t].chunk)
                                \in PartialCommand
         /\ Completed(t) => /\ Command(call[t].chunk) \in CompleteCommand
                            /\ TextIn(heap, current_entry) \o Command(call[t].chunk)
                                 \in CompleteCommand
         /\ Remainder(call[t].chunk) \in PartialCommand
         /\ CommandsInv'
  <1> DEFINE chunk == call[t].chunk
             x == TextIn(heap, current_entry)
  <1>1. (Extended(t) \/ Completed(t)) /\ Whole(current_entry')
    BY AppendText DEF CommandsInv
  <1>2. chunk \in Chunks /\ chunk \in Seq(UserBytes) /\ chunk # <<>>
    BY WriteBytes DEF WriteAppend
  <1>3. /\ NewLines(chunk) = {} => Command(chunk) \in PartialCommand
        /\ NewLines(chunk) # {} => Command(chunk) \in CompleteCommand
        /\ Remainder(chunk) \in PartialCommand
    <2> HIDE DEF chunk
    <2> QED
      BY <1>2, ChunkNewLines
  <1>4. /\ Extended(t) => Command(chunk) \in PartialCommand
        /\ Completed(t) => Command(chunk) \in CompleteCommand
    BY <1>3 DEF Extended, Completed
  <1>5. /\ Extended(t) => x \o Command(chunk) \in PartialCommand
        /\ Completed(t) => x \o Command(chunk) \in CompleteCommand
    <2>1. x \in PartialCommand
      BY DEF CommandsInv
    <2> HIDE DEF x, chunk
    <2> QED
      BY <1>4, <2>1, JoinNewLines
  <1>6. TextIn(heap', current_entry') \in PartialCommand
    <2>1. <<>> \in PartialCommand
      BY DEF PartialCommand, NewLines
    <2> QED
      BY <1>1, <1>3, <1>5, <2>1 DEF Extended, Completed
  <1>7. WindowOf(c_buffer', heap') \in Seq(CompleteCommand)
    BY <1>1, <1>5, WindowStays DEF CommandsInv
  <1> QED
    BY <1>1, <1>2, <1>3, <1>4, <1>5, <1>6, <1>7 DEF CommandsInv

\* Every step keeps CommandsInv.
LEMMA NextKeepsCommandsInv ==
  ASSUME GrowSucceeds, OneNewLine, DriverInv, CommandsInv, [Next]_vars
  PROVE  CommandsInv'
  <1>1. CASE SameTexts
    BY <1>1 DEF SameTexts, CommandsInv
  <1>2. CASE NoTexts
    <2>1. <<>> \in PartialCommand
      BY DEF PartialCommand, NewLines
    <2> QED
      BY <1>2, <2>1 DEF NoTexts, CommandsInv, Whole, NoEntry
  <1>3. ASSUME NEW t \in Tasks, WriteAppend(t) PROVE CommandsInv'
    BY <1>3, AppendCommands
  <1> QED
    BY <1>1, <1>2, <1>3, StepTexts

\* CommandsInv at the start.
LEMMA InitCommandsInv == Init => CommandsInv
  <1> SUFFICES ASSUME Init PROVE CommandsInv
    OBVIOUS
  <1>1. c_buffer = aesd_circular_buffer_init /\ current_entry = NoEntry
    BY DEF Init
  <1>2. num_entries(aesd_circular_buffer_init) = 0
    BY DEF num_entries, aesd_circular_buffer_init
  <1>3. WindowOf(c_buffer, heap) = [k \in 1..0 |-> TextIn(heap, Contents(c_buffer)[k])]
    BY <1>1, <1>2 DEF WindowOf
  <1>4. WindowOf(c_buffer, heap) = <<>>
    BY <1>3
  <1>5. TextIn(heap, NoEntry) = SubSeq(<<>>, 1, 0)
    BY DEF TextIn, NoEntry, Bytes
  <1>6. SubSeq(<<>>, 1, 0) = <<>>
    OBVIOUS
  <1>7. <<>> \in PartialCommand
    BY DEF PartialCommand, NewLines
  <1> QED
    BY <1>1, <1>4, <1>5, <1>6, <1>7 DEF CommandsInv, Whole, NoEntry

\* Every slot in use is that of some entry by age.
LEMMA SlotHasAge ==
  ASSUME NEW c \in BufferOf(Entry), IsRing(c, Entry), NEW i \in Slots, c.entry[i] # NoEntry
  PROVE  \E j \in Slots : j < num_entries(c) /\ SlotAt(c, j) = i
  <1> DEFINE o == c.out_offs
             j == IF i >= o THEN i - o ELSE i - o + MaxWrites
  <1>1. MaxWrites \in Nat /\ MaxWrites >= 1
    BY MaxWritesAssumption
  <1>2. o \in Slots /\ c.in_offs \in Slots
    BY DEF BufferOf
  <1>3. j \in Slots /\ (IF o + j < MaxWrites THEN o + j ELSE o + j - MaxWrites) = i
    BY <1>1, <1>2 DEF Slots
  <1> HIDE DEF j
  <1>4. SlotAt(c, j) = i
    BY <1>2, <1>3, SlotAtWraps
  <1>5. j < num_entries(c)
    <2>1. CASE c.full
      BY <1>1, <1>3, <2>1 DEF num_entries, Slots
    <2>2. CASE ~c.full
      <3>1. o = 0 /\ i < c.in_offs
        BY <2>2 DEF IsRing
      <3> QED
        BY <1>1, <1>2, <2>2, <3>1 DEF num_entries, Slots, j
    <2> QED
      BY <2>1, <2>2
  <1> QED
    BY <1>3, <1>4, <1>5

\* Writers that end each command in its own write get rings of whole commands: one
\* newline in each entry, at its end, however the commands were cut into writes.
THEOREM RingHoldsCommands ==
  ASSUME GrowSucceeds, OneNewLine
  PROVE  Spec => []EntriesAreCommands
  <1>1. DriverInv /\ CommandsInv => EntriesAreCommands
    <2> SUFFICES ASSUME DriverInv, CommandsInv, NEW i \in Slots, c_buffer.entry[i] # NoEntry
                 PROVE  LET e == c_buffer.entry[i]
                        IN  /\ Len(heap[e.buffptr]) = e.size
                            /\ NewLines(heap[e.buffptr]) = {e.size}
      BY DEF EntriesAreCommands
    <2>1. Memory(c_buffer, kbuf, current_entry, heap) /\ c_buffer \in BufferOf(Entry)
          /\ IsRing(c_buffer, Entry)
      BY DEF DriverInv, Memory
    <2>2. PICK j \in Slots : j < num_entries(c_buffer) /\ SlotAt(c_buffer, j) = i
      BY <2>1, SlotHasAge
    <2>3. j \in Nat
      BY DEF Slots
    <2> DEFINE W == WindowOf(c_buffer, heap)
               b == heap[c_buffer.entry[i].buffptr]
    <2>4. /\ W[j + 1] = b /\ Len(b) = c_buffer.entry[i].size
          /\ j + 1 \in 1..num_entries(c_buffer)
      BY <2>1, <2>2, <2>3, EntryAt DEF BlockAt
    <2>5. Len(W) = num_entries(c_buffer)
      <3>1. W = TextsOf(heap, Contents(c_buffer)) /\ Len(Contents(c_buffer)) = num_entries(c_buffer)
            /\ num_entries(c_buffer) \in 0..MaxWrites
        BY <2>1, WindowIsTexts
      <3> QED
        BY <3>1, MaxWritesAssumption DEF TextsOf
    <2>6. W \in Seq(CompleteCommand)
      BY DEF CommandsInv
    <2> HIDE DEF W, b
    <2>7. b \in CompleteCommand
      BY <2>4, <2>5, <2>6
    <2> QED
      BY <2>4, <2>7 DEF CompleteCommand, b
  <1>2. DriverInv /\ CommandsInv /\ [Next]_vars => CommandsInv'
    BY NextKeepsCommandsInv
  <1> QED
    BY <1>1, <1>2, InitCommandsInv, InitDriverInv, NextKeepsDriverInv, PTL DEF Spec

-----------------------------------------------------------------------------
(* What a write stores.                                                    *)

\* Concatenation is associative.
LEMMA ConcatAssoc ==
  ASSUME NEW S, NEW x \in Seq(S), NEW y \in Seq(S), NEW z \in Seq(S)
  PROVE  x \o (y \o z) = (x \o y) \o z
  OBVIOUS

\* The empty sequence changes nothing.
LEMMA ConcatEmpty ==
  ASSUME NEW S, NEW x \in Seq(S)
  PROVE  x \o <<>> = x /\ <<>> \o x = x
  OBVIOUS

\* Two ways to put f, x, y and z together.
Joins(f, x, y, z) ==
  /\ (f \o (x \o y)) \o <<>> = (f \o x) \o y
  /\ (f \o (x \o y)) \o z = (f \o x) \o (y \o z)

\* Both are the same sequence.
LEMMA ConcatParts ==
  ASSUME NEW S, NEW f \in Seq(S), NEW x \in Seq(S), NEW y \in Seq(S), NEW z \in Seq(S)
  PROVE  Joins(f, x, y, z)
  <1>1. x \o y \in Seq(S) /\ f \o x \in Seq(S)
    OBVIOUS
  <1>2. f \o (x \o y) = (f \o x) \o y
    BY ConcatAssoc, SMTT(30)
  <1> DEFINE g == f \o x
             h == x \o y
  <1> HIDE DEF g, h
  <1>3. g \o (y \o z) = (g \o y) \o z
    <2>1. g \in Seq(S)
      BY <1>1 DEF g
    <2> QED
      BY <2>1, ConcatAssoc, SMTT(30)
  <1>4. f \o h \in Seq(S)
    BY <1>1 DEF h
  <1>5. (f \o h) \o <<>> = f \o h
    <2> DEFINE k == f \o h
    <2> HIDE DEF k
    <2>1. k \o <<>> = k
      BY <1>4, ConcatEmpty DEF k
    <2> QED
      BY <2>1 DEF k
  <1> QED
    BY <1>2, <1>3, <1>5 DEF g, h, Joins

\* The window without the oldest command is a sequence of sequences of bytes.
LEMMA KeptType ==
  ASSUME DriverInv, NEW T, WindowOf(c_buffer, heap) \in Seq(T)
  PROVE  KeptWindow(c_buffer, WindowOf(c_buffer, heap)) \in Seq(T)
  <1> DEFINE W == WindowOf(c_buffer, heap)
  <1>1. /\ W = TextsOf(heap, Contents(c_buffer))
        /\ Len(Contents(c_buffer)) = num_entries(c_buffer)
        /\ num_entries(c_buffer) \in 0..MaxWrites
        /\ (num_entries(c_buffer) < MaxWrites <=> ~c_buffer.full)
    BY WindowIsTexts DEF DriverInv
  <1>2. Len(W) = num_entries(c_buffer)
    BY <1>1, MaxWritesAssumption DEF TextsOf
  <1>3. c_buffer.full => W # <<>>
    BY <1>1, <1>2, MaxWritesAssumption
  <1> HIDE DEF W
  <1> QED
    BY <1>3 DEF KeptWindow, W

\* The bytes kept after a step of the critical section of aesd_write are the bytes
\* kept before, without the oldest command if it was replaced, and the bytes of the
\* user's buffer that the call reports.
THEOREM WritesStoreWhatTheyReport ==
  ASSUME GrowSucceeds
  PROVE  Spec => WriteStoresWhatItReports
  <1> DEFINE A(t) ==
        pc[t] = "write_append" /\ pc'[t] = "write_return" =>
         LET kept  == IF c_buffer' # c_buffer /\ c_buffer.full
                      THEN FlattenSeq(Tail(Window)) ELSE Stream
             added == SubSeq(call[t].chunk, 1, ret'[t])
         IN  (Stream \o Text(current_entry))' = kept \o Text(current_entry) \o added
  <1>1. ASSUME DriverInv, BytesInv, Next, NEW t \in Tasks PROVE A(t)
    <2> SUFFICES ASSUME pc[t] = "write_append", pc'[t] = "write_return"
                 PROVE  LET kept  == IF c_buffer' # c_buffer /\ c_buffer.full
                                     THEN FlattenSeq(Tail(Window)) ELSE Stream
                            added == SubSeq(call[t].chunk, 1, ret'[t])
                        IN  (Stream \o Text(current_entry))'
                              = kept \o Text(current_entry) \o added
      OBVIOUS
    <2>1. WriteAppend(t)
      <3>1. Call(t) \/ Lock(t) \/ Proceed(t) \/ Interrupted(t)
        BY <1>1, OwnStep
      <3>2. ~Call(t) /\ ~Lock(t) /\ ~Interrupted(t)
        BY DEF Call, CallRead, CallWrite, CallLlseek, CallIoctl, Enter, Interrupted,
               Lock, ReadFind, WriteLock, aesd_llseek, aesd_ioctl
      <3>3. ~ReadReturn(t) /\ ~WriteCopy(t) /\ ~ReadCopy(t) /\ ~WriteReturn(t)
        BY DEF ReadReturn, WriteCopy, ReadCopy, WriteReturn
      <3> QED
        BY <3>1, <3>2, <3>3 DEF Proceed
    <2> DEFINE S     == UserBytes
               T     == Seq(S)
               chunk == call[t].chunk
               cmd   == Command(chunk)
               rest  == Remainder(chunk)
               W     == WindowOf(c_buffer, heap)
               V     == WindowOf(c_buffer', heap')
               x     == TextIn(heap, current_entry)
               y     == TextIn(heap', current_entry')
               K     == KeptWindow(c_buffer, W)
    <2>2. Extended(t) \/ Completed(t)
      BY <1>1, <2>1, AppendText DEF BytesInv
    <2>3. x \in T /\ W \in Seq(T) /\ K \in Seq(T)
      <3>1. x \in T /\ W \in Seq(T)
        BY <1>1 DEF BytesInv
      <3> HIDE DEF T
      <3> QED
        BY <1>1, <3>1, KeptType
    <2>4. /\ chunk \in T /\ chunk # <<>> /\ cmd \in T /\ rest \in T
          /\ SubSeq(chunk, 1, CommandBytes(chunk)) = cmd
      BY <1>1, WriteBytes DEF Command
    <2>5. SubSeq(chunk, 1, Len(chunk)) = chunk /\ cmd \o rest = chunk
      <3> HIDE DEF chunk
      <3> QED
        BY <2>4, WholePart, ChunkParts
    <2>6. /\ FlattenSeq(W) \in T /\ FlattenSeq(K) \in T
      <3> HIDE DEF W, K
      <3> QED
        BY <2>3, FlattenType
    <2>7. x \o cmd \in T
      <3> HIDE DEF x, cmd
      <3> QED
        BY <2>3, <2>4
    <2>8. /\ Window = W /\ Stream = FlattenSeq(W) /\ Text(current_entry) = x
      BY StreamIs DEF Text, TextIn
    <2>9. (Stream \o Text(current_entry))' = FlattenSeq(V) \o y
      <3>1. Window' = V
        BY DEF Window, WindowOf, Text, TextIn
      <3> QED
        BY <3>1 DEF Stream, Text, TextIn
    <2>10. CASE Extended(t)
      <3>1. c_buffer' = c_buffer /\ V = W /\ y = x \o cmd /\ ret'[t] = CommandBytes(chunk)
        BY <2>10 DEF Extended
      <3> DEFINE f == FlattenSeq(W)
      <3>2. f \o (x \o cmd) = (f \o x) \o cmd
        <4>1. f \in Seq(S) /\ x \in Seq(S) /\ cmd \in Seq(S)
          BY <2>3, <2>4, <2>6
        <4> HIDE DEF f, x, cmd, S
        <4> QED
          BY <4>1, ConcatAssoc
      <3> HIDE DEF W, V, x, y, cmd, chunk
      <3> QED
        BY <2>4, <2>8, <2>9, <3>1, <3>2 DEF f, chunk
    <2>11. CASE Completed(t)
      <3>1. /\ c_buffer' # c_buffer /\ V = Append(K, x \o cmd)
            /\ \/ y = <<>> /\ ret'[t] = CommandBytes(chunk)
               \/ y = rest /\ ret'[t] = Len(chunk)
        BY <2>11 DEF Completed
      <3> DEFINE f == FlattenSeq(K)
      <3>2. FlattenSeq(V) = f \o (x \o cmd)
        <4> DEFINE z == x \o cmd
        <4> HIDE DEF z, K
        <4>1. FlattenSeq(Append(K, z)) = FlattenSeq(K) \o z
          BY <2>3, <2>7, FlattenAppend DEF z
        <4> QED
          BY <3>1, <4>1 DEF z
      <3>3. /\ (f \o (x \o cmd)) \o <<>> = (f \o x) \o cmd
            /\ (f \o (x \o cmd)) \o rest = (f \o x) \o (cmd \o rest)
        <4>1. f \in Seq(S) /\ x \in Seq(S) /\ cmd \in Seq(S) /\ rest \in Seq(S)
          BY <2>3, <2>4, <2>6
        <4> HIDE DEF f, x, cmd, rest, S
        <4>2. Joins(f, x, cmd, rest)
          BY <4>1, ConcatParts
        <4> QED
          BY <4>2 DEF Joins
      <3>4. (IF c_buffer' # c_buffer /\ c_buffer.full
             THEN FlattenSeq(Tail(Window)) ELSE Stream) = f
        BY <2>8, <3>1 DEF KeptWindow
      <3>5. FlattenSeq(V) \o y = (f \o x) \o SubSeq(chunk, 1, ret'[t])
        <4> HIDE DEF f, x, y, V, K, cmd, rest, chunk
        <4> QED
          BY <2>4, <2>5, <3>1, <3>2, <3>3
      <3> HIDE DEF f, x, y, V, K
      <3> QED
        BY <2>8, <2>9, <3>4, <3>5
    <2> QED
      BY <2>2, <2>10, <2>11
  <1> HIDE DEF A
  <1>2. DriverInv /\ BytesInv /\ [Next]_vars => [\A t \in Tasks : A(t)]_vars
    BY <1>1
  <1>3. DriverInv /\ BytesInv /\ [Next]_vars => BytesInv'
    BY NextKeepsBytesInv
  <1>4. Spec => [][\A t \in Tasks : A(t)]_vars
    BY <1>2, <1>3, InitDriverInv, NextKeepsDriverInv, InitBytesInv, PTL DEF Spec
  <1> QED
    BY <1>4 DEF WriteStoresWhatItReports, A

-----------------------------------------------------------------------------
(* The device implements CommandWindow.                                    *)

\* What CommandWindow makes of the window w and the pending bytes p when it takes
\* the bytes: the window v and the pending bytes q.
AcceptedAs(w, p, bytes, v, q) ==
  LET stream   == p \o bytes
      ends     == Commands!Ends(stream)
      commands == [k \in 1..Len(ends) |->
                     SubSeq(stream, Commands!Start(ends, k), ends[k])]
      all      == w \o commands
      excess   == IF Len(all) > MaxWrites THEN Len(all) - MaxWrites ELSE 0
  IN  /\ v = SubSeq(all, excess + 1, Len(all))
      /\ q = SubSeq(stream, Commands!Start(ends, Len(ends) + 1), Len(stream))

\* The newlines in order, when there is none and when there is one.
LEMMA EndsOfFew ==
  ASSUME NEW s
  PROVE  /\ NewLines(s) = {} => Commands!Ends(s) = <<>>
         /\ \A m \in Nat : NewLines(s) = {m} => Commands!Ends(s) = <<m>>
  <1> DEFINE at == NewLines(s)
             card(S) == Commands!Cardinality(S)
             E  == [k \in 1..card(at) |->
                      CHOOSE i \in at : card({j \in at : j <= i}) = k]
  <1>1. Commands!Ends(s) = E
    BY DEF Commands!Ends, NewLines
  <1>2. \A S : card(S) = Cardinality(S)
    BY DEF Commands!Cardinality, Cardinality
  <1> HIDE DEF at, card
  <1>3. ASSUME at = {} PROVE E = <<>>
    <2>1. card(at) = 0
      BY <1>2, <1>3, FS_EmptySet
    <2>2. 1..card(at) = {}
      BY <2>1
    <2> QED
      BY <2>2
  <1>4. ASSUME NEW m \in Nat, at = {m} PROVE E = <<m>>
    <2>1. card(at) = 1
      BY <1>2, <1>4, FS_Singleton
    <2>2. {j \in at : j <= m} = {m}
      BY <1>4
    <2>3. card({j \in at : j <= m}) = 1
      BY <1>2, <2>2, FS_Singleton
    <2>4. (CHOOSE i \in at : card({j \in at : j <= i}) = 1) = m
      BY <1>4, <2>3
    <2>5. 1..card(at) = {1}
      BY <2>1
    <2>6. E = [k \in {1} |-> m]
      BY <2>4, <2>5
    <2>7. [k \in {1} |-> m] = <<m>>
      OBVIOUS
    <2> QED
      BY <2>6, <2>7
  <1> QED
    BY <1>1, <1>3, <1>4 DEF at

\* Bytes without a newline are kept as pending bytes.
LEMMA AcceptPartial ==
  ASSUME NEW T, NEW w \in Seq(T), Len(w) <= MaxWrites,
         NEW p, NEW bytes, p \o bytes \in PartialCommand
  PROVE  AcceptedAs(w, p, bytes, w, p \o bytes)
  <1> DEFINE s == p \o bytes
             E == Commands!Ends(s)
             f == [k \in 1..Len(E) |-> SubSeq(s, Commands!Start(E, k), E[k])]
             all == w \o f
             excess == IF Len(all) > MaxWrites THEN Len(all) - MaxWrites ELSE 0
  <1>1. s \in Seq(UserBytes) /\ NewLines(s) = {}
    BY DEF PartialCommand
  <1>2. AcceptedAs(w, p, bytes, w, s)
          <=> /\ w = SubSeq(all, excess + 1, Len(all))
              /\ s = SubSeq(s, Commands!Start(E, Len(E) + 1), Len(s))
    BY DEF AcceptedAs
  <1> HIDE DEF s
  <1>3. E = <<>>
    BY <1>1, EndsOfFew
  <1>4. Len(E) = 0
    BY <1>3
  <1> HIDE DEF E
  <1>5. 1..Len(E) = {}
    BY <1>4
  <1>6. f = <<>>
    BY <1>5
  <1> HIDE DEF f
  <1>7. all = w /\ Len(w) \in Nat
    BY <1>6
  <1>8. excess = 0
    BY <1>7, MaxWritesAssumption
  <1>9. SubSeq(all, excess + 1, Len(all)) = w
    BY <1>7, <1>8
  <1>10. Commands!Start(E, Len(E) + 1) = 1
    BY <1>4 DEF Commands!Start
  <1>11. SubSeq(s, 1, Len(s)) = s
    BY <1>1
  <1> HIDE DEF all, excess
  <1> QED
    BY <1>2, <1>9, <1>10, <1>11 DEF s

\* Bytes that complete the command x, with the bytes y after it, add x to the
\* window and leave y pending.
LEMMA AcceptComplete ==
  ASSUME NEW T, NEW w \in Seq(T), Len(w) <= MaxWrites, NEW p, NEW bytes,
         NEW x \in CompleteCommand, x \in T, NEW y \in PartialCommand, p \o bytes = x \o y
  PROVE  AcceptedAs(w, p, bytes, Append(IF Len(w) = MaxWrites THEN Tail(w) ELSE w, x), y)
  <1> DEFINE s == p \o bytes
             m == Len(x)
             f == [k \in 1..1 |-> SubSeq(s, Commands!Start(<<m>>, k), (<<m>>)[k])]
             all == w \o f
             excess == IF Len(all) > MaxWrites THEN Len(all) - MaxWrites ELSE 0
             v == Append(IF Len(w) = MaxWrites THEN Tail(w) ELSE w, x)
  <1>1. /\ x \in Seq(UserBytes) /\ x # <<>> /\ NewLines(x) = {m}
        /\ y \in Seq(UserBytes) /\ NewLines(y) = {}
    BY DEF CompleteCommand, PartialCommand
  <1>2. m \in Nat /\ m >= 1 /\ Len(y) \in Nat
    BY <1>1
  <1>3. /\ s \in Seq(UserBytes) /\ Len(s) = m + Len(y)
        /\ \A i \in 1..m : s[i] = x[i]
        /\ \A i \in 1..Len(y) : s[m + i] = y[i]
    <2>1. /\ x \o y \in Seq(UserBytes) /\ Len(x \o y) = Len(x) + Len(y)
          /\ \A i \in 1..Len(x) : (x \o y)[i] = x[i]
          /\ \A i \in 1..Len(y) : (x \o y)[Len(x) + i] = y[i]
      <3>1. x \in Seq(UserBytes) /\ y \in Seq(UserBytes)
        BY <1>1
      <3> QED
        BY <3>1, ConcatFacts
    <2> QED
      BY <2>1
  <1> HIDE DEF s, m
  <1>4. NewLines(s) = {m}
    <2>1. /\ \A i \in 1..m : x[i] = NewLine <=> i = m
          /\ \A i \in 1..Len(y) : y[i] # NewLine
      <3>1. {i \in 1..m : x[i] = NewLine} = {m}
        BY <1>1 DEF NewLines, m
      <3> QED
        BY <1>1, <3>1 DEF NewLines
    <2>2. \A i \in 1..(m + Len(y)) : i \in 1..m \/ (i - m \in 1..Len(y) /\ m + (i - m) = i)
      BY <1>2
    <2>3. ASSUME NEW i \in 1..(m + Len(y)), s[i] = NewLine PROVE i = m
      <3>1. CASE i \in 1..m
        BY <1>3, <2>1, <2>3, <3>1
      <3>2. CASE i - m \in 1..Len(y) /\ m + (i - m) = i
        <4> DEFINE q == i - m
        <4> HIDE DEF q
        <4>1. s[m + q] = y[q] /\ y[q] # NewLine
          BY <1>3, <2>1, <3>2 DEF q
        <4> QED
          BY <2>3, <3>2, <4>1 DEF q
      <3> QED
        BY <2>2, <3>1, <3>2
    <2>4. m \in 1..(m + Len(y)) /\ s[m] = NewLine
      BY <1>2, <1>3, <2>1
    <2> QED
      BY <1>3, <2>3, <2>4 DEF NewLines
  <1>5. Commands!Ends(s) = <<m>> /\ Len(<<m>>) = 1 /\ (<<m>>)[1] = m
    BY <1>2, <1>4, EndsOfFew
  <1>6. SubSeq(s, 1, m) = x
    <2>1. /\ SubSeq(s, 1, m) \in Seq(UserBytes) /\ Len(SubSeq(s, 1, m)) = m
          /\ \A i \in 1..m : SubSeq(s, 1, m)[i] = s[i]
      BY <1>2, <1>3
    <2> QED
      BY <1>1, <1>3, <2>1, SeqEqual DEF m
  <1>7. SubSeq(s, m + 1, Len(s)) = y
    <2> DEFINE r == SubSeq(s, m + 1, m + Len(y))
    <2>1. /\ r \in Seq(UserBytes) /\ Len(r) = Len(y)
          /\ \A i \in 1..Len(y) : r[i] = s[m + i]
      BY <1>2, <1>3, PartFacts
    <2> HIDE DEF r
    <2>2. r = y
      BY <1>1, <1>3, <2>1, SeqEqual
    <2> QED
      BY <1>3, <2>2 DEF r
  <1>8. f = <<x>>
    <2>1. Commands!Start(<<m>>, 1) = 1
      BY DEF Commands!Start
    <2>2. f = [k \in {1} |-> x]
      BY <1>5, <1>6, <2>1
    <2>3. [k \in {1} |-> x] = <<x>>
      OBVIOUS
    <2> QED
      BY <2>2, <2>3
  <1>9. all = w \o <<x>>
    BY <1>8
  <1>10. SubSeq(all, excess + 1, Len(all)) = v
    <2> DEFINE n == Len(w)
               a == w \o <<x>>
    <2>1. /\ n \in Nat /\ a \in Seq(T) /\ Len(a) = n + 1 /\ a[n + 1] = x
          /\ \A i \in 1..n : a[i] = w[i]
      OBVIOUS
    <2>2. MaxWrites \in Nat /\ MaxWrites >= 1
      BY MaxWritesAssumption
    <2>3. CASE n = MaxWrites
      <3>1. excess = 1
        BY <1>9, <2>1, <2>2, <2>3
      <3>2. w # <<>>
        BY <2>2, <2>3
      <3>3. Tail(w) \in Seq(T) /\ Len(Tail(w)) = n - 1 /\ \A i \in 1..(n - 1) : Tail(w)[i] = w[i + 1]
        BY <3>2
      <3> DEFINE g == Tail(w)
                 b == SubSeq(a, 1 + 1, 1 + n)
      <3> HIDE DEF g
      <3>4. v = Append(g, x)
        BY <2>3 DEF g
      <3>5. /\ Append(g, x) \in Seq(T) /\ Len(Append(g, x)) = n
            /\ \A i \in 1..(n - 1) : Append(g, x)[i] = g[i]
            /\ Append(g, x)[n] = x
        BY <2>1, <3>3 DEF g
      <3> HIDE DEF a
      <3>6. b \in Seq(T) /\ Len(b) = n /\ \A i \in 1..n : b[i] = a[1 + i]
        BY <2>1, PartFacts
      <3> HIDE DEF b
      <3>7. ASSUME NEW i \in 1..n PROVE b[i] = Append(g, x)[i]
        <4>1. CASE i = n
          BY <2>1, <3>5, <3>6, <4>1
        <4>2. CASE i \in 1..(n - 1)
          <5>1. i + 1 \in 1..n /\ 1 + i = i + 1
            BY <2>1, <4>2
          <5>2. b[i] = a[i + 1] /\ a[i + 1] = w[i + 1]
            BY <2>1, <3>6, <5>1
          <5>3. Append(g, x)[i] = g[i] /\ g[i] = w[i + 1]
            BY <3>3, <3>5, <4>2 DEF g
          <5> QED
            BY <5>2, <5>3
        <4>3. i = n \/ i \in 1..(n - 1)
          BY <2>1
        <4> QED
          BY <4>1, <4>2, <4>3
      <3>8. b = Append(g, x)
        BY <3>5, <3>6, <3>7, SeqEqual
      <3>9. all = a /\ Len(a) = 1 + n
        BY <1>9, <2>1 DEF a
      <3> HIDE DEF all, excess, v, n
      <3> QED
        BY <3>1, <3>4, <3>8, <3>9 DEF b
    <2>4. CASE n # MaxWrites
      <3>1. excess = 0
        BY <1>9, <2>1, <2>2, <2>4
      <3>2. v = Append(w, x)
        BY <2>4
      <3>3. Append(w, x) = w \o <<x>>
        OBVIOUS
      <3>4. SubSeq(a, 1, Len(a)) = a
        BY <2>1, WholePart
      <3>5. all = a
        BY <1>9
      <3> HIDE DEF all, excess, v
      <3> QED
        BY <3>1, <3>2, <3>3, <3>4, <3>5
    <2> QED
      BY <2>3, <2>4
  <1>11. Commands!Start(<<m>>, Len(<<m>>) + 1) = m + 1
    BY <1>5 DEF Commands!Start
  <1> HIDE DEF f, all, excess, v
  <1>12. AcceptedAs(w, p, bytes, v, y)
          <=> /\ v = SubSeq(all, excess + 1, Len(all))
              /\ y = SubSeq(s, Commands!Start(<<m>>, Len(<<m>>) + 1), Len(s))
    BY <1>5 DEF AcceptedAs, f, all, excess, s
  <1> QED
    BY <1>7, <1>10, <1>11, <1>12 DEF v

\* The window of a full ring is full.
LEMMA WindowFull ==
  ASSUME DriverInv
  PROVE  /\ Len(WindowOf(c_buffer, heap)) <= MaxWrites
         /\ KeptWindow(c_buffer, WindowOf(c_buffer, heap)) =
              IF Len(WindowOf(c_buffer, heap)) = MaxWrites
              THEN Tail(WindowOf(c_buffer, heap)) ELSE WindowOf(c_buffer, heap)
  <1> DEFINE W == WindowOf(c_buffer, heap)
  <1>1. /\ W = TextsOf(heap, Contents(c_buffer))
        /\ Len(Contents(c_buffer)) = num_entries(c_buffer)
        /\ num_entries(c_buffer) \in 0..MaxWrites
        /\ (num_entries(c_buffer) < MaxWrites <=> ~c_buffer.full)
    BY WindowIsTexts DEF DriverInv
  <1>2. Len(W) = num_entries(c_buffer)
    BY <1>1, MaxWritesAssumption DEF TextsOf
  <1>3. Len(W) <= MaxWrites /\ (Len(W) = MaxWrites <=> c_buffer.full)
    BY <1>1, <1>2, MaxWritesAssumption
  <1> HIDE DEF W
  <1> QED
    BY <1>3 DEF KeptWindow, W

\* A write is one step of CommandWindow: it takes the bytes that the call reports.
LEMMA AppendAccepts ==
  ASSUME GrowSucceeds, OneNewLine, DriverInv, CommandsInv, NEW t \in Tasks, WriteAppend(t)
  PROVE  \E bytes \in Accepted :
           AcceptedAs(WindowOf(c_buffer, heap), TextIn(heap, current_entry), bytes,
                      WindowOf(c_buffer', heap'), TextIn(heap', current_entry'))
  <1> DEFINE W     == WindowOf(c_buffer, heap)
             V     == WindowOf(c_buffer', heap')
             x     == TextIn(heap, current_entry)
             y     == TextIn(heap', current_entry')
             chunk == call[t].chunk
             cmd   == Command(chunk)
             rest  == Remainder(chunk)
             K     == IF Len(W) = MaxWrites THEN Tail(W) ELSE W
  <1>1. /\ Extended(t) \/ Completed(t)
        /\ chunk \in Chunks /\ chunk \in Seq(UserBytes) /\ chunk # <<>>
        /\ Extended(t) => cmd \in PartialCommand /\ x \o cmd \in PartialCommand
        /\ Completed(t) => cmd \in CompleteCommand /\ x \o cmd \in CompleteCommand
        /\ rest \in PartialCommand
    BY AppendCommands
  <1>2. W \in Seq(CompleteCommand) /\ x \in PartialCommand
    BY DEF CommandsInv
  <1>3. Len(W) <= MaxWrites /\ KeptWindow(c_buffer, W) = K
    BY WindowFull
  <1>4. cmd \in Accepted /\ chunk \in Accepted /\ cmd \o rest = chunk
    <2>1. CommandBytes(chunk) \in 1..Len(chunk) /\ Len(chunk) \in Nat
      <3> HIDE DEF chunk
      <3> QED
        BY <1>1, CommandBytesType
    <2> HIDE DEF chunk
    <2>2. Len(chunk) \in 1..Len(chunk)
      BY <2>1
    <2>3. SubSeq(chunk, 1, Len(chunk)) = chunk /\ cmd \o rest = chunk
      BY <1>1, WholePart, ChunkParts
    <2>4. \A n \in 1..Len(chunk) : SubSeq(chunk, 1, n) \in Accepted
      BY <1>1 DEF Accepted
    <2> QED
      BY <2>1, <2>2, <2>3, <2>4 DEF Command
  <1>5. CASE Extended(t)
    <2>1. V = W /\ y = x \o cmd
      BY <1>5 DEF Extended
    <2> HIDE DEF W, V, x, y, cmd
    <2>2. AcceptedAs(W, x, cmd, W, x \o cmd)
      BY <1>1, <1>2, <1>3, <1>5, AcceptPartial
    <2>3. AcceptedAs(W, x, cmd, V, y)
      BY <2>1, <2>2
    <2> QED
      BY <1>4, <2>3 DEF W, V, x, y
  <1>6. CASE Completed(t)
    <2>1. V = Append(K, x \o cmd) /\ (y = <<>> \/ y = rest)
      BY <1>3, <1>6 DEF Completed
    <2>2. <<>> \in PartialCommand
      BY DEF PartialCommand, NewLines
    <2>3. x \in Seq(UserBytes) /\ cmd \in Seq(UserBytes) /\ rest \in Seq(UserBytes)
      BY <1>1, <1>2, <1>6 DEF PartialCommand, CompleteCommand
    <2> DEFINE z == x \o cmd
    <2>4. z \in Seq(UserBytes) /\ z \in CompleteCommand
      BY <1>1, <1>6 DEF CompleteCommand
    <2>5. x \o cmd = z \o <<>> /\ x \o chunk = z \o rest
      <3>1. x \o (cmd \o rest) = (x \o cmd) \o rest
        <4> HIDE DEF x, cmd, rest
        <4> QED
          BY <2>3, ConcatAssoc
      <3>2. z \o <<>> = z
        <4> HIDE DEF z
        <4> QED
          BY <2>4, ConcatEmpty
      <3> QED
        BY <1>4, <3>1, <3>2
    <2> HIDE DEF W, V, x, y, cmd, rest, z, chunk
    <2>6. AcceptedAs(W, x, cmd, Append(K, z), <<>>)
      BY <1>2, <1>3, <2>2, <2>4, <2>5, AcceptComplete
    <2>7. AcceptedAs(W, x, chunk, Append(K, z), rest)
      BY <1>1, <1>2, <1>3, <2>4, <2>5, AcceptComplete
    <2>8. V = Append(K, z)
      BY <2>1 DEF z
    <2> HIDE DEF K
    <2>9. AcceptedAs(W, x, cmd, V, y) \/ AcceptedAs(W, x, chunk, V, y)
      BY <2>1, <2>6, <2>7, <2>8
    <2> QED
      BY <1>4, <2>9 DEF W, V, x, y
  <1> QED
    BY <1>1, <1>5, <1>6

\* The device implements CommandWindow: the commands it keeps are the most recent
\* ones of the one stream of bytes that the writers were told it took, whatever
\* the interleaving of the calls and however the writes cut the commands.
THEOREM DeviceRefinesCommandWindow ==
  ASSUME GrowSucceeds, OneNewLine
  PROVE  Spec => ImplementsCommandWindow
  <1>1. Init => Commands!Init
    <2> SUFFICES ASSUME Init PROVE Commands!Init
      OBVIOUS
    <2>1. c_buffer = aesd_circular_buffer_init /\ current_entry = NoEntry
      BY DEF Init
    <2>2. num_entries(aesd_circular_buffer_init) = 0
      BY DEF num_entries, aesd_circular_buffer_init
    <2>3. Window = [k \in 1..0 |-> Text(Contents(c_buffer)[k])]
      BY <2>1, <2>2 DEF Window
    <2>4. Window = <<>>
      BY <2>3
    <2>5. Text(NoEntry) = SubSeq(<<>>, 1, 0)
      BY DEF Text, NoEntry, Bytes
    <2>6. SubSeq(<<>>, 1, 0) = <<>>
      OBVIOUS
    <2> QED
      BY <2>1, <2>4, <2>5, <2>6 DEF Commands!Init
  <1>2. DriverInv /\ CommandsInv /\ [Next]_vars => [Commands!Next]_Commands!vars
    <2> SUFFICES ASSUME DriverInv, CommandsInv, [Next]_vars
                 PROVE  [Commands!Next]_Commands!vars
      OBVIOUS
    <2>1. /\ Window = WindowOf(c_buffer, heap) /\ Text(current_entry) = TextIn(heap, current_entry)
          /\ Window' = WindowOf(c_buffer', heap')
          /\ Text(current_entry)' = TextIn(heap', current_entry')
      BY DEF Window, WindowOf, Text, TextIn
    <2>2. CASE SameTexts
      BY <2>1, <2>2 DEF SameTexts, Commands!vars
    <2>3. CASE NoTexts
      BY <2>1, <2>3 DEF NoTexts, Commands!Next, Commands!Forget
    <2>4. ASSUME NEW t \in Tasks, WriteAppend(t) PROVE Commands!Next
      <3>1. PICK bytes \in Accepted :
              AcceptedAs(WindowOf(c_buffer, heap), TextIn(heap, current_entry), bytes,
                         WindowOf(c_buffer', heap'), TextIn(heap', current_entry'))
        BY <2>4, AppendAccepts
      <3>2. AcceptedAs(Window, Text(current_entry), bytes, Window', Text(current_entry)')
        BY <2>1, <3>1
      <3>3. Commands!Accept(bytes)
        BY <3>2 DEF AcceptedAs, Commands!Accept
      <3> QED
        BY <3>3 DEF Commands!Next
    <2> QED
      BY <2>2, <2>3, <2>4, StepTexts
  <1>3. DriverInv /\ CommandsInv /\ [Next]_vars => CommandsInv'
    BY NextKeepsCommandsInv
  <1> QED
    BY <1>1, <1>2, <1>3, InitCommandsInv, InitDriverInv, NextKeepsDriverInv, PTL
    DEF Spec, ImplementsCommandWindow, Commands!Spec

=============================================================================
