------------------------ MODULE CircularBufferProofs ------------------------
(***************************************************************************)
(* The circular buffer remembers the MaxWrites most recent entries, for    *)
(* every MaxWrites, every set of blocks and every set of non-zero sizes.   *)
(***************************************************************************)
EXTENDS CircularBufferSpec, RingLemmas

\* The entries the caller may add are not empty.
LEMMA EntriesNotEmpty == \A x \in Entry : x.size \in Nat \ {0}
  BY SizesAssumption DEF Entry

\* Every state of the ring has the types of its fields and is well formed:
\* RingShape carries the induction, since the flag and the offsets stay in range
\* only together.
THEOREM RingSafety == Spec => [](TypeOK /\ RingShape)
  <1>1. Init => TypeOK /\ RingShape
    <2> SUFFICES ASSUME Init PROVE TypeOK /\ RingShape
      OBVIOUS
    <2>1. 0 \in Slots
      BY MaxWritesAssumption DEF Slots
    <2>2. buffer \in BufferOf(Entry)
      BY <2>1 DEF Init, aesd_circular_buffer_init, BufferOf
    <2>3. IsRing(buffer, Entry)
      BY DEF Init, aesd_circular_buffer_init, IsRing, Slots
    <2> QED
      BY <2>2, <2>3 DEF Init, TypeOK, RingShape
  <1>2. TypeOK /\ RingShape /\ [Next]_vars => TypeOK' /\ RingShape'
    <2> SUFFICES ASSUME TypeOK, RingShape, [Next]_vars
                 PROVE  TypeOK' /\ RingShape'
      OBVIOUS
    <2>1. CASE UNCHANGED vars
      BY <2>1 DEF vars, TypeOK, RingShape
    <2>2. ASSUME NEW e \in Entry, AddEntry(e)
          PROVE  TypeOK' /\ RingShape'
      <3>1. /\ buffer' \in BufferOf(Entry)
            /\ IsRing(buffer', Entry)
        BY <2>2, AddKeepsRing, EntriesNotEmpty DEF AddEntry, TypeOK, RingShape
      <3>2. Overwritten(buffer) \in Ptrs \cup {Null}
        BY DEF Overwritten, TypeOK, RingShape, IsRing, BufferOf, Entry, Slots
      <3> QED
        BY <2>2, <3>1, <3>2 DEF AddEntry, TypeOK, RingShape
    <2> QED
      BY <2>1, <2>2 DEF Next
  <1> QED
    BY <1>1, <1>2, PTL DEF Spec

\* The ring implements its abstract specification: it holds the MaxWrites most
\* recent entries, oldest first, and hands back the memory of the entry it
\* overwrites exactly when it overwrites one.
THEOREM RingRefinement == Spec => ImplementsRecentWrites
  <1>1. Init => Recent!Init
    <2> SUFFICES ASSUME Init PROVE Recent!Init
      OBVIOUS
    <2>1. num_entries(buffer) = 0
      BY DEF Init, aesd_circular_buffer_init, num_entries
    <2> QED
      BY <2>1 DEF Init, Recent!Init, Contents
  <1>2. TypeOK /\ RingShape /\ [Next]_vars => [Recent!Next]_(Recent!vars)
    <2> SUFFICES ASSUME TypeOK, RingShape, [Next]_vars
                 PROVE  [Recent!Next]_(Recent!vars)
      OBVIOUS
    <2>1. CASE UNCHANGED vars
      BY <2>1 DEF vars, Recent!vars
    <2>2. ASSUME NEW e \in Entry, AddEntry(e)
          PROVE  Recent!Remember(e)
      <3>1. buffer \in BufferOf(Entry) /\ IsRing(buffer, Entry)
        BY DEF TypeOK, RingShape
      <3>2. buffer' = aesd_circular_buffer_add_entry(buffer, e)
            /\ released' = Overwritten(buffer)
        BY <2>2 DEF AddEntry
      <3>3. Len(Contents(buffer)) < MaxWrites <=> ~buffer.full
        BY <3>1, ContentsType
      <3>4. Contents(buffer)' = Contents(aesd_circular_buffer_add_entry(buffer, e))
        BY <3>2 DEF Contents, num_entries, SlotAt
      <3>5. CASE ~buffer.full
        <4>1. Contents(buffer)' = Append(Contents(buffer), e)
          BY <3>1, <3>4, <3>5, AddAppends, EntriesNotEmpty
        <4>2. released' = Null
          BY <3>2, <3>5 DEF Overwritten
        <4> QED
          BY <3>3, <3>5, <4>1, <4>2 DEF Recent!Remember
      <3>6. CASE buffer.full
        <4>1. /\ Contents(buffer)' = Append(Tail(Contents(buffer)), e)
              /\ released' = Head(Contents(buffer)).buffptr
          BY <3>1, <3>2, <3>4, <3>6, AddReplacesOldest, EntriesNotEmpty
        <4> QED
          BY <3>3, <3>6, <4>1 DEF Recent!Remember
      <3> QED
        BY <3>5, <3>6
    <2> QED
      BY <2>1, <2>2 DEF Next, Recent!Next
  <1> QED
    BY <1>1, <1>2, RingSafety, PTL DEF Spec, Recent!Spec, ImplementsRecentWrites

\* The fields keep the ranges that the modulo arithmetic gives them, and the ring
\* refers to the blocks of its caller only.
THEOREM RingTypes == Spec => []TypeOK
  BY RingSafety, PTL

\* The block that aesd_circular_buffer_add_entry hands back is not in the ring any
\* more, so its caller may free it, and no two entries share a block. That the
\* blocks differ is what the induction needs: the one slot that referred to the
\* block has just been overwritten.
THEOREM RingNeverDangles == Spec => []NoDanglingEntry
  <1>1. Init => NoDanglingEntry
    BY DEF Init, aesd_circular_buffer_init, NoEntry, NoDanglingEntry
  <1>2. TypeOK /\ RingShape /\ NoDanglingEntry /\ [Next]_vars => NoDanglingEntry'
    <2> SUFFICES ASSUME TypeOK, RingShape, NoDanglingEntry, [Next]_vars
                 PROVE  NoDanglingEntry'
      OBVIOUS
    <2>1. CASE UNCHANGED vars
      BY <2>1 DEF vars, NoDanglingEntry, Held
    <2>2. ASSUME NEW e \in Entry, AddEntry(e)
          PROVE  NoDanglingEntry'
      <3>1. /\ buffer.in_offs \in Slots /\ buffer.full \in BOOLEAN
            /\ buffer.entry \in [Slots -> Entry \cup {NoEntry}]
        BY DEF TypeOK, BufferOf
      <3>2. buffer'.entry = [buffer.entry EXCEPT ![buffer.in_offs] = e]
        BY <2>2 DEF AddEntry, aesd_circular_buffer_add_entry
      <3>3. /\ buffer'.entry[buffer.in_offs] = e
            /\ \A i \in Slots \ {buffer.in_offs} : buffer'.entry[i] = buffer.entry[i]
        BY <3>1, <3>2
      <3>4. \A i \in Slots : buffer.entry[i].buffptr # e.buffptr
        BY <2>2 DEF AddEntry, Held
      <3>5. ASSUME NEW i \in Slots, NEW j \in Slots, i # j,
                   buffer'.entry[i].buffptr # Null
            PROVE  buffer'.entry[i].buffptr # buffer'.entry[j].buffptr
        BY <3>3, <3>4, <3>5 DEF NoDanglingEntry
      <3>6. ASSUME released' # Null, NEW i \in Slots
            PROVE  released' # buffer'.entry[i].buffptr
        <4>1. buffer.full /\ released' = buffer.entry[buffer.in_offs].buffptr
          BY <2>2, <3>6 DEF AddEntry, Overwritten
        <4>2. CASE i = buffer.in_offs
          BY <3>1, <3>3, <3>4, <4>1, <4>2
        <4>3. CASE i # buffer.in_offs
          BY <3>1, <3>3, <3>6, <4>1, <4>3 DEF NoDanglingEntry
        <4> QED
          BY <4>2, <4>3
      <3> QED
        BY <3>5, <3>6 DEF NoDanglingEntry, Held
    <2> QED
      BY <2>1, <2>2 DEF Next
  <1> QED
    BY <1>1, <1>2, RingSafety, PTL DEF Spec

-----------------------------------------------------------------------------

\* The bytes of the entries, one sequence for each entry, oldest first.
Place == [slot : Slots, offset : Nat]
BytesAt(b, k) ==
  [j \in 1..Contents(b)[k].size |-> [slot |-> SlotAt(b, k - 1), offset |-> j - 1]]
BytesByAge(b) == [k \in 1..num_entries(b) |-> BytesAt(b, k)]

\* The bytes of one entry.
LEMMA BytesAtAge ==
  ASSUME NEW b \in BufferOf(Entry), IsRing(b, Entry), NEW i \in Nat, i < num_entries(b)
  PROVE  /\ BytesByAge(b)[i + 1] \in Seq(Place)
         /\ Len(BytesByAge(b)[i + 1]) = b.entry[SlotAt(b, i)].size
         /\ \A j \in Nat : j < b.entry[SlotAt(b, i)].size =>
              BytesByAge(b)[i + 1][j + 1] = [slot |-> SlotAt(b, i), offset |-> j]
  <1> DEFINE n == b.entry[SlotAt(b, i)].size
             f == [j \in 1..n |-> [slot |-> SlotAt(b, i), offset |-> j - 1]]
  <1>1. num_entries(b) \in 0..MaxWrites /\ i \in Slots /\ b.out_offs \in Slots
    BY EntriesNotEmpty, SizesByAge, MaxWritesAssumption DEF Slots
  <1>2. SlotAt(b, i) \in Slots /\ n \in Nat
    BY <1>1, EntriesNotEmpty, SizesByAge
  <1>3. i + 1 \in 1..num_entries(b) /\ (i + 1) - 1 = i
    BY <1>1, MaxWritesAssumption
  <1>4. Contents(b)[i + 1] = b.entry[SlotAt(b, i)]
    BY <1>3 DEF Contents
  <1>5. BytesByAge(b)[i + 1] = f
    BY <1>3, <1>4 DEF BytesByAge, BytesAt
  <1>6. f \in [1..n -> Place]
    BY <1>2 DEF Place
  <1>7. \A j \in Nat : j < n => f[j + 1] = [slot |-> SlotAt(b, i), offset |-> j]
    BY <1>2
  <1>8. f \in Seq(Place) /\ Len(f) = n
    <2> HIDE DEF f, n
    <2> QED
      BY <1>2, <1>6, BytesType
  <1> QED
    BY <1>5, <1>7, <1>8

\* The concatenations of the bytes are as long as the loops over the ring say.
LEMMA BytesByAgeFacts ==
  ASSUME NEW b \in BufferOf(Entry), IsRing(b, Entry)
  PROVE  \E F : /\ Concats(Place, BytesByAge(b), F)
                /\ Len(BytesByAge(b)) = num_entries(b) /\ num_entries(b) \in Nat
                /\ \A j \in Nat : j <= num_entries(b) => Len(F[j]) = SizeOfFirst(b, j)
  <1> DEFINE B == BytesByAge(b)
             m == num_entries(b)
             T == Seq(Place)
  <1>1. /\ b.out_offs \in Slots /\ (\A i \in Slots : b.entry[i].size \in Nat)
        /\ m \in 0..MaxWrites
    BY EntriesNotEmpty, SizesByAge
  <1>2. m \in Nat
    BY <1>1, MaxWritesAssumption
  <1>3. ASSUME NEW i \in 1..m PROVE B[i] \in T
    <2>1. i - 1 \in Nat /\ i - 1 < m /\ (i - 1) + 1 = i
      BY <1>2
    <2>2. B[(i - 1) + 1] \in T
      BY <2>1, BytesAtAge
    <2> QED
      BY <2>1, <2>2
  <1>4. B = [i \in 1..m |-> B[i]]
    BY DEF BytesByAge
  <1>5. B \in Seq(T) /\ Len(B) = m
    <2> HIDE DEF B, T, m
    <2>1. B \in [1..m -> T]
      BY <1>3, <1>4
    <2> QED
      BY <1>2, <2>1, BytesType
  <1>6. PICK F : Concats(Place, B, F)
    <2> HIDE DEF B
    <2> QED
      BY <1>5, FlattensExists DEF Concats
  <1> DEFINE A == {j \in Nat : j <= m => Len(F[j]) = SizeOfFirst(b, j)}
  <1>7. 0 \in A
    <2>1. F[0] = <<>>
      BY <1>6 DEF Concats, Flattens
    <2>2. SizeOfFirst(b, 0) = 0
      BY <1>1, SizeOfFirstAdds
    <2> QED
      BY <2>1, <2>2
  <1>8. ASSUME NEW j \in A PROVE j + 1 \in A
    <2> SUFFICES ASSUME j + 1 <= m PROVE Len(F[j + 1]) = SizeOfFirst(b, j + 1)
      OBVIOUS
    <2>1. j \in Nat /\ j < m /\ j <= m
      BY <1>2
    <2>2. Len(F[j]) = SizeOfFirst(b, j)
      BY <2>1
    <2>3. Extends(Place, F[j], B[j + 1], F[j + 1])
      <3> HIDE DEF B
      <3> QED
        BY <1>5, <1>6, <2>1, ConcatsStep
    <2>4. Len(B[j + 1]) = b.entry[SlotAt(b, j)].size
      BY <2>1, BytesAtAge
    <2>5. SizeOfFirst(b, j + 1) = SizeOfFirst(b, j) + b.entry[SlotAt(b, j)].size
      BY <1>1, <2>1, SizeOfFirstAdds
    <2>6. Len(F[j + 1]) = Len(F[j]) + Len(B[j + 1])
      BY <2>3 DEF Extends
    <2> QED
      BY <2>2, <2>4, <2>5, <2>6, Zenon
  <1>9. A = Nat
    <2>1. A \in SUBSET Nat
      OBVIOUS
    <2> HIDE DEF A
    <2> QED
      BY <1>7, <1>8, <2>1, NatInductive
  <1> QED
    BY <1>2, <1>5, <1>6, <1>9

\* The lookup finds every byte of the concatenated entries at its place and nothing
\* past them, and the total of aesd_llseek is their length: for every number of
\* slots and all sizes, wherever the ring starts.
THEOREM LookupIsExact == Spec => []LookupIsConcatenation
  <1>1. TypeOK /\ RingShape => LookupIsConcatenation
    <2> SUFFICES ASSUME TypeOK, RingShape PROVE LookupIsConcatenation
      OBVIOUS
    <2> DEFINE b == buffer
               m == num_entries(b)
               B == BytesByAge(b)
               find(p) == aesd_circular_buffer_find_entry_offset_for_fpos(b, p)
    <2>1. b \in BufferOf(Entry) /\ IsRing(b, Entry)
      BY DEF TypeOK, RingShape
    <2>2. PICK F : /\ Concats(Place, B, F) /\ Len(B) = m /\ m \in Nat
                   /\ \A j \in Nat : j <= m => Len(F[j]) = SizeOfFirst(b, j)
      BY <2>1, BytesByAgeFacts
    <2>3. ByteMap = FlattenSeq(B)
      BY DEF ByteMap, BytesByAge, BytesAt
    <2>4. FlattenSeq(B) = F[m]
      <3> HIDE DEF B
      <3> QED
        BY <2>2, ConcatsStep
    <2>5. Len(ByteMap) = SizeOfFirst(b, m)
      BY <2>2, <2>3, <2>4
    <2>6. /\ b.out_offs \in Slots /\ (\A i \in Slots : b.entry[i].size \in Nat)
          /\ TotalSize(b) = SizeOfFirst(b, m) /\ SizeOfFirst(b, m) \in Nat
      <3>1. b.out_offs \in Slots /\ (\A i \in Slots : b.entry[i].size \in Nat)
        BY <2>1, EntriesNotEmpty, SizesByAge
      <3> QED
        BY <2>1, <2>2, <3>1, EntriesNotEmpty, TotalIsSizeOfEntries, SizeOfFirstAdds
    <2>7. ASSUME NEW p \in Nat, p < SizeOfFirst(b, m) PROVE find(p) = ByteMap[p + 1]
      <3>1. find(p) # NotFound
        BY <2>1, <2>6, <2>7, EntriesNotEmpty, LookupIsSound
      <3>2. PICK k \in Slots : /\ k < m /\ SizeOfFirst(b, k) <= p /\ p < SizeOfFirst(b, k + 1)
                               /\ find(p) = [slot |-> SlotAt(b, k), offset |-> p - SizeOfFirst(b, k)]
        BY <2>1, <3>1, EntriesNotEmpty, LookupIsSound
      <3>3. k \in Nat
        BY DEF Slots
      <3> DEFINE q == SizeOfFirst(b, k)
                 o == p - q
                 x == B[k + 1]
      <3>4. q \in Nat /\ SizeOfFirst(b, k + 1) = q + b.entry[SlotAt(b, k)].size
        BY <2>6, <3>3, SizeOfFirstAdds
      <3>5. /\ x \in Seq(Place) /\ Len(x) = b.entry[SlotAt(b, k)].size
            /\ \A j \in Nat : j < b.entry[SlotAt(b, k)].size =>
                 x[j + 1] = [slot |-> SlotAt(b, k), offset |-> j]
        BY <2>1, <3>2, <3>3, BytesAtAge
      <3>6. o \in Nat /\ o + 1 <= Len(x) /\ Len(x) \in Nat
        <4>1. Len(x) \in Nat
          BY <3>5, SeqFacts
        <4> HIDE DEF x
        <4> QED
          BY <3>2, <3>4, <3>5, <4>1
      <3>7. x[o + 1] = find(p)
        <4>1. o < b.entry[SlotAt(b, k)].size
          BY <3>5, <3>6
        <4> HIDE DEF x
        <4> QED
          BY <3>2, <3>5, <3>6, <4>1
      <3>8. Len(F[k]) = q
        BY <2>2, <3>2, <3>3
      <3>9. SamePart(B, F, k, o, 1)
        <4>1. o + 1 <= Len(B[k + 1]) /\ k < Len(B)
          BY <2>2, <3>2, <3>6
        <4>2. o \in Nat /\ 1 \in Nat
          BY <3>6
        <4> HIDE DEF B, o, m
        <4> QED
          BY <2>2, <3>3, <4>1, <4>2, FlattenPart
      <3>10. SubSeq(FlattenSeq(B), p + 1, p + 1) = SubSeq(x, o + 1, o + 1)
        <4>1. Len(F[k]) + o + 1 = p + 1
          BY <3>4, <3>8
        <4> HIDE DEF o, B
        <4> QED
          BY <3>9, <4>1 DEF SamePart
      <3>11. SubSeq(x, o + 1, o + 1)[1] = x[o + 1]
        <4> HIDE DEF x, o
        <4> QED
          BY <3>5, <3>6, PartFacts
      <3>12. SubSeq(ByteMap, p + 1, p + 1)[1] = ByteMap[p + 1]
        <4>1. ByteMap \in Seq(Place)
          <5> HIDE DEF B
          <5> QED
            BY <2>2, <2>3, FlattenType DEF Concats
        <4>2. p + 1 <= Len(ByteMap)
          BY <2>5, <2>6, <2>7
        <4> QED
          BY <4>1, <4>2, PartFacts
      <3> QED
        BY <2>3, <3>7, <3>10, <3>11, <3>12
    <2>8. ASSUME NEW p \in Nat, ~(p < SizeOfFirst(b, m)) PROVE find(p) = NotFound
      <3> SUFFICES ASSUME find(p) # NotFound PROVE FALSE
        OBVIOUS
      <3>1. PICK k \in Slots : k < m /\ p < SizeOfFirst(b, k + 1)
        BY <2>1, EntriesNotEmpty, LookupIsSound
      <3>2. k + 1 \in Nat /\ k + 1 <= m
        BY <2>2, <3>1 DEF Slots
      <3>3. SizeOfFirst(b, k + 1) <= SizeOfFirst(b, m) /\ SizeOfFirst(b, k + 1) \in Nat
        BY <2>2, <2>6, <3>2, SizesGrow, SizeOfFirstAdds
      <3> QED
        BY <2>6, <2>8, <3>1, <3>3
    <2>9. \A p \in 0..(Len(ByteMap) + 1) : p \in Nat
      BY <2>5, <2>6
    <2> HIDE DEF m, B
    <2>10. \A p \in 0..(Len(ByteMap) + 1) :
             find(p) = IF p < Len(ByteMap) THEN ByteMap[p + 1] ELSE NotFound
      <3> HIDE DEF find
      <3> QED
        BY <2>5, <2>7, <2>8, <2>9
    <2> QED
      BY <2>5, <2>6, <2>10 DEF LookupIsConcatenation
  <1> QED
    BY <1>1, RingSafety, PTL

=============================================================================
