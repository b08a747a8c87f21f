------------------------ MODULE AesdCharMemoryProofs ------------------------
(***************************************************************************)
(* The memory of the driver, for every number of slots, tasks, files and    *)
(* blocks, every input and every failure of the kernel around the driver.   *)
(***************************************************************************)
EXTENDS AesdCharProofs, RingLemmas

Heaps == [Addrs -> Seq(KernelBytes)]

\* kmalloc changes one block, which then has n bytes that nothing was copied to.
LEMMA KmallocHeap ==
  ASSUME NEW h \in Heaps, NEW a \in Addrs, NEW n \in Nat
  PROVE  /\ kmalloc(h, a, n) \in Heaps
         /\ Len(kmalloc(h, a, n)[a]) = n
         /\ \A c \in Addrs \ {a} : kmalloc(h, a, n)[c] = h[c]
  <1>1. [i \in 1..n |-> Junk] \in Seq(KernelBytes) /\ Len([i \in 1..n |-> Junk]) = n
    BY DEF KernelBytes
  <1> QED
    BY <1>1 DEF kmalloc, Heaps

\* kfree empties one block, or none.
LEMMA KfreeHeap ==
  ASSUME NEW h \in Heaps, NEW p \in Addrs \cup {Null}
  PROVE  /\ kfree(h, p) \in Heaps
         /\ \A c \in Addrs : kfree(h, p)[c] = IF c = p THEN <<>> ELSE h[c]
  <1>1. <<>> \in Seq(KernelBytes)
    OBVIOUS
  <1>2. CASE p = Null
    BY <1>2, AesdCharAssumption DEF kfree, Heaps
  <1>3. CASE p # Null
    BY <1>1, <1>3 DEF kfree, Heaps
  <1> QED
    BY <1>2, <1>3

\* memcpy replaces the bytes at..at+Len(bytes) of one block.
LEMMA MemcpyHeap ==
  ASSUME NEW h \in Heaps, NEW p \in Addrs, NEW at \in Nat,
         NEW bytes \in Seq(KernelBytes), at + Len(bytes) <= Len(h[p])
  PROVE  /\ memcpy(h, p, at, bytes) \in Heaps
         /\ Len(memcpy(h, p, at, bytes)[p]) = Len(h[p])
         /\ \A i \in 1..Len(h[p]) :
              memcpy(h, p, at, bytes)[p][i] =
                IF i \in (at + 1)..(at + Len(bytes)) THEN bytes[i - at] ELSE h[p][i]
         /\ \A c \in Addrs \ {p} : memcpy(h, p, at, bytes)[c] = h[c]
  <1> DEFINE new == [i \in 1..Len(h[p]) |->
                       IF i \in (at + 1)..(at + Len(bytes)) THEN bytes[i - at] ELSE h[p][i]]
  <1>1. h[p] \in Seq(KernelBytes) /\ Len(h[p]) \in Nat /\ Len(bytes) \in Nat
    BY DEF Heaps
  <1>2. ASSUME NEW i \in 1..Len(h[p]) PROVE new[i] \in KernelBytes
    <2>1. CASE i \in (at + 1)..(at + Len(bytes))
      <3>1. i - at \in 1..Len(bytes)
        BY <1>1, <2>1
      <3> QED
        BY <1>1, <2>1, <3>1
    <2>2. CASE i \notin (at + 1)..(at + Len(bytes))
      BY <1>1, <2>2
    <2> QED
      BY <2>1, <2>2
  <1>3. new \in [1..Len(h[p]) -> KernelBytes]
    BY <1>2
  <1>4. /\ new \in Seq(KernelBytes) /\ Len(new) = Len(h[p])
    BY <1>1, <1>3, BytesType
  <1>5. memcpy(h, p, at, bytes) = [h EXCEPT ![p] = new]
    BY DEF memcpy
  <1>6. \A i \in 1..Len(h[p]) :
          new[i] = IF i \in (at + 1)..(at + Len(bytes)) THEN bytes[i - at] ELSE h[p][i]
    OBVIOUS
  <1> HIDE DEF new
  <1> QED
    BY <1>4, <1>5, <1>6 DEF Heaps

\* g is h with the bytes of the block p moved to a, which has room for n.
Reallocated(h, p, a, n, g) ==
  /\ g \in Heaps
  /\ Len(g[a]) = n
  /\ \A i \in 1..n : g[a][i] = IF i <= Len(Bytes(h, p)) THEN Bytes(h, p)[i] ELSE Junk
  /\ \A c \in Addrs \ {a} : g[c] = IF c = p THEN <<>> ELSE h[c]

\* krealloc moves a block or grows it in place.
LEMMA KreallocHeap ==
  ASSUME NEW h \in Heaps, NEW p \in Addrs \cup {Null}, NEW a \in Addrs, NEW n \in Nat
  PROVE  Reallocated(h, p, a, n, krealloc(h, p, a, n))
  <1> DEFINE new == [i \in 1..n |->
                       IF i <= Len(Bytes(h, p)) THEN Bytes(h, p)[i] ELSE Junk]
  <1>1. Bytes(h, p) \in Seq(KernelBytes)
    BY DEF Bytes, Heaps
  <1>2. new \in [1..n -> KernelBytes]
    <2>1. ASSUME NEW i \in 1..n PROVE new[i] \in KernelBytes
      BY <1>1 DEF KernelBytes
    <2> QED
      BY <2>1
  <1>3. new \in Seq(KernelBytes) /\ Len(new) = n
    BY <1>2, BytesType
  <1>4. krealloc(h, p, a, n) = [kfree(h, p) EXCEPT ![a] = new]
    BY DEF krealloc
  <1>5. /\ kfree(h, p) \in Heaps
        /\ \A c \in Addrs : kfree(h, p)[c] = IF c = p THEN <<>> ELSE h[c]
    BY KfreeHeap
  <1>6. \A i \in 1..n : new[i] = IF i <= Len(Bytes(h, p)) THEN Bytes(h, p)[i] ELSE Junk
    OBVIOUS
  <1> HIDE DEF new
  <1> QED
    BY <1>3, <1>4, <1>5, <1>6 DEF Heaps, Reallocated

-----------------------------------------------------------------------------

\* A write of one byte or more has a command of one byte or more to append, which
\* ends with the first newline if there is one.
LEMMA CommandBytesType ==
  ASSUME NEW S, NEW bytes \in Seq(S), bytes # <<>>
  PROVE  /\ CommandBytes(bytes) \in 1..Len(bytes)
         /\ NewLines(bytes) = {} => CommandBytes(bytes) = Len(bytes)
         /\ NewLines(bytes) # {} =>
              /\ bytes[CommandBytes(bytes)] = NewLine
              /\ \A i \in 1..(CommandBytes(bytes) - 1) : bytes[i] # NewLine
  <1> DEFINE N == NewLines(bytes)
  <1>1. Len(bytes) \in Nat /\ Len(bytes) >= 1
    OBVIOUS
  <1>2. N \in SUBSET Nat /\ N \subseteq 1..Len(bytes)
    BY <1>1 DEF NewLines
  <1>3. CASE N = {}
    BY <1>1, <1>3 DEF CommandBytes
  <1>4. CASE N # {}
    <2>1. Min(N) \in N /\ \A y \in N : Min(N) <= y
      <3> HIDE DEF N
      <3> QED
        BY <1>2, <1>4, MinIsLeast
    <2>2. CommandBytes(bytes) = Min(N)
      BY <1>4 DEF CommandBytes
    <2> DEFINE m == Min(N)
    <2>3. m \in 1..Len(bytes) /\ bytes[m] = NewLine
      BY <1>2, <2>1 DEF NewLines
    <2>4. ASSUME NEW i \in 1..(m - 1) PROVE bytes[i] # NewLine
      <3>1. i \in 1..Len(bytes) /\ ~(m <= i)
        BY <1>1, <2>3
      <3>2. i \notin N
        BY <2>1, <3>1
      <3> QED
        BY <3>1, <3>2 DEF NewLines
    <2> HIDE DEF m
    <2> QED
      BY <1>4, <2>2, <2>3, <2>4 DEF m
  <1> QED
    BY <1>3, <1>4

\* What PointersSound says of the ring c, the local kbufs k, the entry e and the
\* heap h, pointer by pointer.
Apart(c, k, e, h) ==
  /\ \A i \in Slots : c.entry[i].buffptr # Null =>
       /\ h[c.entry[i].buffptr] # <<>>
       /\ \A j \in Slots \ {i} : c.entry[j].buffptr # c.entry[i].buffptr
       /\ \A t \in Tasks : k[t] # c.entry[i].buffptr
       /\ e.buffptr # c.entry[i].buffptr
  /\ \A t \in Tasks : k[t] # Null =>
       /\ h[k[t]] # <<>>
       /\ \A u \in Tasks \ {t} : k[u] # k[t]
       /\ e.buffptr # k[t]
  /\ e.buffptr # Null => h[e.buffptr] # <<>>

PointersOf(c, k, e) ==
  [x \in Holders |-> CASE x[2] = "ring"    -> c.entry[x[1]].buffptr
                       [] x[2] = "kbuf"    -> k[x[1]]
                       [] x[2] = "current" -> e.buffptr]

Sound(P, h) ==
  \A x \in Holders : P[x] # Null =>
    /\ h[P[x]] # <<>>
    /\ \A y \in Holders \ {x} : P[y] # P[x]

\* The holders are the slots, the kbufs and current_entry, and no two are the same.
LEMMA HoldersAre ==
  /\ \A x \in Holders : \/ \E i \in Slots : x = <<i, "ring">>
                        \/ \E t \in Tasks : x = <<t, "kbuf">>
                        \/ x = <<Null, "current">>
  /\ \A i \in Slots : <<i, "ring">> \in Holders
  /\ \A t \in Tasks : <<t, "kbuf">> \in Holders
  /\ <<Null, "current">> \in Holders
  BY DEF Holders

\* What each holder points to.
LEMMA PointersAre ==
  ASSUME NEW c, NEW k, NEW e
  PROVE  /\ \A i \in Slots : PointersOf(c, k, e)[<<i, "ring">>] = c.entry[i].buffptr
         /\ \A t \in Tasks : PointersOf(c, k, e)[<<t, "kbuf">>] = k[t]
         /\ PointersOf(c, k, e)[<<Null, "current">>] = e.buffptr
  BY HoldersAre DEF PointersOf

\* Sound pointers are apart, and the other way round.
LEMMA SoundIsApart ==
  ASSUME NEW c, NEW k, NEW e, NEW h
  PROVE  Sound(PointersOf(c, k, e), h) <=> Apart(c, k, e, h)
  <1> DEFINE P == PointersOf(c, k, e)
  <1>1. /\ \A i \in Slots : P[<<i, "ring">>] = c.entry[i].buffptr
        /\ \A t \in Tasks : P[<<t, "kbuf">>] = k[t]
        /\ P[<<Null, "current">>] = e.buffptr
    BY PointersAre
  <1> HIDE DEF P
  <1>2. ASSUME Sound(P, h) PROVE Apart(c, k, e, h)
    <2>1. ASSUME NEW i \in Slots, c.entry[i].buffptr # Null
          PROVE  /\ h[c.entry[i].buffptr] # <<>>
                 /\ \A j \in Slots \ {i} : c.entry[j].buffptr # c.entry[i].buffptr
                 /\ \A t \in Tasks : k[t] # c.entry[i].buffptr
                 /\ e.buffptr # c.entry[i].buffptr
      <3>1. /\ h[P[<<i, "ring">>]] # <<>>
            /\ \A y \in Holders \ {<<i, "ring">>} : P[y] # P[<<i, "ring">>]
        BY <1>1, <1>2, <2>1, HoldersAre DEF Sound
      <3>2. \A j \in Slots \ {i} : <<j, "ring">> \in Holders \ {<<i, "ring">>}
        BY HoldersAre
      <3>3. \A t \in Tasks : <<t, "kbuf">> \in Holders \ {<<i, "ring">>}
        BY HoldersAre
      <3>4. <<Null, "current">> \in Holders \ {<<i, "ring">>}
        BY HoldersAre
      <3> QED
        BY <1>1, <3>1, <3>2, <3>3, <3>4
    <2>2. ASSUME NEW t \in Tasks, k[t] # Null
          PROVE  /\ h[k[t]] # <<>>
                 /\ \A u \in Tasks \ {t} : k[u] # k[t]
                 /\ e.buffptr # k[t]
      <3>1. /\ h[P[<<t, "kbuf">>]] # <<>>
            /\ \A y \in Holders \ {<<t, "kbuf">>} : P[y] # P[<<t, "kbuf">>]
        BY <1>1, <1>2, <2>2, HoldersAre DEF Sound
      <3>2. \A u \in Tasks \ {t} : <<u, "kbuf">> \in Holders \ {<<t, "kbuf">>}
        BY HoldersAre
      <3>3. <<Null, "current">> \in Holders \ {<<t, "kbuf">>}
        BY HoldersAre
      <3> QED
        BY <1>1, <3>1, <3>2, <3>3
    <2>3. e.buffptr # Null => h[e.buffptr] # <<>>
      BY <1>1, <1>2, HoldersAre DEF Sound
    <2> QED
      BY <2>1, <2>2, <2>3 DEF Apart
  <1>3. ASSUME Apart(c, k, e, h) PROVE Sound(P, h)
    <2> SUFFICES ASSUME NEW x \in Holders, P[x] # Null
                 PROVE  h[P[x]] # <<>> /\ \A y \in Holders \ {x} : P[y] # P[x]
      BY DEF Sound
    <2>1. CASE \E i \in Slots : x = <<i, "ring">>
      <3>1. PICK i \in Slots : x = <<i, "ring">>
        BY <2>1
      <3>2. P[x] = c.entry[i].buffptr /\ h[P[x]] # <<>>
        BY <1>1, <1>3, <3>1 DEF Apart
      <3>3. ASSUME NEW y \in Holders \ {x} PROVE P[y] # P[x]
        BY <1>1, <1>3, <3>1, <3>2, <3>3, HoldersAre DEF Apart
      <3> QED
        BY <3>2, <3>3
    <2>2. CASE \E t \in Tasks : x = <<t, "kbuf">>
      <3>1. PICK t \in Tasks : x = <<t, "kbuf">>
        BY <2>2
      <3>2. P[x] = k[t] /\ h[P[x]] # <<>>
        BY <1>1, <1>3, <3>1 DEF Apart
      <3>3. ASSUME NEW y \in Holders \ {x} PROVE P[y] # P[x]
        BY <1>1, <1>3, <3>1, <3>2, <3>3, HoldersAre DEF Apart
      <3> QED
        BY <3>2, <3>3
    <2>3. CASE x = <<Null, "current">>
      <3>1. P[x] = e.buffptr /\ h[P[x]] # <<>>
        BY <1>1, <1>3, <2>3 DEF Apart
      <3>2. ASSUME NEW y \in Holders \ {x} PROVE P[y] # P[x]
        BY <1>1, <1>3, <2>3, <3>1, <3>2, HoldersAre DEF Apart
      <3> QED
        BY <3>1, <3>2
    <2> QED
      BY <2>1, <2>2, <2>3, HoldersAre
  <1> QED
    BY <1>2, <1>3 DEF P

-----------------------------------------------------------------------------

\* The ring c, the kbufs k, the command e being assembled and the heap h fit
\* together: the ring is well formed, no pointer dangles or is shared, and the
\* block of an entry has exactly its size.
Memory(c, k, e, h) ==
  /\ c \in BufferOf(Entry) /\ IsRing(c, Entry)
  /\ k \in [Tasks -> Addrs \cup {Null}]
  /\ e \in [buffptr : Addrs \cup {Null}, size : Nat]
  /\ h \in Heaps
  /\ Apart(c, k, e, h)
  /\ \A i \in Slots : c.entry[i] # NoEntry => Len(h[c.entry[i].buffptr]) = c.entry[i].size
  /\ e.buffptr # Null => Len(h[e.buffptr]) = e.size

\* Slots hold an entry with a block of its own or nothing.
LEMMA RingEntries ==
  ASSUME NEW c \in BufferOf(Entry), NEW i \in Slots
  PROVE  /\ c.entry[i] # NoEntry => /\ c.entry[i] \in Entry
                                    /\ c.entry[i].buffptr \in Addrs
                                    /\ c.entry[i].size \in Nat \ {0}
         /\ c.entry[i].buffptr # Null <=> c.entry[i] # NoEntry
         /\ c.entry[i].buffptr \in Addrs \cup {Null}
  <1>1. c.entry[i] \in Entry \cup {NoEntry}
    BY DEF BufferOf
  <1>2. NoEntry.buffptr = Null
    BY DEF NoEntry
  <1> QED
    BY <1>1, <1>2, AesdCharAssumption DEF Entry

\* A heap that differs only in blocks that no pointer refers to.
LEMMA OtherBlocksChange ==
  ASSUME NEW c, NEW k, NEW e, NEW h, Memory(c, k, e, h), NEW g \in Heaps,
         \A i \in Slots : c.entry[i].buffptr # Null => g[c.entry[i].buffptr] = h[c.entry[i].buffptr],
         \A t \in Tasks : k[t] # Null => g[k[t]] # <<>>,
         e.buffptr # Null => g[e.buffptr] = h[e.buffptr]
  PROVE  Memory(c, k, e, g)
  <1>1. Apart(c, k, e, g)
    BY DEF Memory, Apart
  <1>2. \A i \in Slots : c.entry[i] # NoEntry => Len(g[c.entry[i].buffptr]) = c.entry[i].size
    BY RingEntries DEF Memory
  <1> QED
    BY <1>1, <1>2 DEF Memory

\* kmalloc of a kbuf.
LEMMA AllocateKbuf ==
  ASSUME NEW c, NEW k, NEW e, NEW h, Memory(c, k, e, h), NEW t \in Tasks,
         k[t] = Null, NEW a \in FreeBlocks(h), NEW n \in Nat \ {0}
  PROVE  /\ Memory(c, [k EXCEPT ![t] = a], e, kmalloc(h, a, n))
         /\ Len(kmalloc(h, a, n)[a]) = n
         /\ \A u \in Tasks : k[u] # Null => kmalloc(h, a, n)[k[u]] = h[k[u]]
  <1> DEFINE g == kmalloc(h, a, n)
             l == [k EXCEPT ![t] = a]
  <1>1. a \in Addrs /\ h[a] = <<>> /\ h \in Heaps /\ k \in [Tasks -> Addrs \cup {Null}]
    BY DEF FreeBlocks, Memory
  <1>2. /\ g \in Heaps /\ Len(g[a]) = n
        /\ \A b \in Addrs \ {a} : g[b] = h[b]
    BY <1>1, KmallocHeap
  <1>3. g[a] # <<>>
    BY <1>2
  <1> HIDE DEF g
  <1>4. l \in [Tasks -> Addrs \cup {Null}] /\ l[t] = a /\ \A u \in Tasks \ {t} : l[u] = k[u]
    BY <1>1
  <1> HIDE DEF l
  <1>5. /\ \A i \in Slots : c.entry[i].buffptr # Null =>
             /\ c.entry[i].buffptr \in Addrs \ {a}
             /\ g[c.entry[i].buffptr] = h[c.entry[i].buffptr]
        /\ \A u \in Tasks : k[u] # Null => k[u] \in Addrs \ {a} /\ g[k[u]] = h[k[u]]
        /\ e.buffptr # Null => e.buffptr \in Addrs \ {a} /\ g[e.buffptr] = h[e.buffptr]
    BY <1>1, <1>2, RingEntries DEF Memory, Apart
  <1>6. \A i \in Slots : c.entry[i].buffptr # a
    BY <1>1, <1>5, AesdCharAssumption
  <1>7. e.buffptr # a /\ \A u \in Tasks : k[u] # a
    BY <1>1, <1>5, AesdCharAssumption
  <1>8. Apart(c, l, e, g)
    <2>1. ASSUME NEW i \in Slots, c.entry[i].buffptr # Null
          PROVE  /\ g[c.entry[i].buffptr] # <<>>
                 /\ \A j \in Slots \ {i} : c.entry[j].buffptr # c.entry[i].buffptr
                 /\ \A u \in Tasks : l[u] # c.entry[i].buffptr
                 /\ e.buffptr # c.entry[i].buffptr
      BY <1>4, <1>5, <1>6, <2>1 DEF Memory, Apart
    <2>2. ASSUME NEW u \in Tasks, l[u] # Null
          PROVE  /\ g[l[u]] # <<>>
                 /\ \A v \in Tasks \ {u} : l[v] # l[u]
                 /\ e.buffptr # l[u]
      BY <1>3, <1>4, <1>5, <1>7, <2>2 DEF Memory, Apart
    <2>3. e.buffptr # Null => g[e.buffptr] # <<>>
      BY <1>5 DEF Memory, Apart
    <2> QED
      BY <2>1, <2>2, <2>3 DEF Apart
  <1>9. \A i \in Slots : c.entry[i] # NoEntry => Len(g[c.entry[i].buffptr]) = c.entry[i].size
    BY <1>5, RingEntries DEF Memory
  <1>10. Memory(c, l, e, g)
    BY <1>2, <1>4, <1>5, <1>8, <1>9 DEF Memory
  <1> QED
    BY <1>2, <1>5, <1>10 DEF g, l

\* copy_from_user to a kbuf.
LEMMA FillKbuf ==
  ASSUME NEW c, NEW k, NEW e, NEW h, Memory(c, k, e, h), NEW t \in Tasks,
         k[t] # Null, NEW bytes \in Seq(KernelBytes), Len(bytes) = Len(h[k[t]])
  PROVE  /\ Memory(c, k, e, memcpy(h, k[t], 0, bytes))
         /\ memcpy(h, k[t], 0, bytes)[k[t]] = bytes
         /\ \A u \in Tasks \ {t} : k[u] # Null => memcpy(h, k[t], 0, bytes)[k[u]] = h[k[u]]
  <1> DEFINE g == memcpy(h, k[t], 0, bytes)
  <1>1. h \in Heaps /\ k[t] \in Addrs /\ k \in [Tasks -> Addrs \cup {Null}]
    BY DEF Memory
  <1>2. h[k[t]] \in Seq(KernelBytes) /\ 0 + Len(bytes) <= Len(h[k[t]])
    BY <1>1 DEF Heaps
  <1>3. /\ g \in Heaps /\ Len(g[k[t]]) = Len(h[k[t]])
        /\ \A i \in 1..Len(h[k[t]]) :
             g[k[t]][i] = IF i \in (0 + 1)..(0 + Len(bytes)) THEN bytes[i - 0] ELSE h[k[t]][i]
        /\ \A b \in Addrs \ {k[t]} : g[b] = h[b]
    BY <1>1, <1>2, MemcpyHeap
  <1> HIDE DEF g
  <1>4. g[k[t]] = bytes
    <2>1. g[k[t]] \in Seq(KernelBytes)
      BY <1>1, <1>3 DEF Heaps
    <2>2. \A i \in 1..Len(bytes) : g[k[t]][i] = bytes[i]
      BY <1>2, <1>3
    <2> QED
      BY <1>3, <2>1, <2>2, SeqEqual
  <1>5. \A u \in Tasks \ {t} : k[u] # Null => g[k[u]] = h[k[u]]
    BY <1>1, <1>3 DEF Memory, Apart
  <1>6. bytes # <<>>
    BY <1>1, <1>2 DEF Memory, Apart
  <1>7. \A i \in Slots : c.entry[i].buffptr # Null => g[c.entry[i].buffptr] = h[c.entry[i].buffptr]
    BY <1>3, RingEntries DEF Memory, Apart
  <1>8. e.buffptr # Null => g[e.buffptr] = h[e.buffptr]
    BY <1>3 DEF Memory, Apart
  <1>9. \A u \in Tasks : k[u] # Null => g[k[u]] # <<>>
    BY <1>4, <1>5, <1>6 DEF Memory, Apart
  <1>10. Memory(c, k, e, g)
    BY <1>3, <1>7, <1>8, <1>9, OtherBlocksChange
  <1> QED
    BY <1>4, <1>5, <1>10 DEF g

\* kfree of a kbuf.
LEMMA FreeKbuf ==
  ASSUME NEW c, NEW k, NEW e, NEW h, Memory(c, k, e, h), NEW t \in Tasks
  PROVE  /\ Memory(c, [k EXCEPT ![t] = Null], e, kfree(h, k[t]))
         /\ \A u \in Tasks \ {t} : k[u] # Null => kfree(h, k[t])[k[u]] = h[k[u]]
  <1> DEFINE g == kfree(h, k[t])
             l == [k EXCEPT ![t] = Null]
  <1>1. h \in Heaps /\ k[t] \in Addrs \cup {Null} /\ k \in [Tasks -> Addrs \cup {Null}]
    BY DEF Memory
  <1>2. g \in Heaps /\ \A b \in Addrs : g[b] = IF b = k[t] THEN <<>> ELSE h[b]
    BY <1>1, KfreeHeap
  <1>3. l \in [Tasks -> Addrs \cup {Null}] /\ l[t] = Null /\ \A u \in Tasks \ {t} : l[u] = k[u]
    BY <1>1
  <1> HIDE DEF g, l
  <1>4. /\ \A i \in Slots : c.entry[i].buffptr # Null => g[c.entry[i].buffptr] = h[c.entry[i].buffptr]
        /\ \A u \in Tasks \ {t} : k[u] # Null => g[k[u]] = h[k[u]]
        /\ e.buffptr # Null => g[e.buffptr] = h[e.buffptr]
    <2>1. \A i \in Slots : c.entry[i].buffptr # Null => g[c.entry[i].buffptr] = h[c.entry[i].buffptr]
      BY <1>2, RingEntries DEF Memory, Apart
    <2>2. \A u \in Tasks \ {t} : k[u] # Null => g[k[u]] = h[k[u]]
      BY <1>1, <1>2 DEF Memory, Apart
    <2>3. e.buffptr # Null => g[e.buffptr] = h[e.buffptr]
      BY <1>2 DEF Memory, Apart
    <2> QED
      BY <2>1, <2>2, <2>3
  <1>5. Apart(c, l, e, g)
    <2>1. ASSUME NEW i \in Slots, c.entry[i].buffptr # Null
          PROVE  /\ g[c.entry[i].buffptr] # <<>>
                 /\ \A j \in Slots \ {i} : c.entry[j].buffptr # c.entry[i].buffptr
                 /\ \A u \in Tasks : l[u] # c.entry[i].buffptr
                 /\ e.buffptr # c.entry[i].buffptr
      BY <1>3, <1>4, <2>1 DEF Memory, Apart
    <2>2. ASSUME NEW u \in Tasks, l[u] # Null
          PROVE  /\ g[l[u]] # <<>>
                 /\ \A v \in Tasks \ {u} : l[v] # l[u]
                 /\ e.buffptr # l[u]
      BY <1>3, <1>4, <2>2 DEF Memory, Apart
    <2>3. e.buffptr # Null => g[e.buffptr] # <<>>
      BY <1>4 DEF Memory, Apart
    <2> QED
      BY <2>1, <2>2, <2>3 DEF Apart
  <1>6. \A i \in Slots : c.entry[i] # NoEntry => Len(g[c.entry[i].buffptr]) = c.entry[i].size
    BY <1>4, RingEntries DEF Memory
  <1>7. Memory(c, l, e, g)
    BY <1>2, <1>3, <1>4, <1>5, <1>6 DEF Memory
  <1> QED
    BY <1>4, <1>7 DEF g, l

\* What krealloc and memcpy make of current_entry and of the heap: e with the
\* bytes appended, in the block a.
Grown(e, a, bytes) == [buffptr |-> a, size |-> e.size + Len(bytes)]
GrownHeap(h, e, a, bytes) ==
  memcpy(krealloc(h, e.buffptr, a, e.size + Len(bytes)), a, e.size, bytes)

\* g is h once e has grown by the bytes, in the block a: the block has the bytes
\* of e and then the new ones, the old block is free if it is another, and no other
\* block changes.
Growth(c, k, e, h, a, bytes, g) ==
  /\ Memory(c, k, Grown(e, a, bytes), g)
  /\ a \in Addrs /\ \A i \in Slots : c.entry[i].buffptr # a
  /\ Len(g[a]) = e.size + Len(bytes)
  /\ \A i \in 1..(e.size + Len(bytes)) :
       g[a][i] = IF i > e.size THEN bytes[i - e.size]
                 ELSE IF e.buffptr = Null THEN Junk ELSE h[e.buffptr][i]
  /\ \A b \in Addrs \ {a} : g[b] = IF b = e.buffptr THEN <<>> ELSE h[b]
  /\ \A t \in Tasks : k[t] # Null => g[k[t]] = h[k[t]]
  /\ \A i \in Slots : c.entry[i].buffptr # Null =>
       g[c.entry[i].buffptr] = h[c.entry[i].buffptr]

\* current_entry grows and the memory stays sound.
LEMMA GrowEntry ==
  ASSUME NEW c, NEW k, NEW e, NEW h, Memory(c, k, e, h),
         NEW a \in FreeBlocks(h) \cup ({e.buffptr} \ {Null}),
         NEW bytes \in Seq(KernelBytes), bytes # <<>>
  PROVE  Growth(c, k, e, h, a, bytes, GrownHeap(h, e, a, bytes))
  <1> DEFINE n == e.size + Len(bytes)
             r == krealloc(h, e.buffptr, a, n)
             g == memcpy(r, a, e.size, bytes)
             d == Grown(e, a, bytes)
  <1>1. /\ h \in Heaps /\ e.buffptr \in Addrs \cup {Null} /\ e.size \in Nat
        /\ k \in [Tasks -> Addrs \cup {Null}] /\ c \in BufferOf(Entry)
    BY DEF Memory
  <1>2. a \in Addrs /\ (h[a] = <<>> \/ a = e.buffptr)
    BY <1>1 DEF FreeBlocks
  <1>3. Len(bytes) \in Nat /\ Len(bytes) > 0 /\ n \in Nat /\ n > 0
    BY <1>1
  <1>4. /\ r \in Heaps /\ Len(r[a]) = n
        /\ \A i \in 1..n : r[a][i] = IF i <= Len(Bytes(h, e.buffptr))
                                     THEN Bytes(h, e.buffptr)[i] ELSE Junk
        /\ \A b \in Addrs \ {a} : r[b] = IF b = e.buffptr THEN <<>> ELSE h[b]
    <2>1. Reallocated(h, e.buffptr, a, n, r)
      BY <1>1, <1>2, <1>3, KreallocHeap
    <2> HIDE DEF n, r
    <2> QED
      BY <2>1 DEF Reallocated
  <1>5. e.size + Len(bytes) <= Len(r[a])
    <2> HIDE DEF r
    <2> QED
      BY <1>3, <1>4
  <1> HIDE DEF r
  <1>6. /\ g \in Heaps /\ Len(g[a]) = Len(r[a])
        /\ \A i \in 1..Len(r[a]) :
             g[a][i] = IF i \in (e.size + 1)..(e.size + Len(bytes))
                       THEN bytes[i - e.size] ELSE r[a][i]
        /\ \A b \in Addrs \ {a} : g[b] = r[b]
    BY <1>1, <1>2, <1>4, <1>5, MemcpyHeap
  <1> HIDE DEF g
  <1>7. Len(g[a]) = n /\ g[a] # <<>>
    <2>1. Len(g[a]) = n
      BY <1>4, <1>6
    <2> HIDE DEF n
    <2> QED
      BY <1>3, <2>1
  <1>8. \A b \in Addrs \ {a} : g[b] = IF b = e.buffptr THEN <<>> ELSE h[b]
    BY <1>4, <1>6
  <1>9. ASSUME NEW i \in 1..n
        PROVE  g[a][i] = IF i > e.size THEN bytes[i - e.size]
                         ELSE IF e.buffptr = Null THEN Junk ELSE h[e.buffptr][i]
    <2>1. i \in 1..Len(r[a]) /\ i \in Nat /\ i <= e.size + Len(bytes) /\ i >= 1
      BY <1>1, <1>3, <1>4
    <2>2. g[a][i] = IF i \in (e.size + 1)..(e.size + Len(bytes))
                    THEN bytes[i - e.size] ELSE r[a][i]
      BY <1>6, <2>1
    <2>3. CASE i > e.size
      <3>1. i \in (e.size + 1)..(e.size + Len(bytes))
        BY <1>1, <1>3, <2>1, <2>3
      <3> QED
        BY <2>2, <2>3, <3>1
    <2>4. CASE ~(i > e.size)
      <3>1. i \notin (e.size + 1)..(e.size + Len(bytes))
        BY <1>1, <1>3, <2>1, <2>4
      <3>2. g[a][i] = IF i <= Len(Bytes(h, e.buffptr)) THEN Bytes(h, e.buffptr)[i] ELSE Junk
        BY <1>4, <2>2, <3>1
      <3>3. CASE e.buffptr = Null
        <4>1. Len(Bytes(h, e.buffptr)) = 0
          BY <3>3 DEF Bytes
        <4>2. ~(i <= 0)
          BY <2>1
        <4> QED
          BY <2>4, <3>2, <3>3, <4>1, <4>2
      <3>4. CASE e.buffptr # Null
        <4>1. Bytes(h, e.buffptr) = h[e.buffptr] /\ Len(h[e.buffptr]) = e.size
          BY <3>4 DEF Bytes, Memory
        <4>2. i <= e.size
          BY <1>1, <2>1, <2>4
        <4> QED
          BY <2>4, <3>2, <3>4, <4>1, <4>2
      <3> QED
        BY <3>3, <3>4
    <2> QED
      BY <2>3, <2>4
  <1>10. /\ \A i \in Slots : c.entry[i].buffptr # Null =>
              /\ c.entry[i].buffptr \in Addrs \ {a, e.buffptr}
              /\ g[c.entry[i].buffptr] = h[c.entry[i].buffptr]
         /\ \A t \in Tasks : k[t] # Null =>
              k[t] \in Addrs \ {a, e.buffptr} /\ g[k[t]] = h[k[t]]
    <2>1. ASSUME NEW i \in Slots, c.entry[i].buffptr # Null
          PROVE  /\ c.entry[i].buffptr \in Addrs \ {a, e.buffptr}
                 /\ g[c.entry[i].buffptr] = h[c.entry[i].buffptr]
      <3>1. /\ c.entry[i].buffptr \in Addrs /\ h[c.entry[i].buffptr] # <<>>
            /\ c.entry[i].buffptr # e.buffptr
        BY <1>1, <2>1, RingEntries DEF Memory, Apart
      <3> QED
        BY <1>2, <1>8, <3>1
    <2>2. ASSUME NEW t \in Tasks, k[t] # Null
          PROVE  k[t] \in Addrs \ {a, e.buffptr} /\ g[k[t]] = h[k[t]]
      <3>1. k[t] \in Addrs /\ h[k[t]] # <<>> /\ k[t] # e.buffptr
        BY <1>1, <2>2 DEF Memory, Apart
      <3> QED
        BY <1>2, <1>8, <3>1
    <2> QED
      BY <2>1, <2>2
  <1>11. d.buffptr = a /\ d.size = n /\ d \in [buffptr : Addrs \cup {Null}, size : Nat]
    BY <1>2, <1>3 DEF Grown
  <1> HIDE DEF d, n
  <1>12. a # Null
    BY <1>2, AesdCharAssumption
  <1>13. Apart(c, k, d, g)
    <2>1. ASSUME NEW i \in Slots, c.entry[i].buffptr # Null
          PROVE  /\ g[c.entry[i].buffptr] # <<>>
                 /\ \A j \in Slots \ {i} : c.entry[j].buffptr # c.entry[i].buffptr
                 /\ \A u \in Tasks : k[u] # c.entry[i].buffptr
                 /\ d.buffptr # c.entry[i].buffptr
      BY <1>10, <1>11, <2>1 DEF Memory, Apart
    <2>2. ASSUME NEW u \in Tasks, k[u] # Null
          PROVE  /\ g[k[u]] # <<>>
                 /\ \A v \in Tasks \ {u} : k[v] # k[u]
                 /\ d.buffptr # k[u]
      BY <1>10, <1>11, <2>2 DEF Memory, Apart
    <2>3. g[d.buffptr] # <<>>
      BY <1>7, <1>11
    <2> QED
      BY <2>1, <2>2, <2>3 DEF Apart
  <1>14. \A i \in Slots : c.entry[i] # NoEntry => Len(g[c.entry[i].buffptr]) = c.entry[i].size
    BY <1>1, <1>10, RingEntries DEF Memory
  <1>15. Memory(c, k, d, g)
    BY <1>6, <1>7, <1>11, <1>13, <1>14 DEF Memory
  <1>16. GrownHeap(h, e, a, bytes) = g
    BY DEF GrownHeap, g, r, n
  <1>17. \A i \in Slots : c.entry[i].buffptr # a
    BY <1>10, <1>12
  <1> QED
    BY <1>2, <1>7, <1>8, <1>9, <1>10, <1>15, <1>16, <1>17 DEF n, d, Growth

\* d and g are c and h once the entry e is in the ring and the block of the entry
\* it overwrites is freed.
Committed(c, k, e, h, d, g) ==
  /\ Memory(d, k, NoEntry, g)
  /\ e \in Entry /\ Overwritten(c) \in Addrs \cup {Null}
  /\ Overwritten(c) # e.buffptr
  /\ \A t \in Tasks : k[t] # Null => g[k[t]] = h[k[t]]
  /\ \A b \in Addrs : g[b] = IF b = Overwritten(c) THEN <<>> ELSE h[b]
  /\ \A i \in Slots :
       /\ d.entry[i] = IF i = c.in_offs THEN e ELSE c.entry[i]
       /\ d.entry[i].buffptr # Null => g[d.entry[i].buffptr] = h[d.entry[i].buffptr]

\* A complete command goes into the ring: nothing refers any more to the block of
\* the entry it overwrites.
LEMMA CommitEntry ==
  ASSUME NEW c, NEW k, NEW e, NEW h, Memory(c, k, e, h), e.buffptr # Null
  PROVE  Committed(c, k, e, h, aesd_circular_buffer_add_entry(c, e),
                   kfree(h, Overwritten(c)))
  <1> DEFINE o == Overwritten(c)
             g == kfree(h, o)
             d == aesd_circular_buffer_add_entry(c, e)
  <1>1. /\ h \in Heaps /\ e.buffptr \in Addrs /\ e.size \in Nat
        /\ k \in [Tasks -> Addrs \cup {Null}] /\ c \in BufferOf(Entry)
        /\ IsRing(c, Entry)
    BY DEF Memory
  <1>2. e.size # 0
    <2>1. h[e.buffptr] \in Seq(KernelBytes) /\ h[e.buffptr] # <<>>
          /\ Len(h[e.buffptr]) = e.size
      BY <1>1 DEF Memory, Apart, Heaps
    <2> QED
      BY <2>1
  <1>3. e \in Entry
    <2>1. e = [buffptr |-> e.buffptr, size |-> e.size]
      BY DEF Memory
    <2> QED
      BY <1>1, <1>2, <2>1 DEF Entry
  <1>4. d \in BufferOf(Entry) /\ IsRing(d, Entry)
    <2>1. \A x \in Entry : x.size \in Nat \ {0}
      BY DEF Entry
    <2> QED
      BY <1>1, <1>3, <2>1, AddKeepsRing
  <1>5. c.in_offs \in Slots /\ c.entry \in [Slots -> Entry \cup {NoEntry}]
    BY <1>1 DEF BufferOf
  <1>6. \A i \in Slots : d.entry[i] = IF i = c.in_offs THEN e ELSE c.entry[i]
    BY <1>5 DEF aesd_circular_buffer_add_entry
  <1>7. o = IF c.full THEN c.entry[c.in_offs].buffptr ELSE Null
    BY DEF Overwritten
  <1>8. o \in Addrs \cup {Null}
    BY <1>1, <1>5, <1>7, RingEntries
  <1>9. g \in Heaps /\ \A b \in Addrs : g[b] = IF b = o THEN <<>> ELSE h[b]
    BY <1>1, <1>8, KfreeHeap
  <1> HIDE DEF o, g, d
  <1>10. o # e.buffptr
    BY <1>1, <1>5, <1>7, AesdCharAssumption DEF Memory, Apart
  <1>11. \A t \in Tasks : k[t] # Null => k[t] # o /\ g[k[t]] = h[k[t]]
    BY <1>1, <1>5, <1>7, <1>9 DEF Memory, Apart
  <1>12. ASSUME NEW i \in Slots, d.entry[i].buffptr # Null
         PROVE  g[d.entry[i].buffptr] = h[d.entry[i].buffptr]
    <2>1. CASE i = c.in_offs
      BY <1>1, <1>6, <1>9, <1>10, <2>1
    <2>2. CASE i # c.in_offs
      <3>1. d.entry[i] = c.entry[i] /\ c.entry[i].buffptr \in Addrs
        BY <1>1, <1>6, <1>12, <2>2, RingEntries
      <3>2. c.entry[i].buffptr # o
        BY <1>5, <1>7, <1>12, <2>2, <3>1 DEF Memory, Apart
      <3> QED
        BY <1>9, <3>1, <3>2
    <2> QED
      BY <2>1, <2>2
  <1>13. NoEntry.buffptr = Null /\ NoEntry \in [buffptr : Addrs \cup {Null}, size : Nat]
    BY DEF NoEntry
  <1>14. Apart(d, k, NoEntry, g)
    <2>1. ASSUME NEW i \in Slots, d.entry[i].buffptr # Null
          PROVE  /\ g[d.entry[i].buffptr] # <<>>
                 /\ \A j \in Slots \ {i} : d.entry[j].buffptr # d.entry[i].buffptr
                 /\ \A u \in Tasks : k[u] # d.entry[i].buffptr
      <3>1. g[d.entry[i].buffptr] = h[d.entry[i].buffptr]
        BY <1>12, <2>1
      <3>2. CASE i = c.in_offs
        BY <1>1, <1>6, <2>1, <3>1, <3>2 DEF Memory, Apart
      <3>3. CASE i # c.in_offs
        BY <1>6, <2>1, <3>1, <3>3 DEF Memory, Apart
      <3> QED
        BY <3>2, <3>3
    <2>2. ASSUME NEW u \in Tasks, k[u] # Null
          PROVE  g[k[u]] # <<>> /\ \A v \in Tasks \ {u} : k[v] # k[u]
      BY <1>11, <2>2 DEF Memory, Apart
    <2> QED
      BY <1>13, <2>1, <2>2 DEF Apart
  <1>15. \A i \in Slots : d.entry[i] # NoEntry => Len(g[d.entry[i].buffptr]) = d.entry[i].size
    <2> SUFFICES ASSUME NEW i \in Slots, d.entry[i] # NoEntry
                 PROVE  Len(g[d.entry[i].buffptr]) = d.entry[i].size
      OBVIOUS
    <2>1. g[d.entry[i].buffptr] = h[d.entry[i].buffptr]
      BY <1>4, <1>12, RingEntries
    <2>2. CASE i = c.in_offs
      BY <1>6, <2>1, <2>2 DEF Memory
    <2>3. CASE i # c.in_offs
      BY <1>6, <2>1, <2>3 DEF Memory
    <2> QED
      BY <2>2, <2>3
  <1>16. Memory(d, k, NoEntry, g)
    BY <1>1, <1>4, <1>9, <1>13, <1>14, <1>15 DEF Memory
  <1> QED
    BY <1>3, <1>6, <1>8, <1>9, <1>10, <1>11, <1>12, <1>16 DEF o, g, d, Committed

\* g is h once the remainder of a write is in the block a.
Stored(c, k, h, a, rest, g) ==
  /\ Memory(c, k, [buffptr |-> a, size |-> Len(rest)], g)
  /\ a \in Addrs /\ g[a] = rest
  /\ \A b \in Addrs \ {a} : g[b] = h[b]
  /\ \A t \in Tasks : k[t] # Null => g[k[t]] = h[k[t]]
  /\ \A i \in Slots : c.entry[i].buffptr # Null =>
       c.entry[i].buffptr # a /\ g[c.entry[i].buffptr] = h[c.entry[i].buffptr]

\* The remainder of a write starts the next command, in a new block.
LEMMA StoreRest ==
  ASSUME NEW c, NEW k, NEW h, Memory(c, k, NoEntry, h), NEW a \in FreeBlocks(h),
         NEW rest \in Seq(KernelBytes), rest # <<>>
  PROVE  Stored(c, k, h, a, rest, memcpy(kmalloc(h, a, Len(rest)), a, 0, rest))
  <1> DEFINE m == kmalloc(h, a, Len(rest))
             g == memcpy(m, a, 0, rest)
             d == [buffptr |-> a, size |-> Len(rest)]
  <1>1. /\ h \in Heaps /\ a \in Addrs /\ h[a] = <<>> /\ c \in BufferOf(Entry)
        /\ k \in [Tasks -> Addrs \cup {Null}]
    BY DEF Memory, FreeBlocks
  <1>2. Len(rest) \in Nat /\ Len(rest) > 0
    OBVIOUS
  <1>3. m \in Heaps /\ Len(m[a]) = Len(rest) /\ \A b \in Addrs \ {a} : m[b] = h[b]
    BY <1>1, <1>2, KmallocHeap
  <1> HIDE DEF m
  <1>4. /\ g \in Heaps /\ Len(g[a]) = Len(m[a])
        /\ \A i \in 1..Len(m[a]) :
             g[a][i] = IF i \in (0 + 1)..(0 + Len(rest)) THEN rest[i - 0] ELSE m[a][i]
        /\ \A b \in Addrs \ {a} : g[b] = m[b]
    <2>1. 0 + Len(rest) <= Len(m[a])
      BY <1>2, <1>3
    <2> QED
      BY <1>1, <1>3, <2>1, MemcpyHeap
  <1> HIDE DEF g
  <1>5. g[a] = rest
    <2>1. g[a] \in Seq(KernelBytes)
      BY <1>1, <1>4 DEF Heaps
    <2>2. \A i \in 1..Len(rest) : g[a][i] = rest[i]
      BY <1>2, <1>3, <1>4
    <2> QED
      BY <1>3, <1>4, <2>1, <2>2, SeqEqual
  <1>6. \A b \in Addrs \ {a} : g[b] = h[b]
    BY <1>3, <1>4
  <1>7. /\ \A i \in Slots : c.entry[i].buffptr # Null =>
             c.entry[i].buffptr # a /\ g[c.entry[i].buffptr] = h[c.entry[i].buffptr]
        /\ \A t \in Tasks : k[t] # Null => k[t] # a /\ g[k[t]] = h[k[t]]
    BY <1>1, <1>6, RingEntries DEF Memory, Apart
  <1>8. d.buffptr = a /\ d.size = Len(rest) /\ d \in [buffptr : Addrs \cup {Null}, size : Nat]
    BY <1>1, <1>2
  <1> HIDE DEF d
  <1>9. Apart(c, k, d, g)
    <2>1. ASSUME NEW i \in Slots, c.entry[i].buffptr # Null
          PROVE  /\ g[c.entry[i].buffptr] # <<>>
                 /\ \A j \in Slots \ {i} : c.entry[j].buffptr # c.entry[i].buffptr
                 /\ \A u \in Tasks : k[u] # c.entry[i].buffptr
                 /\ d.buffptr # c.entry[i].buffptr
      BY <1>7, <1>8, <2>1 DEF Memory, Apart
    <2>2. ASSUME NEW u \in Tasks, k[u] # Null
          PROVE  /\ g[k[u]] # <<>>
                 /\ \A v \in Tasks \ {u} : k[v] # k[u]
                 /\ d.buffptr # k[u]
      BY <1>7, <1>8, <2>2 DEF Memory, Apart
    <2>3. g[d.buffptr] # <<>>
      BY <1>5, <1>8
    <2> QED
      BY <2>1, <2>2, <2>3 DEF Apart
  <1>10. \A i \in Slots : c.entry[i] # NoEntry => Len(g[c.entry[i].buffptr]) = c.entry[i].size
    BY <1>1, <1>7, RingEntries DEF Memory
  <1>11. Memory(c, k, d, g)
    BY <1>4, <1>5, <1>8, <1>9, <1>10 DEF Memory
  <1> QED
    BY <1>1, <1>5, <1>6, <1>7, <1>11 DEF g, m, d, Stored

-----------------------------------------------------------------------------

\* What aesd_read has found under the lock for the position p and the count n: a
\* byte of the k-th oldest entry of the ring c, and how much to copy from there.
Found(c, p, n, s) ==
  \E k \in Slots :
    LET left == SizeOfFirst(c, k + 1) - p
    IN  /\ k < num_entries(c)
        /\ SizeOfFirst(c, k) <= p /\ p < SizeOfFirst(c, k + 1)
        /\ s = [slot |-> SlotAt(c, k), offset |-> p - SizeOfFirst(c, k),
                len |-> IF left > n THEN n ELSE left]

\* What a task knows at each place of a call. A kbuf holds the user's bytes once
\* they are copied, and what a read has found is there as long as it has the lock.
TaskInv(t) ==
  /\ kbuf[t] # Null => pc[t] \in {"write_copy", "write_append", "write_return"}
  /\ pc[t] \in {"write_lock", "write_copy", "write_append"} =>
       call[t].chunk \in Chunks /\ call[t].chunk # <<>>
  /\ pc[t] \in {"write_copy", "write_append"} =>
       kbuf[t] # Null /\ Len(heap[kbuf[t]]) = Len(call[t].chunk)
  /\ pc[t] = "write_append" => heap[kbuf[t]] = call[t].chunk
  /\ pc[t] \in {"read_lock", "read_copy"} => call[t].count \in Nat \ {0}
  /\ pc[t] = "llseek" => call[t].seek \in Seeks
  /\ pc[t] = "ioctl" => call[t].seekto \in SeekTos
  /\ pc[t] = "read_copy" => Found(c_buffer, pos[t], call[t].count, src[t])

LocalTypes ==
  /\ f_pos \in [Files -> Nat]
  /\ pos \in [Tasks -> Nat]
  /\ src \in [Tasks -> [slot : Slots, offset : Nat, len : Nat]]
  /\ ubuf \in [Tasks -> Seq(KernelBytes)]
  /\ ret \in [Tasks -> Int]

\* The inductive invariant of the driver.
DriverInv ==
  /\ LockInv
  /\ loaded \in BOOLEAN /\ open \subseteq Files /\ buffer_lock \in Tasks \cup {NoTask}
  /\ Memory(c_buffer, kbuf, current_entry, heap)
  /\ LocalTypes
  /\ \A t \in Tasks : TaskInv(t)

\* A task that does not run still knows what it knew.
LEMMA OtherTaskKeeps ==
  ASSUME NEW u \in Tasks, TaskInv(u), pc'[u] = pc[u], call'[u] = call[u],
         kbuf'[u] = kbuf[u], pos'[u] = pos[u], src'[u] = src[u],
         pc[u] = "read_copy" => c_buffer' = c_buffer,
         pc[u] \in {"write_copy", "write_append"} => heap'[kbuf[u]] = heap[kbuf[u]]
  PROVE  TaskInv(u)'
  BY DEF TaskInv

\* A task that returns from a call to user space knows nothing.
LEMMA IdleTaskKeeps ==
  ASSUME NEW t \in Tasks, pc'[t] = "idle", kbuf'[t] = Null
  PROVE  TaskInv(t)'
  BY DEF TaskInv

\* What a step of the task t leaves alone of what the other tasks know.
OthersKeep(t) ==
  \A u \in Tasks \ {t} :
    /\ pc'[u] = pc[u] /\ call'[u] = call[u] /\ kbuf'[u] = kbuf[u]
    /\ pos'[u] = pos[u] /\ src'[u] = src[u]
    /\ pc[u] = "read_copy" => c_buffer' = c_buffer
    /\ pc[u] \in {"write_copy", "write_append"} => heap'[kbuf[u]] = heap[kbuf[u]]

\* A step of one task keeps the invariant if it keeps the memory, the types and
\* what the task itself knows.
LEMMA TaskStepKeeps ==
  ASSUME DriverInv, NEW t \in Tasks, LockInv', OthersKeep(t), TaskInv(t)',
         Memory(c_buffer, kbuf, current_entry, heap)', LocalTypes',
         UNCHANGED <<loaded, open>>, buffer_lock' \in Tasks \cup {NoTask}
  PROVE  DriverInv'
  <1>1. ASSUME NEW u \in Tasks PROVE TaskInv(u)'
    <2>1. CASE u = t
      BY <2>1
    <2>2. CASE u # t
      BY <2>2, OtherTaskKeeps DEF DriverInv, OthersKeep
    <2> QED
      BY <2>1, <2>2
  <1> QED
    BY <1>1 DEF DriverInv

\* An empty ring and no command being assembled, with no kbuf, fit any heap.
LEMMA EmptyMemory ==
  ASSUME NEW k \in [Tasks -> Addrs \cup {Null}], NEW h \in Heaps,
         \A t \in Tasks : k[t] = Null
  PROVE  Memory(aesd_circular_buffer_init, k, NoEntry, h)
  <1> DEFINE c == aesd_circular_buffer_init
  <1>1. /\ c.in_offs = 0 /\ c.out_offs = 0 /\ c.full = FALSE
        /\ c.entry = [i \in Slots |-> NoEntry]
        /\ c \in BufferOf(Entry)
    BY MaxWritesAssumption DEF aesd_circular_buffer_init, BufferOf, Slots
  <1>2. IsRing(c, Entry)
    BY <1>1 DEF IsRing, Slots
  <1>3. NoEntry.buffptr = Null /\ NoEntry.size = 0
    BY DEF NoEntry
  <1>4. Apart(c, k, NoEntry, h)
    BY <1>1, <1>3 DEF Apart
  <1>5. NoEntry \in [buffptr : Addrs \cup {Null}, size : Nat]
    BY DEF NoEntry
  <1> HIDE DEF c
  <1> QED
    BY <1>1, <1>2, <1>3, <1>4, <1>5 DEF Memory, c

\* No call is under way while no file is open.
LEMMA AllIdle ==
  ASSUME DriverInv, open = {}
  PROVE  \A t \in Tasks : pc[t] = "idle" /\ kbuf[t] = Null
  BY DEF DriverInv, LockInv, TaskInv

\* Loading and unloading the module, opening and closing a file.
LEMMA ModuleStepKeeps ==
  ASSUME DriverInv, LockInv',
         \/ UNCHANGED vars
         \/ aesd_init_module \/ aesd_cleanup_module
         \/ \E f \in Files : aesd_open(f) \/ aesd_release(f)
  PROVE  DriverInv'
  <1>1. CASE UNCHANGED vars
    BY <1>1 DEF vars, DriverInv, LocalTypes, TaskInv
  <1>2. CASE aesd_init_module
    <2>1. \A t \in Tasks : pc[t] = "idle" /\ kbuf[t] = Null
      BY <1>2, AllIdle DEF aesd_init_module, DriverInv, LockInv
    <2>2. Memory(c_buffer, kbuf, current_entry, heap)'
      BY <1>2, <2>1, EmptyMemory DEF aesd_init_module, DriverInv, Memory, locals
    <2>3. \A t \in Tasks : TaskInv(t)'
      BY <1>2, <2>1, IdleTaskKeeps DEF aesd_init_module, locals
    <2> QED
      BY <1>2, <2>2, <2>3 DEF aesd_init_module, DriverInv, LocalTypes, locals
  <1>3. CASE aesd_cleanup_module
    <2>1. \A t \in Tasks : pc[t] = "idle" /\ kbuf[t] = Null
      BY <1>3, AllIdle DEF aesd_cleanup_module
    <2>2. FreeEntries \in Heaps
      BY <1>3 DEF FreeEntries, Heaps, DriverInv, Memory
    <2>3. Memory(c_buffer, kbuf, current_entry, heap)'
      BY <1>3, <2>1, <2>2, EmptyMemory DEF aesd_cleanup_module, DriverInv, Memory, locals
    <2>4. \A t \in Tasks : TaskInv(t)'
      BY <1>3, <2>1, IdleTaskKeeps DEF aesd_cleanup_module, locals
    <2> QED
      BY <1>3, <2>3, <2>4 DEF aesd_cleanup_module, DriverInv, LocalTypes, locals
  <1>4. ASSUME NEW f \in Files, aesd_open(f) \/ aesd_release(f) PROVE DriverInv'
    <2>1. /\ UNCHANGED <<device, buffer_lock, heap, pc, call, locals>>
          /\ f_pos' = [f_pos EXCEPT ![f] = 0]
          /\ open' \subseteq Files
      BY <1>4 DEF aesd_open, aesd_release, DriverInv
    <2>2. \A t \in Tasks : TaskInv(t)'
      BY <2>1 DEF device, locals, DriverInv, TaskInv
    <2>3. LocalTypes'
      BY <2>1 DEF locals, DriverInv, LocalTypes
    <2> QED
      BY <2>1, <2>2, <2>3 DEF device, locals, DriverInv
  <1> QED
    BY <1>1, <1>2, <1>3, <1>4

\* The start of a call.
LEMMA CallKeeps ==
  ASSUME DriverInv, LockInv', NEW t \in Tasks, Call(t)
  PROVE  DriverInv'
  <1>1. ASSUME NEW args, NEW where, Enter(t, args, where),
               UNCHANGED <<device, open, f_pos, buffer_lock, heap, kbuf, src, ubuf>>,
               NEW p \in Nat, pos' = [pos EXCEPT ![t] = p] \/ UNCHANGED pos,
               NEW r \in Int, ret' = [ret EXCEPT ![t] = r] \/ UNCHANGED ret,
               where \in {"read_lock", "read_return", "write_lock", "write_return",
                          "llseek", "ioctl"},
               where = "read_lock" => args.count \in Nat \ {0},
               where = "write_lock" => args.chunk \in Chunks /\ args.chunk # <<>>,
               where = "llseek" => args.seek \in Seeks,
               where = "ioctl" => args.seekto \in SeekTos
        PROVE  DriverInv'
    <2>1. pc[t] = "idle" /\ kbuf[t] = Null
      BY <1>1 DEF Enter, DriverInv, TaskInv
    <2>2. pc'[t] = where /\ call'[t] = args
      BY <1>1 DEF Enter, goto, DriverInv, LockInv
    <2>3. OthersKeep(t)
      BY <1>1 DEF Enter, goto, DriverInv, LockInv, LocalTypes, device, OthersKeep
    <2>4. TaskInv(t)'
      BY <1>1, <2>1, <2>2 DEF TaskInv
    <2>5. LocalTypes'
      BY <1>1 DEF DriverInv, LocalTypes
    <2>6. Memory(c_buffer, kbuf, current_entry, heap)'
      BY <1>1 DEF DriverInv, device
    <2> QED
      BY <1>1, <2>3, <2>4, <2>5, <2>6, TaskStepKeeps DEF DriverInv, device
  <1>2. ASSUME NEW f \in Files, NEW count \in Counts, CallRead(t, f, count)
        PROVE  DriverInv'
    <2> DEFINE args == [NoCall EXCEPT !.file = f, !.count = count]
               where == IF count = 0 THEN "read_return" ELSE "read_lock"
               r == IF count = 0 THEN EINVAL ELSE 0
    <2>1. args.count = count /\ count \in Nat /\ f_pos[f] \in Nat /\ EINVAL \in Int
      BY AesdCharAssumption DEF NoCall, DriverInv, LocalTypes, EINVAL
    <2>2. /\ Enter(t, args, where) /\ pos' = [pos EXCEPT ![t] = f_pos[f]]
          /\ UNCHANGED <<device, open, f_pos, buffer_lock, heap, kbuf, src, ubuf>>
      BY <1>2 DEF CallRead
    <2>3. ret' = [ret EXCEPT ![t] = r] /\ r \in Int
      BY <1>2, <2>1 DEF CallRead
    <2>4. /\ where \in {"read_lock", "read_return"}
          /\ where = "read_lock" => count # 0
      OBVIOUS
    <2> HIDE DEF args, where, r
    <2> QED
      BY <1>1, <2>1, <2>2, <2>3, <2>4
  <1>3. ASSUME NEW f \in Files, NEW chunk \in Chunks, CallWrite(t, f, chunk)
        PROVE  DriverInv'
    <2> DEFINE args == [NoCall EXCEPT !.file = f, !.chunk = chunk]
               where == IF chunk = <<>> THEN "write_return" ELSE "write_lock"
               r == IF chunk = <<>> THEN EINVAL ELSE 0
    <2>1. args.chunk = chunk /\ f_pos[f] \in Nat /\ EINVAL \in Int
      BY DEF NoCall, DriverInv, LocalTypes, EINVAL
    <2>2. /\ Enter(t, args, where) /\ pos' = [pos EXCEPT ![t] = f_pos[f]]
          /\ UNCHANGED <<device, open, f_pos, buffer_lock, heap, kbuf, src, ubuf>>
      BY <1>3 DEF CallWrite
    <2>3. ret' = [ret EXCEPT ![t] = r] /\ r \in Int
      BY <1>3, <2>1 DEF CallWrite
    <2>4. /\ where \in {"write_lock", "write_return"}
          /\ where = "write_lock" => chunk # <<>>
      OBVIOUS
    <2> HIDE DEF args, where, r
    <2> QED
      BY <1>1, <2>1, <2>2, <2>3, <2>4
  <1>4. ASSUME NEW f \in Files, NEW seek \in Seeks, CallLlseek(t, f, seek)
        PROVE  DriverInv'
    <2> DEFINE args == [NoCall EXCEPT !.file = f, !.seek = seek]
    <2>1. args.seek = seek /\ 0 \in Nat /\ 0 \in Int
      BY DEF NoCall
    <2>2. /\ Enter(t, args, "llseek") /\ UNCHANGED pos /\ UNCHANGED ret
          /\ UNCHANGED <<device, open, f_pos, buffer_lock, heap, kbuf, src, ubuf>>
      BY <1>4 DEF CallLlseek, locals
    <2> HIDE DEF args
    <2> QED
      BY <1>1, <2>1, <2>2
  <1>5. ASSUME NEW f \in Files, NEW seekto \in SeekTos, CallIoctl(t, f, seekto)
        PROVE  DriverInv'
    <2> DEFINE args == [NoCall EXCEPT !.file = f, !.seekto = seekto]
    <2>1. args.seekto = seekto /\ 0 \in Nat /\ 0 \in Int
      BY DEF NoCall
    <2>2. /\ Enter(t, args, "ioctl") /\ UNCHANGED pos /\ UNCHANGED ret
          /\ UNCHANGED <<device, open, f_pos, buffer_lock, heap, kbuf, src, ubuf>>
      BY <1>5 DEF CallIoctl, locals
    <2> HIDE DEF args
    <2> QED
      BY <1>1, <2>1, <2>2
  <1> QED
    BY <1>2, <1>3, <1>4, <1>5 DEF Call

\* A call that gives up in mutex_lock_interruptible.
LEMMA InterruptKeeps ==
  ASSUME DriverInv, LockInv', NEW t \in Tasks, Interrupted(t)
  PROVE  DriverInv'
  <1>1. /\ UNCHANGED <<device, open, f_pos, buffer_lock, heap, pos, kbuf, src, ubuf>>
        /\ ret' = [ret EXCEPT ![t] = ERESTARTSYS] \/ UNCHANGED ret
        /\ kbuf[t] = Null
    BY DEF Interrupted, DriverInv, TaskInv
  <1>2. OthersKeep(t) /\ pc'[t] \in {"read_return", "write_return", "idle"}
    BY DEF Interrupted, Leave, goto, DriverInv, LockInv, device, OthersKeep
  <1>3. TaskInv(t)'
    BY <1>1, <1>2 DEF TaskInv
  <1>4. LocalTypes'
    <2>1. ret \in [Tasks -> Int] /\ ERESTARTSYS \in Int
      BY DEF DriverInv, LocalTypes, ERESTARTSYS
    <2>2. ret' \in [Tasks -> Int]
      BY <1>1, <2>1
    <2> QED
      BY <1>1, <2>2 DEF DriverInv, LocalTypes
  <1>5. Memory(c_buffer, kbuf, current_entry, heap)'
    BY <1>1 DEF DriverInv, device
  <1> QED
    BY <1>1, <1>2, <1>3, <1>4, <1>5, TaskStepKeeps DEF DriverInv, device

\* The entries of the ring have a size.
LEMMA EntrySizes == \A x \in Entry : x.size \in Nat \ {0}
  BY DEF Entry

\* What aesd_read finds in the ring c for the position p and the count n.
LEMMA FindFound ==
  ASSUME NEW c \in BufferOf(Entry), IsRing(c, Entry), NEW p \in Nat, NEW n \in Nat,
         NEW hit, hit = aesd_circular_buffer_find_entry_offset_for_fpos(c, p),
         hit # NotFound
  PROVE  LET left == c.entry[hit.slot].size - hit.offset
             s    == [slot |-> hit.slot, offset |-> hit.offset,
                      len |-> IF left > n THEN n ELSE left]
         IN  Found(c, p, n, s) /\ s \in [slot : Slots, offset : Nat, len : Nat]
  <1>1. PICK k \in Slots :
          /\ k < num_entries(c)
          /\ SizeOfFirst(c, k) <= p /\ p < SizeOfFirst(c, k + 1)
          /\ hit = [slot |-> SlotAt(c, k), offset |-> p - SizeOfFirst(c, k)]
    BY EntrySizes, LookupIsSound
  <1>2. c.out_offs \in Slots /\ (\A i \in Slots : c.entry[i].size \in Nat) /\ SlotAt(c, k) \in Slots
    BY EntrySizes, SizesByAge
  <1>3. k \in Nat
    BY MaxWritesAssumption DEF Slots
  <1>4. /\ SizeOfFirst(c, k) \in Nat /\ SizeOfFirst(c, k + 1) \in Nat
        /\ SizeOfFirst(c, k + 1) = SizeOfFirst(c, k) + c.entry[SlotAt(c, k)].size
    BY <1>2, <1>3, SizeOfFirstAdds
  <1> DEFINE a == SizeOfFirst(c, k)
             b == SizeOfFirst(c, k + 1)
             z == c.entry[SlotAt(c, k)].size
             left == b - p
             s == [slot |-> SlotAt(c, k), offset |-> p - a,
                   len |-> IF left > n THEN n ELSE left]
  <1>5. hit.slot = SlotAt(c, k) /\ hit.offset = p - a /\ c.entry[hit.slot].size = z
    BY <1>1
  <1>6. z - (p - a) = left /\ left \in Nat /\ p - a \in Nat
    <2>1. a \in Nat /\ b \in Nat /\ z \in Nat /\ b = a + z /\ a <= p /\ p < b
      BY <1>1, <1>2, <1>4
    <2> HIDE DEF a, b, z
    <2> QED
      BY <2>1
  <1>7. Found(c, p, n, s)
    BY <1>1 DEF Found
  <1>8. s \in [slot : Slots, offset : Nat, len : Nat]
    BY <1>2, <1>6
  <1>9. s = [slot |-> hit.slot, offset |-> hit.offset,
             len |-> IF c.entry[hit.slot].size - hit.offset > n THEN n
                     ELSE c.entry[hit.slot].size - hit.offset]
    BY <1>5, <1>6
  <1> QED
    BY <1>7, <1>8, <1>9

\* aesd_read takes the lock and finds the entry.
LEMMA ReadFindKeeps ==
  ASSUME DriverInv, LockInv', NEW t \in Tasks, ReadFind(t)
  PROVE  DriverInv'
  <1> DEFINE hit == aesd_circular_buffer_find_entry_offset_for_fpos(c_buffer, pos[t])
             left == c_buffer.entry[hit.slot].size - hit.offset
             s == [slot |-> hit.slot, offset |-> hit.offset,
                   len |-> IF left > call[t].count THEN call[t].count ELSE left]
  <1>1. /\ UNCHANGED <<device, open, f_pos, heap, call, pos, kbuf, ubuf, ret>>
        /\ pc[t] = "read_lock"
        /\ \/ /\ goto(t, "read_return") /\ UNCHANGED <<src, buffer_lock>>
           \/ /\ hit # NotFound /\ goto(t, "read_copy")
              /\ src' = [src EXCEPT ![t] = s] /\ buffer_lock' = t
    BY DEF ReadFind, KeepLock
  <1>2. /\ c_buffer \in BufferOf(Entry) /\ IsRing(c_buffer, Entry) /\ pos[t] \in Nat
        /\ call[t].count \in Nat \ {0} /\ kbuf[t] = Null
    BY <1>1 DEF DriverInv, Memory, LocalTypes, TaskInv
  <1>3. hit # NotFound => /\ Found(c_buffer, pos[t], call[t].count, s)
                          /\ s \in [slot : Slots, offset : Nat, len : Nat]
    BY <1>2, FindFound
  <1> HIDE DEF s, hit
  <1>4. OthersKeep(t)
    BY <1>1 DEF goto, DriverInv, LockInv, LocalTypes, device, OthersKeep
  <1>5. LocalTypes'
    BY <1>1, <1>3 DEF DriverInv, LocalTypes
  <1>6. Memory(c_buffer, kbuf, current_entry, heap)'
    BY <1>1 DEF DriverInv, device
  <1>7. TaskInv(t)'
    <2>1. CASE goto(t, "read_return")
      BY <1>1, <1>2, <2>1 DEF goto, DriverInv, LockInv, TaskInv
    <2>2. CASE /\ hit # NotFound /\ goto(t, "read_copy")
               /\ src' = [src EXCEPT ![t] = s]
      <3>1. pc'[t] = "read_copy" /\ src'[t] = s
        BY <2>2 DEF goto, DriverInv, LockInv, LocalTypes
      <3>2. Found(c_buffer, pos[t], call[t].count, src[t])'
        BY <1>1, <1>3, <2>2, <3>1 DEF device
      <3> QED
        BY <1>1, <1>2, <3>1, <3>2 DEF TaskInv
    <2> QED
      BY <1>1, <2>1, <2>2
  <1> QED
    BY <1>1, <1>4, <1>5, <1>6, <1>7, TaskStepKeeps DEF DriverInv, device

\* What aesd_read has found is part of the block of the entry.
LEMMA FoundInBlock ==
  ASSUME NEW c, NEW k, NEW e, NEW h, Memory(c, k, e, h),
         NEW p \in Nat, NEW n \in Nat \ {0}, NEW s, Found(c, p, n, s)
  PROVE  /\ s.slot \in Slots /\ c.entry[s.slot] \in Entry
         /\ h[c.entry[s.slot].buffptr] \in Seq(KernelBytes)
         /\ Len(h[c.entry[s.slot].buffptr]) = c.entry[s.slot].size
         /\ s.offset \in Nat /\ s.len \in 1..n
         /\ s.offset + s.len <= c.entry[s.slot].size
  <1>1. PICK i \in Slots :
          /\ i < num_entries(c)
          /\ SizeOfFirst(c, i) <= p /\ p < SizeOfFirst(c, i + 1)
          /\ s = [slot |-> SlotAt(c, i), offset |-> p - SizeOfFirst(c, i),
                  len |-> IF SizeOfFirst(c, i + 1) - p > n THEN n ELSE SizeOfFirst(c, i + 1) - p]
    BY DEF Found
  <1>2. /\ c.out_offs \in Slots /\ (\A j \in Slots : c.entry[j].size \in Nat)
        /\ SlotAt(c, i) \in Slots /\ c.entry[SlotAt(c, i)] \in Entry
    BY <1>1, EntrySizes, SizesByAge DEF Memory
  <1>3. i \in Nat
    BY MaxWritesAssumption DEF Slots
  <1>4. /\ SizeOfFirst(c, i) \in Nat /\ SizeOfFirst(c, i + 1) \in Nat
        /\ SizeOfFirst(c, i + 1) = SizeOfFirst(c, i) + c.entry[SlotAt(c, i)].size
    <2>1. \A m \in Nat : /\ SizeOfFirst(c, m) \in Nat
                         /\ SizeOfFirst(c, m + 1)
                              = SizeOfFirst(c, m) + c.entry[SlotAt(c, m)].size
      BY <1>2, SizeOfFirstAdds
    <2>2. i + 1 \in Nat
      BY <1>3
    <2> QED
      BY <1>3, <2>1, <2>2
  <1> DEFINE a == SizeOfFirst(c, i)
             b == SizeOfFirst(c, i + 1)
             z == c.entry[SlotAt(c, i)].size
  <1>5. a \in Nat /\ b \in Nat /\ z \in Nat /\ b = a + z /\ a <= p /\ p < b
    BY <1>1, <1>2, <1>4
  <1>6. s.slot = SlotAt(c, i) /\ s.offset = p - a /\ s.len = IF b - p > n THEN n ELSE b - p
    BY <1>1
  <1> HIDE DEF a, b
  <1>7. s.offset \in Nat /\ s.len \in 1..n /\ s.offset + s.len <= z
    <2> HIDE DEF z
    <2> QED
      BY <1>5, <1>6
  <1>8. c.entry[s.slot] \in Entry /\ c.entry[s.slot] # NoEntry
    BY <1>2, <1>6, EntrySizes DEF NoEntry
  <1>9. c.entry[s.slot].buffptr \in Addrs
    BY <1>8 DEF Entry
  <1> QED
    BY <1>2, <1>6, <1>7, <1>8, <1>9 DEF Memory, Heaps

\* copy_to_user of what was found.
LEMMA ReadCopyKeeps ==
  ASSUME DriverInv, LockInv', NEW t \in Tasks, ReadCopy(t)
  PROVE  DriverInv'
  <1> DEFINE from == src[t]
             block == heap[c_buffer.entry[from.slot].buffptr]
             out == SubSeq(block, from.offset + 1, from.offset + from.len)
  <1>1. /\ UNCHANGED <<device, open, f_pos, heap, call, kbuf>>
        /\ pc[t] = "read_copy" /\ goto(t, "read_return") /\ buffer_lock' = NoTask
        /\ src' = [src EXCEPT ![t] = NoSrc]
        /\ \/ /\ ubuf' = [ubuf EXCEPT ![t] = out]
              /\ pos' = [pos EXCEPT ![t] = @ + from.len]
              /\ ret' = [ret EXCEPT ![t] = from.len]
           \/ /\ ret' = [ret EXCEPT ![t] = EFAULT] /\ UNCHANGED <<ubuf, pos>>
    BY DEF ReadCopy, mutex_unlock
  <1>2. /\ pos[t] \in Nat /\ call[t].count \in Nat \ {0} /\ kbuf[t] = Null
        /\ Found(c_buffer, pos[t], call[t].count, from)
        /\ Memory(c_buffer, kbuf, current_entry, heap)
    BY <1>1 DEF DriverInv, LocalTypes, TaskInv
  <1>3. /\ block \in Seq(KernelBytes) /\ from.offset \in Nat
        /\ from.len \in 1..call[t].count
        /\ from.offset + from.len <= Len(block)
    <2> HIDE DEF from
    <2> QED
      BY <1>2, FoundInBlock
  <1>4. out \in Seq(KernelBytes) /\ from.len \in Nat
    <2> HIDE DEF from, block
    <2>1. from.len \in Nat
      BY <1>2, <1>3
    <2> QED
      BY <1>3, <2>1
  <1> HIDE DEF out, from, block
  <1>5. OthersKeep(t)
    BY <1>1 DEF goto, DriverInv, LockInv, LocalTypes, device, OthersKeep
  <1>6. LocalTypes'
    <2>1. NoSrc \in [slot : Slots, offset : Nat, len : Nat] /\ EFAULT \in Int
      BY MaxWritesAssumption DEF NoSrc, Slots, EFAULT
    <2>2. pos' \in [Tasks -> Nat]
      <3>0. pos \in [Tasks -> Nat]
        BY DEF DriverInv, LocalTypes
      <3>1. pos[t] + from.len \in Nat
        BY <1>2, <1>4
      <3>2. pos' = [pos EXCEPT ![t] = pos[t] + from.len] \/ pos' = pos
        BY <1>1
      <3> DEFINE total == pos[t] + from.len
      <3> HIDE DEF total
      <3>3. pos' = [pos EXCEPT ![t] = total] \/ pos' = pos
        BY <3>2 DEF total
      <3>4. total \in Nat
        BY <3>1 DEF total
      <3> QED
        BY <3>0, <3>3, <3>4
    <2>3. ubuf' \in [Tasks -> Seq(KernelBytes)]
      BY <1>1, <1>4 DEF DriverInv, LocalTypes
    <2>4. ret' \in [Tasks -> Int]
      <3>1. ret \in [Tasks -> Int] /\ from.len \in Int
        BY <1>4 DEF DriverInv, LocalTypes
      <3>2. ret' = [ret EXCEPT ![t] = from.len] \/ ret' = [ret EXCEPT ![t] = EFAULT]
        BY <1>1
      <3> QED
        BY <2>1, <3>1, <3>2
    <2>5. src' \in [Tasks -> [slot : Slots, offset : Nat, len : Nat]]
      <3>1. src \in [Tasks -> [slot : Slots, offset : Nat, len : Nat]]
        BY DEF DriverInv, LocalTypes
      <3>2. src' = [src EXCEPT ![t] = NoSrc]
        BY <1>1
      <3> QED
        BY <2>1, <3>1, <3>2
    <2>6. f_pos' \in [Files -> Nat]
      BY <1>1 DEF DriverInv, LocalTypes
    <2> QED
      BY <2>2, <2>3, <2>4, <2>5, <2>6 DEF LocalTypes
  <1>7. Memory(c_buffer, kbuf, current_entry, heap)'
    BY <1>1 DEF DriverInv, device
  <1>8. TaskInv(t)'
    BY <1>1, <1>2 DEF goto, DriverInv, LockInv, TaskInv
  <1> QED
    BY <1>1, <1>5, <1>6, <1>7, <1>8, TaskStepKeeps DEF DriverInv, device

\* The end of a read.
LEMMA ReadReturnKeeps ==
  ASSUME DriverInv, LockInv', NEW t \in Tasks, ReadReturn(t)
  PROVE  DriverInv'
  <1>1. /\ UNCHANGED <<device, open, buffer_lock, heap, kbuf, src>>
        /\ pc[t] = "read_return" /\ goto(t, "idle")
        /\ call' = [call EXCEPT ![t] = NoCall]
        /\ pos' = [pos EXCEPT ![t] = 0] /\ ret' = [ret EXCEPT ![t] = 0]
        /\ f_pos' = IF ret[t] >= 0 THEN [f_pos EXCEPT ![call[t].file] = pos[t]] ELSE f_pos
        /\ ubuf' = [ubuf EXCEPT ![t] = <<>>]
    BY DEF ReadReturn, VfsReturn, Leave
  <1>2. OthersKeep(t)
    BY <1>1 DEF goto, DriverInv, LockInv, LocalTypes, device, OthersKeep
  <1>3. LocalTypes'
    <2>1. f_pos' \in [Files -> Nat]
      BY <1>1 DEF DriverInv, LocalTypes
    <2>2. pos' \in [Tasks -> Nat] /\ ret' \in [Tasks -> Int]
      BY <1>1 DEF DriverInv, LocalTypes
    <2>3. ubuf' \in [Tasks -> Seq(KernelBytes)]
      <3>1. <<>> \in Seq(KernelBytes)
        OBVIOUS
      <3> QED
        BY <1>1, <3>1 DEF DriverInv, LocalTypes
    <2> QED
      BY <1>1, <2>1, <2>2, <2>3 DEF DriverInv, LocalTypes
  <1>4. Memory(c_buffer, kbuf, current_entry, heap)'
    BY <1>1 DEF DriverInv, device
  <1>5. TaskInv(t)'
    BY <1>1, IdleTaskKeeps DEF goto, DriverInv, LockInv, TaskInv
  <1> QED
    BY <1>1, <1>2, <1>3, <1>4, <1>5, TaskStepKeeps DEF DriverInv, device

\* aesd_llseek: the new position is a natural number.
LEMMA LlseekKeeps ==
  ASSUME DriverInv, LockInv', NEW t \in Tasks, aesd_llseek(t)
  PROVE  DriverInv'
  <1> DEFINE file == call[t].file
             seek == call[t].seek
             newpos == SeekBase(file, seek.whence) + seek.off
             valid == seek.whence # "other" /\ newpos >= 0
  <1>1. /\ UNCHANGED <<device, open, heap, locals>> /\ pc[t] = "llseek"
        /\ goto(t, "idle") /\ call' = [call EXCEPT ![t] = NoCall]
        /\ buffer_lock' \in {buffer_lock, t}
        /\ \/ valid /\ f_pos' = [f_pos EXCEPT ![file] = newpos]
           \/ UNCHANGED f_pos
    BY DEF aesd_llseek, Leave
  <1>2. /\ seek \in [whence : {"SET", "CUR", "END", "other"}, off : Int]
        /\ file \in Files /\ kbuf[t] = Null
    BY <1>1, AesdCharAssumption DEF DriverInv, LockInv, TaskInv
  <1>3. TotalSize(c_buffer) \in Nat
    BY EntrySizes, SizesByAge, TotalSizeType DEF DriverInv, Memory
  <1>4. ASSUME valid PROVE newpos \in Nat
    <2>1. SeekBase(file, seek.whence) \in Nat
      BY <1>2, <1>3, <1>4 DEF SeekBase, DriverInv, LocalTypes
    <2>2. seek.off \in Int
      BY <1>2
    <2> QED
      BY <1>4, <2>1, <2>2
  <1>5. f_pos' \in [Files -> Nat]
    <2> HIDE DEF newpos
    <2> QED
      BY <1>1, <1>2, <1>4 DEF DriverInv, LocalTypes
  <1> HIDE DEF file, seek, newpos, valid
  <1>6. OthersKeep(t)
    BY <1>1 DEF goto, DriverInv, LockInv, LocalTypes, locals, device, OthersKeep
  <1>7. LocalTypes'
    BY <1>1, <1>5 DEF locals, DriverInv, LocalTypes
  <1>8. Memory(c_buffer, kbuf, current_entry, heap)'
    BY <1>1 DEF DriverInv, device, locals
  <1>9. TaskInv(t)'
    BY <1>1, <1>2, IdleTaskKeeps DEF goto, locals, DriverInv, LockInv
  <1> QED
    BY <1>1, <1>6, <1>7, <1>8, <1>9, TaskStepKeeps DEF DriverInv, device

\* aesd_ioctl: the new position is a natural number.
LEMMA IoctlKeeps ==
  ASSUME DriverInv, LockInv', NEW t \in Tasks, aesd_ioctl(t)
  PROVE  DriverInv'
  <1> DEFINE seekto == call[t].seekto
  <1>1. /\ UNCHANGED <<device, open, buffer_lock, heap, locals>> /\ pc[t] = "ioctl"
        /\ goto(t, "idle") /\ call' = [call EXCEPT ![t] = NoCall]
        /\ \/ f_pos' = [f_pos EXCEPT ![call[t].file] = SeekToPosition(seekto)]
           \/ UNCHANGED f_pos
    BY DEF aesd_ioctl, Leave
  <1>2. seekto \in aesd_seekto /\ kbuf[t] = Null
    BY <1>1, AesdCharAssumption DEF DriverInv, TaskInv
  <1>3. /\ c_buffer.out_offs \in Slots
        /\ \A i \in Slots : c_buffer.entry[i].size \in Nat
    BY EntrySizes, SizesByAge DEF DriverInv, Memory
  <1>4. SeekToPosition(seekto) \in Nat
    <2>1. seekto.write_cmd \in Nat /\ seekto.write_cmd_offset \in Nat
      BY <1>2 DEF aesd_seekto
    <2>2. \A n \in Nat : SizeOfFirst(c_buffer, n) \in Nat
      BY <1>3, SizeOfFirstAdds
    <2> QED
      BY <2>1, <2>2 DEF SeekToPosition
  <1>5. f_pos' \in [Files -> Nat]
    BY <1>1, <1>4 DEF DriverInv, LocalTypes
  <1> HIDE DEF seekto
  <1>6. OthersKeep(t)
    BY <1>1 DEF goto, DriverInv, LockInv, LocalTypes, locals, device, OthersKeep
  <1>7. LocalTypes'
    BY <1>1, <1>5 DEF locals, DriverInv, LocalTypes
  <1>8. Memory(c_buffer, kbuf, current_entry, heap)'
    BY <1>1 DEF DriverInv, device, locals
  <1>9. TaskInv(t)'
    BY <1>1, <1>2, IdleTaskKeeps DEF goto, locals, DriverInv, LockInv
  <1> QED
    BY <1>1, <1>6, <1>7, <1>8, <1>9, TaskStepKeeps DEF DriverInv, device

\* aesd_write takes the lock and allocates its kbuf.
LEMMA WriteLockKeeps ==
  ASSUME DriverInv, LockInv', NEW t \in Tasks, WriteLock(t)
  PROVE  DriverInv'
  <1>1. /\ UNCHANGED <<device, open, f_pos, call, pos, src, ubuf>>
        /\ pc[t] = "write_lock"
    BY DEF WriteLock
  <1>2. /\ kbuf[t] = Null /\ call[t].chunk \in Chunks /\ call[t].chunk # <<>>
        /\ Memory(c_buffer, kbuf, current_entry, heap)
    BY <1>1 DEF DriverInv, TaskInv
  <1>3. Len(call[t].chunk) \in Nat \ {0}
    <2>1. call[t].chunk \in Seq(UserBytes)
      BY <1>2, AesdCharAssumption
    <2> QED
      BY <1>2, <2>1
  <1>4. CASE \E a \in FreeBlocks(heap) :
               /\ heap' = kmalloc(heap, a, Len(call[t].chunk))
               /\ kbuf' = [kbuf EXCEPT ![t] = a]
               /\ KeepLock(t)
               /\ goto(t, "write_copy")
               /\ UNCHANGED ret
    <2>1. PICK a \in FreeBlocks(heap) :
               /\ heap' = kmalloc(heap, a, Len(call[t].chunk))
               /\ kbuf' = [kbuf EXCEPT ![t] = a]
               /\ buffer_lock' = t
               /\ pc' = [pc EXCEPT ![t] = "write_copy"]
               /\ UNCHANGED ret
      BY <1>4 DEF KeepLock, goto
    <2>2. /\ Memory(c_buffer, kbuf', current_entry, heap')
          /\ Len(heap'[a]) = Len(call[t].chunk)
          /\ \A u \in Tasks : kbuf[u] # Null => heap'[kbuf[u]] = heap[kbuf[u]]
      <3> DEFINE n == Len(call[t].chunk)
      <3>1. n \in Nat \ {0}
        BY <1>3
      <3>2. heap' = kmalloc(heap, a, n) /\ kbuf' = [kbuf EXCEPT ![t] = a]
        BY <2>1
      <3> HIDE DEF n
      <3>3. /\ Memory(c_buffer, [kbuf EXCEPT ![t] = a], current_entry, kmalloc(heap, a, n))
            /\ Len(kmalloc(heap, a, n)[a]) = n
            /\ \A u \in Tasks : kbuf[u] # Null => kmalloc(heap, a, n)[kbuf[u]] = heap[kbuf[u]]
        BY <1>2, <3>1, AllocateKbuf
      <3> QED
        BY <3>2, <3>3 DEF n
    <2>3. OthersKeep(t)
      BY <1>1, <2>1, <2>2 DEF OthersKeep, DriverInv, LockInv, TaskInv, Memory, device
    <2>4. pc'[t] = "write_copy" /\ kbuf'[t] = a /\ a # Null
      BY <1>2, <2>1, AesdCharAssumption DEF DriverInv, LockInv, Memory, FreeBlocks
    <2>5. TaskInv(t)'
      BY <1>1, <1>2, <2>2, <2>4 DEF TaskInv
    <2>6. Memory(c_buffer, kbuf, current_entry, heap)'
      BY <1>1, <2>2 DEF device
    <2>7. LocalTypes'
      BY <1>1, <2>1 DEF DriverInv, LocalTypes
    <2> QED
      BY <1>1, <2>1, <2>3, <2>5, <2>6, <2>7, TaskStepKeeps DEF device
  <1>5. CASE /\ ret' = [ret EXCEPT ![t] = ENOMEM]
             /\ goto(t, "write_return")
             /\ UNCHANGED <<heap, kbuf, buffer_lock>>
    <2>1. OthersKeep(t)
      BY <1>1, <1>5 DEF OthersKeep, DriverInv, LockInv, device, goto
    <2>2. TaskInv(t)'
      BY <1>1, <1>2, <1>5 DEF TaskInv, goto, DriverInv, LockInv
    <2>3. Memory(c_buffer, kbuf, current_entry, heap)'
      BY <1>1, <1>2, <1>5 DEF device
    <2>4. LocalTypes'
      BY <1>1, <1>5 DEF DriverInv, LocalTypes, ENOMEM
    <2> QED
      BY <1>1, <1>5, <2>1, <2>2, <2>3, <2>4, TaskStepKeeps DEF device, DriverInv
  <1> QED
    BY <1>4, <1>5 DEF WriteLock

\* copy_from_user into kbuf.
LEMMA WriteCopyKeeps ==
  ASSUME DriverInv, LockInv', NEW t \in Tasks, WriteCopy(t)
  PROVE  DriverInv'
  <1>1. /\ UNCHANGED <<device, open, f_pos, buffer_lock, call, pos, kbuf, src, ubuf>>
        /\ pc[t] = "write_copy"
    BY DEF WriteCopy
  <1>2. /\ kbuf[t] # Null /\ call[t].chunk \in Chunks /\ call[t].chunk # <<>>
        /\ Len(call[t].chunk) = Len(heap[kbuf[t]])
        /\ Memory(c_buffer, kbuf, current_entry, heap)
    BY <1>1 DEF DriverInv, TaskInv
  <1>3. call[t].chunk \in Seq(KernelBytes)
    <2>1. call[t].chunk \in Seq(UserBytes)
      BY <1>2, AesdCharAssumption
    <2> QED
      BY <2>1 DEF KernelBytes
  <1>4. CASE /\ heap' = memcpy(heap, kbuf[t], 0, call[t].chunk)
             /\ goto(t, "write_append") /\ UNCHANGED ret
    <2>1. /\ Memory(c_buffer, kbuf, current_entry, heap')
          /\ heap'[kbuf[t]] = call[t].chunk
          /\ \A u \in Tasks \ {t} : kbuf[u] # Null => heap'[kbuf[u]] = heap[kbuf[u]]
      <3> DEFINE chunk == call[t].chunk
      <3>1. chunk \in Seq(KernelBytes) /\ Len(chunk) = Len(heap[kbuf[t]])
        BY <1>2, <1>3
      <3>2. heap' = memcpy(heap, kbuf[t], 0, chunk)
        BY <1>4
      <3> HIDE DEF chunk
      <3>3. /\ Memory(c_buffer, kbuf, current_entry, memcpy(heap, kbuf[t], 0, chunk))
            /\ memcpy(heap, kbuf[t], 0, chunk)[kbuf[t]] = chunk
            /\ \A u \in Tasks \ {t} : kbuf[u] # Null =>
                 memcpy(heap, kbuf[t], 0, chunk)[kbuf[u]] = heap[kbuf[u]]
        BY <1>2, <3>1, FillKbuf
      <3> QED
        BY <3>2, <3>3 DEF chunk
    <2>2. OthersKeep(t)
      BY <1>1, <1>4, <2>1 DEF OthersKeep, DriverInv, LockInv, TaskInv, device, goto
    <2>3. TaskInv(t)'
      BY <1>1, <1>2, <1>4, <2>1 DEF TaskInv, goto, DriverInv, LockInv
    <2>4. Memory(c_buffer, kbuf, current_entry, heap)'
      BY <1>1, <2>1 DEF device
    <2>5. LocalTypes'
      BY <1>1, <1>4 DEF DriverInv, LocalTypes
    <2> QED
      BY <1>1, <2>2, <2>3, <2>4, <2>5, TaskStepKeeps DEF device, DriverInv
  <1>5. CASE /\ ret' = [ret EXCEPT ![t] = EFAULT]
             /\ goto(t, "write_return") /\ UNCHANGED heap
    <2>1. OthersKeep(t)
      BY <1>1, <1>5 DEF OthersKeep, DriverInv, LockInv, device, goto
    <2>2. TaskInv(t)'
      BY <1>1, <1>2, <1>5 DEF TaskInv, goto, DriverInv, LockInv
    <2>3. Memory(c_buffer, kbuf, current_entry, heap)'
      BY <1>1, <1>2, <1>5 DEF device
    <2>4. LocalTypes'
      BY <1>1, <1>5 DEF DriverInv, LocalTypes, EFAULT
    <2> QED
      BY <1>1, <1>5, <2>1, <2>2, <2>3, <2>4, TaskStepKeeps DEF device, DriverInv
  <1> QED
    BY <1>4, <1>5 DEF WriteCopy

\* The end of a write.
LEMMA WriteReturnKeeps ==
  ASSUME DriverInv, LockInv', NEW t \in Tasks, WriteReturn(t)
  PROVE  DriverInv'
  <1>1. /\ UNCHANGED <<device, open, buffer_lock, src, ubuf>>
        /\ pc[t] = "write_return" /\ goto(t, "idle")
        /\ heap' = kfree(heap, kbuf[t]) /\ kbuf' = [kbuf EXCEPT ![t] = Null]
        /\ call' = [call EXCEPT ![t] = NoCall]
        /\ pos' = [pos EXCEPT ![t] = 0] /\ ret' = [ret EXCEPT ![t] = 0]
        /\ f_pos' = IF ret[t] >= 0 THEN [f_pos EXCEPT ![call[t].file] = pos[t]] ELSE f_pos
    BY DEF WriteReturn, VfsReturn, Leave
  <1>2. Memory(c_buffer, kbuf, current_entry, heap)
    BY DEF DriverInv
  <1>3. /\ Memory(c_buffer, kbuf', current_entry, heap')
        /\ \A u \in Tasks \ {t} : kbuf[u] # Null => heap'[kbuf[u]] = heap[kbuf[u]]
    <2>1. /\ Memory(c_buffer, [kbuf EXCEPT ![t] = Null], current_entry, kfree(heap, kbuf[t]))
          /\ \A u \in Tasks \ {t} : kbuf[u] # Null =>
               kfree(heap, kbuf[t])[kbuf[u]] = heap[kbuf[u]]
      BY <1>2, FreeKbuf
    <2> QED
      BY <1>1, <2>1
  <1>4. OthersKeep(t)
    BY <1>1, <1>3 DEF goto, DriverInv, LockInv, LocalTypes, Memory, TaskInv, device, OthersKeep
  <1>5. LocalTypes'
    <2>1. f_pos' \in [Files -> Nat]
      BY <1>1 DEF DriverInv, LocalTypes
    <2>2. pos' \in [Tasks -> Nat] /\ ret' \in [Tasks -> Int]
      BY <1>1 DEF DriverInv, LocalTypes
    <2> QED
      BY <1>1, <2>1, <2>2 DEF DriverInv, LocalTypes
  <1>6. Memory(c_buffer, kbuf, current_entry, heap)'
    BY <1>1, <1>3 DEF device
  <1>7. TaskInv(t)'
    BY <1>1, <1>2, IdleTaskKeeps DEF goto, DriverInv, LockInv, Memory
  <1> QED
    BY <1>1, <1>4, <1>5, <1>6, <1>7, TaskStepKeeps DEF DriverInv, device

-----------------------------------------------------------------------------
(* What the critical section of aesd_write does to the device: it fails, keeps *)
(* an unfinished command, or commits a command and stores the rest.            *)

Command(chunk) == SubSeq(chunk, 1, CommandBytes(chunk))
Remainder(chunk) == SubSeq(chunk, CommandBytes(chunk) + 1, Len(chunk))

\* The blocks krealloc may return.
GrowBlocks == FreeBlocks(heap) \cup ({current_entry.buffptr} \ {Null})

AppendFails(t) ==
  /\ "nomem_grow" \in Faults
  /\ current_entry' = [current_entry EXCEPT !.buffptr = Null]
  /\ ret' = [ret EXCEPT ![t] = ENOMEM]
  /\ heap' = heap /\ c_buffer' = c_buffer

AppendKeeps(t, a) ==
  LET chunk == call[t].chunk
  IN  /\ NewLines(chunk) = {}
      /\ heap' = GrownHeap(heap, current_entry, a, Command(chunk))
      /\ current_entry' = Grown(current_entry, a, Command(chunk))
      /\ ret' = [ret EXCEPT ![t] = CommandBytes(chunk)]
      /\ c_buffer' = c_buffer

AppendCommits(t, a) ==
  LET chunk == call[t].chunk
      freed == kfree(GrownHeap(heap, current_entry, a, Command(chunk)), Overwritten(c_buffer))
      rest  == Remainder(chunk)
  IN  /\ NewLines(chunk) # {}
      /\ c_buffer' = aesd_circular_buffer_add_entry(c_buffer,
                       Grown(current_entry, a, Command(chunk)))
      /\ \/ /\ rest = <<>> \/ "nomem_rest" \in Faults
            /\ heap' = freed
            /\ current_entry' = NoEntry
            /\ ret' = [ret EXCEPT ![t] = CommandBytes(chunk)]
         \/ /\ rest # <<>>
            /\ \E b \in FreeBlocks(freed) :
                 /\ heap' = memcpy(kmalloc(freed, b, Len(rest)), b, 0, rest)
                 /\ current_entry' = [buffptr |-> b, size |-> Len(rest)]
                 /\ ret' = [ret EXCEPT ![t] = Len(chunk)]

\* The bytes of a write that waits for the lock, or has it, are the user's.
LEMMA WriteBytes ==
  ASSUME DriverInv, NEW t \in Tasks, pc[t] = "write_append"
  PROVE  LET chunk == call[t].chunk
         IN  /\ chunk \in Chunks /\ chunk \in Seq(UserBytes) /\ chunk # <<>>
             /\ heap[kbuf[t]] = chunk /\ kbuf[t] # Null
             /\ CommandBytes(chunk) \in 1..Len(chunk)
             /\ Command(chunk) \in Seq(UserBytes) /\ Command(chunk) # <<>>
             /\ Len(Command(chunk)) = CommandBytes(chunk)
             /\ Remainder(chunk) \in Seq(UserBytes)
             /\ Len(Remainder(chunk)) = Len(chunk) - CommandBytes(chunk)
  <1> DEFINE chunk == call[t].chunk
             n == CommandBytes(chunk)
  <1>1. /\ chunk \in Chunks /\ chunk \in Seq(UserBytes) /\ chunk # <<>>
        /\ heap[kbuf[t]] = chunk /\ kbuf[t] # Null
    BY AesdCharAssumption DEF DriverInv, TaskInv
  <1> HIDE DEF chunk
  <1>2. n \in 1..Len(chunk) /\ Len(chunk) \in Nat
    BY <1>1, CommandBytesType
  <1> HIDE DEF n
  <1>3. n \in Nat /\ n >= 1 /\ n <= Len(chunk)
    BY <1>2
  <1>4. /\ SubSeq(chunk, 1, n) \in Seq(UserBytes) /\ Len(SubSeq(chunk, 1, n)) = n
        /\ SubSeq(chunk, 1, n) # <<>>
    BY <1>1, <1>2, <1>3
  <1>5. /\ SubSeq(chunk, n + 1, Len(chunk)) \in Seq(UserBytes)
        /\ Len(SubSeq(chunk, n + 1, Len(chunk))) = Len(chunk) - n
    BY <1>1, <1>2, <1>3
  <1> QED
    BY <1>1, <1>2, <1>4, <1>5 DEF chunk, n, Command, Remainder

\* The critical section of aesd_write does one of the three.
LEMMA AppendCases ==
  ASSUME DriverInv, NEW t \in Tasks, WriteAppend(t)
  PROVE  AppendFails(t) \/ \E a \in GrowBlocks : AppendKeeps(t, a) \/ AppendCommits(t, a)
  <1> DEFINE chunk == call[t].chunk
             n == CommandBytes(chunk)
             size == current_entry.size + n
             old == current_entry.buffptr
             H(a) == memcpy(krealloc(heap, old, a, size), a, AppendOffset, SubSeq(chunk, 1, n))
             E(a) == [buffptr |-> a, size |-> size]
  <1>1. /\ heap[kbuf[t]] = chunk /\ kbuf[t] # Null /\ Len(Command(chunk)) = n
        /\ Command(chunk) \in Seq(KernelBytes) /\ Command(chunk) # <<>>
    BY WriteBytes DEF WriteAppend, KernelBytes
  <1>2. CASE AppendFails(t)
    BY <1>2
  <1>3. ASSUME NEW a \in GrowBlocks,
               IF NewLines(chunk) = {} THEN KeepPartial(t, H(a), E(a), n)
                                       ELSE Commit(t, H(a), E(a), n)
        PROVE  AppendKeeps(t, a) \/ AppendCommits(t, a)
    <2>1. /\ H(a) = GrownHeap(heap, current_entry, a, Command(chunk))
          /\ E(a) = Grown(current_entry, a, Command(chunk))
      BY <1>1 DEF GrownHeap, Grown, Command, AppendOffset
    <2>2. H(a)[kbuf[t]] = chunk
      <3>1. Memory(c_buffer, kbuf, current_entry, heap)
        BY DEF DriverInv
      <3> DEFINE cmd == Command(chunk)
      <3>2. cmd \in Seq(KernelBytes) /\ cmd # <<>>
        BY <1>1
      <3> HIDE DEF cmd
      <3>3. Growth(c_buffer, kbuf, current_entry, heap, a, cmd,
                   GrownHeap(heap, current_entry, a, cmd))
        BY <3>1, <3>2, GrowEntry DEF GrowBlocks
      <3>4. \A u \in Tasks : kbuf[u] # Null =>
              GrownHeap(heap, current_entry, a, cmd)[kbuf[u]] = heap[kbuf[u]]
        BY <3>3 DEF Growth
      <3> HIDE DEF H, chunk
      <3> QED
        BY <1>1, <2>1, <3>4 DEF cmd
    <2> HIDE DEF H, E, chunk
    <2>3. CASE NewLines(chunk) = {}
      BY <1>3, <2>1, <2>3 DEF KeepPartial, AppendKeeps, chunk, n
    <2>4. CASE NewLines(chunk) # {}
      <3>1. Commit(t, H(a), E(a), n)
        BY <1>3, <2>4
      <3>2. SubSeq(H(a)[kbuf[t]], n + 1, Len(H(a)[kbuf[t]])) = Remainder(chunk)
        BY <2>2 DEF Remainder, n
      <3> QED
        BY <2>1, <2>2, <2>4, <3>1, <3>2 DEF Commit, FreeOverwritten, AppendCommits, chunk, n
    <2> QED
      BY <2>3, <2>4
  <1>4. \/ AppendFails(t)
        \/ \E a \in GrowBlocks : IF NewLines(chunk) = {} THEN KeepPartial(t, H(a), E(a), n)
                                                         ELSE Commit(t, H(a), E(a), n)
    BY <1>1 DEF WriteAppend, AppendFails, GrowBlocks
  <1> QED
    BY <1>3, <1>4

\* krealloc fails and its result replaces the pointer: the rest is as before.
LEMMA LoseCurrent ==
  ASSUME NEW c, NEW k, NEW e, NEW h, Memory(c, k, e, h)
  PROVE  Memory(c, k, [e EXCEPT !.buffptr = Null], h)
  <1> DEFINE d == [e EXCEPT !.buffptr = Null]
  <1>1. d.buffptr = Null /\ d \in [buffptr : Addrs \cup {Null}, size : Nat]
    BY DEF Memory
  <1> HIDE DEF d
  <1>2. Apart(c, k, d, h)
    BY <1>1, AesdCharAssumption DEF Memory, Apart
  <1> QED
    BY <1>1, <1>2 DEF Memory, d

\* What growing current_entry leaves, before the command is kept or committed.
LEMMA AppendGrows ==
  ASSUME DriverInv, NEW t \in Tasks, pc[t] = "write_append", NEW a \in GrowBlocks
  PROVE  LET cmd == Command(call[t].chunk)
         IN  Growth(c_buffer, kbuf, current_entry, heap, a, cmd,
                    GrownHeap(heap, current_entry, a, cmd))
  <1> DEFINE cmd == Command(call[t].chunk)
  <1>1. cmd \in Seq(KernelBytes) /\ cmd # <<>>
    BY WriteBytes DEF KernelBytes
  <1>2. Memory(c_buffer, kbuf, current_entry, heap)
    BY DEF DriverInv
  <1> HIDE DEF cmd
  <1>3. Growth(c_buffer, kbuf, current_entry, heap, a, cmd,
               GrownHeap(heap, current_entry, a, cmd))
    BY <1>1, <1>2, GrowEntry DEF GrowBlocks
  <1> QED
    BY <1>3 DEF cmd

\* What committing the grown entry leaves, before the rest is stored.
LEMMA AppendCommitted ==
  ASSUME DriverInv, NEW t \in Tasks, pc[t] = "write_append", NEW a \in GrowBlocks
  PROVE  LET cmd == Command(call[t].chunk)
             e   == Grown(current_entry, a, cmd)
             h   == GrownHeap(heap, current_entry, a, cmd)
         IN  Committed(c_buffer, kbuf, e, h, aesd_circular_buffer_add_entry(c_buffer, e),
                       kfree(h, Overwritten(c_buffer)))
  <1> DEFINE cmd == Command(call[t].chunk)
             e   == Grown(current_entry, a, cmd)
             h   == GrownHeap(heap, current_entry, a, cmd)
  <1>1. Growth(c_buffer, kbuf, current_entry, heap, a, cmd, h)
    BY AppendGrows
  <1> HIDE DEF h
  <1>2. Memory(c_buffer, kbuf, e, h) /\ e.buffptr # Null
    BY <1>1, AesdCharAssumption DEF Growth, Grown
  <1> HIDE DEF e
  <1>3. Committed(c_buffer, kbuf, e, h, aesd_circular_buffer_add_entry(c_buffer, e),
                  kfree(h, Overwritten(c_buffer)))
    BY <1>2, CommitEntry
  <1> QED
    BY <1>3 DEF e, h

\* The whole critical section of aesd_write keeps the memory sound.
LEMMA AppendKeepsMemory ==
  ASSUME DriverInv, NEW t \in Tasks, WriteAppend(t)
  PROVE  Memory(c_buffer', kbuf, current_entry', heap')
  <1>1. pc[t] = "write_append" /\ Memory(c_buffer, kbuf, current_entry, heap)
    BY DEF WriteAppend, DriverInv
  <1>2. CASE AppendFails(t)
    BY <1>1, <1>2, LoseCurrent DEF AppendFails
  <1>3. ASSUME NEW a \in GrowBlocks, AppendKeeps(t, a)
        PROVE  Memory(c_buffer', kbuf, current_entry', heap')
    BY <1>1, <1>3, AppendGrows DEF AppendKeeps, Growth
  <1>4. ASSUME NEW a \in GrowBlocks, AppendCommits(t, a)
        PROVE  Memory(c_buffer', kbuf, current_entry', heap')
    <2> DEFINE chunk == call[t].chunk
               cmd   == Command(chunk)
               e     == Grown(current_entry, a, cmd)
               h     == GrownHeap(heap, current_entry, a, cmd)
               freed == kfree(h, Overwritten(c_buffer))
               rest  == Remainder(chunk)
    <2>1. Memory(c_buffer', kbuf, NoEntry, freed)
      BY <1>1, <1>4, AppendCommitted DEF AppendCommits, Committed
    <2>2. CASE heap' = freed /\ current_entry' = NoEntry
      BY <2>1, <2>2
    <2>3. CASE \E b \in FreeBlocks(freed) :
                 /\ rest # <<>>
                 /\ heap' = memcpy(kmalloc(freed, b, Len(rest)), b, 0, rest)
                 /\ current_entry' = [buffptr |-> b, size |-> Len(rest)]
      <3>1. rest \in Seq(KernelBytes)
        BY <1>1, WriteBytes DEF KernelBytes
      <3> HIDE DEF freed, rest
      <3>2. PICK b \in FreeBlocks(freed) :
                 /\ rest # <<>>
                 /\ heap' = memcpy(kmalloc(freed, b, Len(rest)), b, 0, rest)
                 /\ current_entry' = [buffptr |-> b, size |-> Len(rest)]
        BY <2>3
      <3>3. Stored(c_buffer', kbuf, freed, b, rest,
                   memcpy(kmalloc(freed, b, Len(rest)), b, 0, rest))
        BY <2>1, <3>1, <3>2, StoreRest
      <3> QED
        BY <3>2, <3>3 DEF Stored
    <2> QED
      BY <1>4, <2>2, <2>3 DEF AppendCommits
  <1> QED
    BY <1>2, <1>3, <1>4, AppendCases

\* While one task is in its critical section no other task is in one.
LEMMA AloneInside ==
  ASSUME DriverInv, NEW t \in Tasks, pc[t] \in Critical, NEW u \in Tasks \ {t}
  PROVE  pc[u] \notin Critical
  BY DEF DriverInv, LockInv, MutualExclusion

\* The critical section of aesd_write.
LEMMA WriteAppendKeeps ==
  ASSUME DriverInv, LockInv', NEW t \in Tasks, WriteAppend(t)
  PROVE  DriverInv'
  <1>1. /\ UNCHANGED <<loaded, open, f_pos, call, pos, kbuf, src, ubuf>>
        /\ pc[t] = "write_append" /\ goto(t, "write_return") /\ buffer_lock' = NoTask
    BY DEF WriteAppend, mutex_unlock
  <1>2. Memory(c_buffer, kbuf, current_entry, heap)'
    BY <1>1, AppendKeepsMemory
  <1>3. OthersKeep(t)
    <2>1. \A u \in Tasks \ {t} : pc[u] \notin {"read_copy", "write_copy", "write_append"}
      BY <1>1, AloneInside DEF Critical
    <2> QED
      BY <1>1, <2>1 DEF OthersKeep, goto, DriverInv, LockInv
  <1>4. TaskInv(t)'
    BY <1>1 DEF TaskInv, goto, DriverInv, LockInv
  <1>5. ret' \in [Tasks -> Int]
    <2>1. CommandBytes(call[t].chunk) \in Int /\ Len(call[t].chunk) \in Int
      BY <1>1, WriteBytes
    <2>2. ENOMEM \in Int
      BY DEF ENOMEM
    <2>3. \/ ret' = [ret EXCEPT ![t] = ENOMEM]
          \/ ret' = [ret EXCEPT ![t] = CommandBytes(call[t].chunk)]
          \/ ret' = [ret EXCEPT ![t] = Len(call[t].chunk)]
      BY AppendCases DEF AppendFails, AppendKeeps, AppendCommits
    <2> QED
      BY <2>1, <2>2, <2>3 DEF DriverInv, LocalTypes
  <1>6. LocalTypes'
    BY <1>1, <1>5 DEF DriverInv, LocalTypes
  <1> QED
    BY <1>1, <1>2, <1>3, <1>4, <1>6, TaskStepKeeps

-----------------------------------------------------------------------------

\* The invariant holds when the module is not loaded yet.
LEMMA InitDriverInv == Init => DriverInv
  <1> SUFFICES ASSUME Init PROVE DriverInv
    OBVIOUS
  <1>1. LockInv
    BY DEF Init, LockInv, MutualExclusion, PCs, Critical
  <1>2. heap \in Heaps /\ ubuf \in [Tasks -> Seq(KernelBytes)]
    <2>1. <<>> \in Seq(KernelBytes)
      OBVIOUS
    <2> QED
      BY <2>1 DEF Init, Heaps
  <1>3. Memory(c_buffer, kbuf, current_entry, heap)
    BY <1>2, EmptyMemory DEF Init
  <1>4. LocalTypes
    BY <1>2, MaxWritesAssumption DEF Init, LocalTypes, NoSrc, Slots
  <1>5. \A t \in Tasks : TaskInv(t)
    BY DEF Init, TaskInv
  <1> QED
    BY <1>1, <1>3, <1>4, <1>5 DEF Init, DriverInv

\* Every step of the driver preserves it.
LEMMA NextKeepsDriverInv == DriverInv /\ [Next]_vars => DriverInv'
  <1> SUFFICES ASSUME DriverInv, [Next]_vars PROVE DriverInv'
    OBVIOUS
  <1>1. LockInv'
    BY NextKeepsLockInv DEF DriverInv
  <1>2. CASE \/ UNCHANGED vars
             \/ aesd_init_module \/ aesd_cleanup_module
             \/ \E f \in Files : aesd_open(f) \/ aesd_release(f)
    BY <1>1, <1>2, ModuleStepKeeps
  <1>3. ASSUME NEW t \in Tasks, Call(t) PROVE DriverInv'
    BY <1>1, <1>3, CallKeeps
  <1>4. ASSUME NEW t \in Tasks, Lock(t) PROVE DriverInv'
    BY <1>1, <1>4, ReadFindKeeps, WriteLockKeeps, LlseekKeeps, IoctlKeeps DEF Lock
  <1>5. ASSUME NEW t \in Tasks, Proceed(t) PROVE DriverInv'
    BY <1>1, <1>5, ReadCopyKeeps, ReadReturnKeeps, WriteCopyKeeps, WriteAppendKeeps,
       WriteReturnKeeps DEF Proceed
  <1>6. ASSUME NEW t \in Tasks, Interrupted(t) PROVE DriverInv'
    BY <1>1, <1>6, InterruptKeeps
  <1> QED
    BY <1>2, <1>3, <1>4, <1>5, <1>6 DEF Next

\* The state of the driver has its types: in particular no position, offset or
\* length computed from the ring is ever negative, and src is a slot of the ring.
THEOREM DriverTypes == Spec => []TypeOK
  <1>1. DriverInv => TypeOK
    BY DEF DriverInv, LockInv, LocalTypes, Memory, Heaps, TypeOK
  <1> QED
    BY <1>1, InitDriverInv, NextKeepsDriverInv, PTL DEF Spec

\* No pointer of the driver dangles and no two refer to the same block, whatever
\* the kernel around the driver does.
THEOREM DriverPointers == Spec => []PointersSound
  <1>1. DriverInv => PointersSound
    <2> SUFFICES ASSUME DriverInv PROVE PointersSound
      OBVIOUS
    <2>1. Apart(c_buffer, kbuf, current_entry, heap)
      BY DEF DriverInv, Memory
    <2>2. Sound(PointersOf(c_buffer, kbuf, current_entry), heap)
      BY <2>1, SoundIsApart
    <2>3. PointersOf(c_buffer, kbuf, current_entry) = Pointers
      BY DEF PointersOf, Pointers
    <2> QED
      BY <2>2, <2>3 DEF Sound, PointersSound
  <1> QED
    BY <1>1, InitDriverInv, NextKeepsDriverInv, PTL DEF Spec

-----------------------------------------------------------------------------

\* Only a step of a task moves that task.
LEMMA OwnStep ==
  ASSUME DriverInv, Next, NEW t \in Tasks, pc'[t] # pc[t]
  PROVE  Call(t) \/ Lock(t) \/ Proceed(t) \/ Interrupted(t)
  <1>1. pc' # pc /\ pc \in [Tasks -> PCs]
    BY DEF DriverInv, LockInv
  <1>2. PICK u \in Tasks : Call(u) \/ Lock(u) \/ Proceed(u) \/ Interrupted(u)
    BY <1>1 DEF Next, aesd_init_module, aesd_cleanup_module, aesd_open, aesd_release
  <1>3. ASSUME u # t PROVE FALSE
    <2>1. pc'[t] = pc[t]
      <3>1. CASE Call(u)
        BY <1>1, <1>3, <3>1 DEF Call, CallRead, CallWrite, CallLlseek, CallIoctl, Enter, goto
      <3>2. CASE Lock(u)
        BY <1>1, <1>3, <3>2 DEF Lock, ReadFind, WriteLock, aesd_llseek, aesd_ioctl, Leave, goto
      <3>3. CASE Proceed(u)
        BY <1>1, <1>3, <3>3 DEF Proceed, ReadCopy, ReadReturn, WriteCopy, WriteAppend,
                                WriteReturn, VfsReturn, Leave, goto
      <3>4. CASE Interrupted(u)
        BY <1>1, <1>3, <3>4 DEF Interrupted, Leave, goto
      <3> QED
        BY <1>2, <3>1, <3>2, <3>3, <3>4
    <2> QED
      BY <2>1
  <1> QED
    BY <1>2, <1>3

\* A task that leaves aesd_ioctl while the lock is free went through it.
LEMMA IoctlStep ==
  ASSUME DriverInv, Next, NEW t \in Tasks, pc[t] = "ioctl", buffer_lock = NoTask,
         pc'[t] = "idle"
  PROVE  aesd_ioctl(t)
  <1>1. Call(t) \/ Lock(t) \/ Proceed(t) \/ Interrupted(t)
    BY OwnStep
  <1>2. ~Call(t) /\ ~Proceed(t) /\ ~Interrupted(t)
    BY DEF Call, CallRead, CallWrite, CallLlseek, CallIoctl, Enter, Interrupted,
           Proceed, ReadCopy, ReadReturn, WriteCopy, WriteAppend, WriteReturn
  <1>3. ~ReadFind(t) /\ ~WriteLock(t) /\ ~aesd_llseek(t)
    BY DEF ReadFind, WriteLock, aesd_llseek
  <1> QED
    BY <1>1, <1>2, <1>3 DEF Lock

\* AESDCHAR_IOCSEEKTO with a byte that exists moves the file to that byte: the
\* position aesd_ioctl adds up is the one aesd_read finds the named byte at.
THEOREM SeekToIsExact == Spec => SeekToFindsTheByte
  <1> DEFINE Exact(t) ==
        LET seekto == call[t].seekto IN
        pc[t] = "ioctl" /\ buffer_lock = NoTask /\ pc'[t] = "idle" /\ NamesByte(seekto) =>
          aesd_circular_buffer_find_entry_offset_for_fpos(c_buffer, f_pos'[call[t].file])
            = [slot   |-> SlotAt(c_buffer, seekto.write_cmd),
               offset |-> seekto.write_cmd_offset]
  <1>1. ASSUME DriverInv, Next, NEW t \in Tasks PROVE Exact(t)
    <2> DEFINE seekto == call[t].seekto
               k == seekto.write_cmd
               off == seekto.write_cmd_offset
               p == SeekToPosition(seekto)
    <2> SUFFICES ASSUME pc[t] = "ioctl", buffer_lock = NoTask, pc'[t] = "idle",
                        NamesByte(seekto)
                 PROVE  aesd_circular_buffer_find_entry_offset_for_fpos(
                          c_buffer, f_pos'[call[t].file])
                          = [slot |-> SlotAt(c_buffer, k), offset |-> off]
      OBVIOUS
    <2>1. aesd_ioctl(t)
      BY <1>1, IoctlStep
    <2>2. seekto \in aesd_seekto /\ call[t].file \in Files
      BY <1>1, AesdCharAssumption DEF DriverInv, TaskInv, LockInv
    <2>3. k \in Nat /\ off \in Nat
      BY <2>2 DEF aesd_seekto
    <2>4. c_buffer \in BufferOf(Entry) /\ IsRing(c_buffer, Entry)
      BY <1>1 DEF DriverInv, Memory
    <2>5. /\ c_buffer.out_offs \in Slots /\ \A i \in Slots : c_buffer.entry[i].size \in Nat
          /\ num_entries(c_buffer) \in 0..MaxWrites
      BY <2>4, EntrySizes, SizesByAge
    <2>6. k < num_entries(c_buffer) /\ k \in Slots
      BY <2>3, <2>5, MaxWritesAssumption DEF NamesByte, Slots
    <2>7. off < c_buffer.entry[SlotAt(c_buffer, k)].size
      <3>1. k + 1 \in 1..num_entries(c_buffer) /\ (k + 1) - 1 = k
        BY <2>3, <2>5, <2>6
      <3>2. Contents(c_buffer)[k + 1] = c_buffer.entry[SlotAt(c_buffer, k)]
        BY <3>1 DEF Contents
      <3> QED
        BY <3>2 DEF NamesByte
    <2>8. /\ SizeOfFirst(c_buffer, k) \in Nat
          /\ SizeOfFirst(c_buffer, k + 1)
               = SizeOfFirst(c_buffer, k) + c_buffer.entry[SlotAt(c_buffer, k)].size
      BY <2>3, <2>5, SizeOfFirstAdds
    <2>9. c_buffer.entry[SlotAt(c_buffer, k)].size \in Nat
      BY <2>3, <2>5, SlotAtType
    <2>10. CommandInRange(k) /\ OffsetInRange(seekto)
      BY <2>3, <2>6, <2>7, <2>9 DEF CommandInRange, OffsetInRange
    <2>11. f_pos'[call[t].file] = p
      BY <1>1, <2>1, <2>2, <2>10 DEF aesd_ioctl, DriverInv, LocalTypes
    <2>12. p = SizeOfFirst(c_buffer, k) + off
      BY DEF SeekToPosition
    <2> HIDE DEF p, k, off, seekto
    <2>13. /\ p \in Nat /\ SizeOfFirst(c_buffer, k) <= p /\ p < SizeOfFirst(c_buffer, k + 1)
           /\ p - SizeOfFirst(c_buffer, k) = off
      BY <2>3, <2>7, <2>8, <2>9, <2>12
    <2>14. aesd_circular_buffer_find_entry_offset_for_fpos(c_buffer, p)
             = [slot |-> SlotAt(c_buffer, k), offset |-> p - SizeOfFirst(c_buffer, k)]
      BY <2>4, <2>6, <2>13, EntrySizes, LookupFinds
    <2> QED
      BY <2>11, <2>13, <2>14
  <1> HIDE DEF Exact
  <1>2. DriverInv /\ [Next]_vars => [\A t \in Tasks : Exact(t)]_vars
    BY <1>1
  <1>3. Spec => [][\A t \in Tasks : Exact(t)]_vars
    BY <1>2, InitDriverInv, NextKeepsDriverInv, PTL DEF Spec
  <1> QED
    BY <1>3 DEF SeekToFindsTheByte, Exact

-----------------------------------------------------------------------------

\* The inputs and failures under which every way out of a call gives the lock back:
\* copy_from_user does not fail and no seek is refused.
NoEarlyExit ==
  /\ "efault_write" \notin Faults
  /\ \A seek \in Seeks : seek.whence # "other" /\ seek.off >= 0

\* A step of one task that keeps the lock with a task inside, or gives it back.
LEMMA StepReleases ==
  ASSUME DriverInv, LockReleased, NEW t \in Tasks, NEW where \in PCs, goto(t, where),
         \/ buffer_lock' = NoTask
         \/ buffer_lock' = t /\ where \in Critical
         \/ buffer_lock' = buffer_lock /\ (pc[t] \in Critical => where \in Critical)
  PROVE  LockReleased'
  <1>1. pc' = [pc EXCEPT ![t] = where] /\ pc \in [Tasks -> PCs]
    BY DEF goto, DriverInv, LockInv
  <1>2. pc'[t] = where /\ \A u \in Tasks \ {t} : pc'[u] = pc[u]
    BY <1>1
  <1>3. buffer_lock \in Tasks \cup {NoTask}
    BY DEF DriverInv
  <1> QED
    BY <1>2, <1>3 DEF LockReleased

\* Every way out of a call gives the lock back, but for the two after which the
\* driver keeps it: a failed copy_from_user in aesd_write and a refused seek.
THEOREM LockComesBack ==
  ASSUME NoEarlyExit
  PROVE  Spec => []LockReleased
  <1>1. Init => LockReleased
    BY DEF Init, LockReleased
  <1>2. ASSUME DriverInv, LockReleased, [Next]_vars PROVE LockReleased'
    <2>1. CASE \/ UNCHANGED vars
               \/ aesd_init_module \/ aesd_cleanup_module
               \/ \E f \in Files : aesd_open(f) \/ aesd_release(f)
      BY <1>2, <2>1 DEF vars, aesd_init_module, aesd_cleanup_module, aesd_open,
                        aesd_release, LockReleased
    <2>2. ASSUME NEW t \in Tasks, Call(t) PROVE LockReleased'
      <3>1. PICK where \in PCs : /\ goto(t, where) /\ pc[t] = "idle"
                                 /\ buffer_lock' = buffer_lock
        BY <2>2 DEF Call, CallRead, CallWrite, CallLlseek, CallIoctl, Enter, PCs
      <3> QED
        BY <1>2, <3>1, StepReleases DEF Critical
    <2>3. ASSUME NEW t \in Tasks, Lock(t) PROVE LockReleased'
      <3>1. CASE ReadFind(t)
        BY <1>2, <3>1, StepReleases DEF ReadFind, KeepLock, PCs, Critical
      <3>2. CASE WriteLock(t)
        BY <1>2, <3>2, StepReleases DEF WriteLock, KeepLock, PCs, Critical
      <3>3. CASE aesd_llseek(t)
        <4> DEFINE seek == call[t].seek
                   base == SeekBase(call[t].file, seek.whence)
        <4>1. seek \in Seeks /\ call[t].file \in Files
          BY <1>2, <3>3 DEF aesd_llseek, DriverInv, TaskInv, LockInv
        <4>2. seek.whence \in {"SET", "CUR", "END"} /\ seek.off \in Nat
          <5>1. seek \in [whence : {"SET", "CUR", "END", "other"}, off : Int]
            BY <4>1, AesdCharAssumption
          <5>2. seek.whence # "other" /\ seek.off >= 0
            BY <4>1 DEF NoEarlyExit
          <5> HIDE DEF seek
          <5> QED
            BY <5>1, <5>2
        <4>3. TotalSize(c_buffer) \in Nat
          BY <1>2, EntrySizes, SizesByAge, TotalSizeType DEF DriverInv, Memory
        <4>4. base \in Nat
          BY <1>2, <4>1, <4>2, <4>3 DEF SeekBase, DriverInv, LocalTypes
        <4>5. seek.whence # "other" /\ base + seek.off >= 0
          <5> HIDE DEF base, seek
          <5> QED
            BY <4>2, <4>4
        <4>6. buffer_lock' = buffer_lock /\ goto(t, "idle") /\ pc[t] = "llseek"
          BY <3>3, <4>5 DEF aesd_llseek, Leave
        <4> QED
          BY <1>2, <4>6, StepReleases DEF PCs, Critical
      <3>4. CASE aesd_ioctl(t)
        BY <1>2, <3>4, StepReleases DEF aesd_ioctl, Leave, PCs, Critical
      <3> QED
        BY <2>3, <3>1, <3>2, <3>3, <3>4 DEF Lock
    <2>4. ASSUME NEW t \in Tasks, Proceed(t) PROVE LockReleased'
      <3>1. CASE ReadCopy(t)
        BY <1>2, <3>1, StepReleases DEF ReadCopy, mutex_unlock, PCs
      <3>2. CASE ReadReturn(t)
        BY <1>2, <3>2, StepReleases DEF ReadReturn, VfsReturn, Leave, PCs, Critical
      <3>3. CASE WriteCopy(t)
        BY <1>2, <3>3, StepReleases DEF WriteCopy, NoEarlyExit, PCs, Critical
      <3>4. CASE WriteAppend(t)
        BY <1>2, <3>4, StepReleases DEF WriteAppend, mutex_unlock, PCs
      <3>5. CASE WriteReturn(t)
        BY <1>2, <3>5, StepReleases DEF WriteReturn, VfsReturn, Leave, PCs, Critical
      <3> QED
        BY <2>4, <3>1, <3>2, <3>3, <3>4, <3>5 DEF Proceed
    <2>5. ASSUME NEW t \in Tasks, Interrupted(t) PROVE LockReleased'
      BY <1>2, <2>5, StepReleases DEF Interrupted, Leave, PCs, Critical
    <2> QED
      BY <1>2, <2>1, <2>2, <2>3, <2>4, <2>5 DEF Next
  <1>3. DriverInv /\ LockReleased /\ [Next]_vars => LockReleased'
    BY <1>2
  <1> QED
    BY <1>1, <1>3, InitDriverInv, NextKeepsDriverInv, PTL DEF Spec

-----------------------------------------------------------------------------

\* Every allocated block of h is one that the ring c, a kbuf of k or the entry e
\* points to.
Reachable(c, k, e, h) ==
  \A a \in Addrs : h[a] # <<>> => \/ \E i \in Slots : c.entry[i].buffptr = a
                                  \/ \E t \in Tasks : k[t] = a
                                  \/ e.buffptr = a

\* Nothing is kept while the module is not loaded: aesd_init_module, which forgets
\* what the device points to, has nothing to forget.
LeakInv ==
  /\ Reachable(c_buffer, kbuf, current_entry, heap)
  /\ ~loaded => c_buffer = aesd_circular_buffer_init /\ current_entry = NoEntry

\* The failures after which memory is lost: krealloc fails and its NULL replaces
\* the pointer, or the module is unloaded with a command half written.
NothingLost == "nomem_grow" \notin Faults /\ "unload_partial" \notin Faults

\* The critical section of aesd_write loses no block.
LEMMA AppendLosesNothing ==
  ASSUME NothingLost, DriverInv, LeakInv, NEW t \in Tasks, WriteAppend(t)
  PROVE  Reachable(c_buffer', kbuf, current_entry', heap')
  <1>1. /\ pc[t] = "write_append" /\ Memory(c_buffer, kbuf, current_entry, heap)
        /\ Reachable(c_buffer, kbuf, current_entry, heap)
    BY DEF WriteAppend, DriverInv, LeakInv
  <1> DEFINE chunk == call[t].chunk
             cmd   == Command(chunk)
             rest  == Remainder(chunk)
             e(a)  == Grown(current_entry, a, cmd)
             h(a)  == GrownHeap(heap, current_entry, a, cmd)
             f(a)  == kfree(h(a), Overwritten(c_buffer))
  <1>2. ASSUME NEW a \in GrowBlocks
        PROVE  Reachable(c_buffer, kbuf, e(a), h(a))
    <2>1. Growth(c_buffer, kbuf, current_entry, heap, a, cmd, h(a))
      BY <1>1, AppendGrows
    <2>2. e(a).buffptr = a
      BY DEF Grown
    <2> HIDE DEF h, e
    <2> QED
      BY <1>1, <2>1, <2>2 DEF Reachable, Growth
  <1>3. ASSUME NEW a \in GrowBlocks, AppendKeeps(t, a)
        PROVE  Reachable(c_buffer', kbuf, current_entry', heap')
    BY <1>2, <1>3 DEF AppendKeeps
  <1>4. ASSUME NEW a \in GrowBlocks, AppendCommits(t, a)
        PROVE  Reachable(c_buffer', kbuf, current_entry', heap')
    <2>1. /\ Committed(c_buffer, kbuf, e(a), h(a), c_buffer', f(a))
          /\ Reachable(c_buffer, kbuf, e(a), h(a))
      BY <1>1, <1>2, <1>4, AppendCommitted DEF AppendCommits
    <2>2. c_buffer.in_offs \in Slots /\ IsRing(c_buffer, Entry)
      BY <1>1 DEF Memory, BufferOf
    <2>3. /\ ~c_buffer.full => c_buffer.entry[c_buffer.in_offs].buffptr = Null
          /\ c_buffer.full => c_buffer.entry[c_buffer.in_offs].buffptr = Overwritten(c_buffer)
      <3>1. c_buffer.in_offs \in Nat
        BY <2>2, MaxWritesAssumption DEF Slots
      <3> QED
        BY <2>2, <3>1 DEF IsRing, NoEntry, Overwritten
    <2> HIDE DEF e, h, f
    <2>4. Reachable(c_buffer', kbuf, NoEntry, f(a))
      <3> SUFFICES ASSUME NEW x \in Addrs, f(a)[x] # <<>>
                   PROVE  \/ \E i \in Slots : c_buffer'.entry[i].buffptr = x
                          \/ \E u \in Tasks : kbuf[u] = x
        BY DEF Reachable
      <3>1. x # Overwritten(c_buffer) /\ h(a)[x] # <<>>
        BY <2>1 DEF Committed
      <3>2. CASE e(a).buffptr = x
        <4>1. c_buffer'.entry[c_buffer.in_offs] = e(a)
          BY <2>1, <2>2 DEF Committed
        <4> QED
          BY <2>2, <3>2, <4>1
      <3>3. ASSUME NEW i \in Slots, c_buffer.entry[i].buffptr = x
            PROVE  \E j \in Slots : c_buffer'.entry[j].buffptr = x
        <4>1. i # c_buffer.in_offs
          BY <2>3, <3>1, <3>3, AesdCharAssumption
        <4>2. c_buffer'.entry[i] = c_buffer.entry[i]
          BY <2>1, <4>1 DEF Committed
        <4> QED
          BY <3>3, <4>2
      <3> QED
        BY <2>1, <3>1, <3>2, <3>3 DEF Reachable
    <2>5. CASE heap' = f(a) /\ current_entry' = NoEntry
      BY <2>4, <2>5
    <2>6. CASE \E b \in FreeBlocks(f(a)) :
                 /\ rest # <<>>
                 /\ heap' = memcpy(kmalloc(f(a), b, Len(rest)), b, 0, rest)
                 /\ current_entry' = [buffptr |-> b, size |-> Len(rest)]
      <3>1. rest \in Seq(KernelBytes)
        BY <1>1, WriteBytes DEF KernelBytes
      <3>2. Memory(c_buffer', kbuf, NoEntry, f(a))
        BY <2>1 DEF Committed
      <3> HIDE DEF rest
      <3>3. PICK b \in FreeBlocks(f(a)) :
                 /\ rest # <<>>
                 /\ heap' = memcpy(kmalloc(f(a), b, Len(rest)), b, 0, rest)
                 /\ current_entry' = [buffptr |-> b, size |-> Len(rest)]
        BY <2>6
      <3>4. Stored(c_buffer', kbuf, f(a), b, rest,
                   memcpy(kmalloc(f(a), b, Len(rest)), b, 0, rest))
        BY <3>1, <3>2, <3>3, StoreRest
      <3>5. current_entry'.buffptr = b /\ \A x \in Addrs \ {b} : heap'[x] = f(a)[x]
        BY <3>3, <3>4 DEF Stored
      <3>6. NoEntry.buffptr \notin Addrs
        BY AesdCharAssumption DEF NoEntry
      <3> QED
        BY <2>4, <3>5, <3>6 DEF Reachable
    <2> QED
      BY <1>4, <2>5, <2>6 DEF AppendCommits, e, h, f
  <1> QED
    BY <1>3, <1>4, AppendCases DEF NothingLost, AppendFails

\* Every step loses no block.
LEMMA NextKeepsLeakInv ==
  ASSUME NothingLost, DriverInv, LeakInv, [Next]_vars
  PROVE  LeakInv'
  <1>1. CASE UNCHANGED <<loaded, c_buffer, current_entry, kbuf, heap>>
    BY <1>1 DEF LeakInv
  <1>2. CASE aesd_init_module
    BY <1>2 DEF aesd_init_module, LeakInv, locals
  <1>3. CASE aesd_cleanup_module
    <2>1. \A t \in Tasks : kbuf[t] = Null
      BY <1>3, AllIdle DEF aesd_cleanup_module
    <2>2. current_entry.buffptr = Null
      BY <1>3 DEF aesd_cleanup_module, NothingLost
    <2>3. \A a \in Addrs : FreeEntries[a] = <<>>
      <3> SUFFICES ASSUME NEW a \in Addrs, FreeEntries[a] # <<>> PROVE FALSE
        OBVIOUS
      <3>1. heap[a] # <<>> /\ ~\E i \in Slots : c_buffer.entry[i].buffptr = a
        BY DEF FreeEntries
      <3> QED
        BY <2>1, <2>2, <3>1, AesdCharAssumption DEF LeakInv, Reachable
    <2> QED
      BY <1>3, <2>3 DEF aesd_cleanup_module, LeakInv, Reachable
  <1>4. ASSUME NEW t \in Tasks, WriteLock(t) PROVE LeakInv'
    <2>1. kbuf[t] = Null /\ kbuf \in [Tasks -> Addrs \cup {Null}] /\ heap \in Heaps
      BY <1>4 DEF WriteLock, DriverInv, TaskInv, Memory
    <2>2. UNCHANGED <<loaded, c_buffer, current_entry>>
      BY <1>4 DEF WriteLock, device
    <2>3. CASE UNCHANGED <<heap, kbuf>>
      BY <2>2, <2>3 DEF LeakInv
    <2>4. ASSUME NEW a \in FreeBlocks(heap),
                 heap' = kmalloc(heap, a, Len(call[t].chunk)), kbuf' = [kbuf EXCEPT ![t] = a]
          PROVE  LeakInv'
      <3>1. a \in Addrs
        BY DEF FreeBlocks
      <3>2. \A x \in Addrs \ {a} : heap'[x] = heap[x]
        BY <2>1, <2>4, <3>1 DEF kmalloc, Heaps
      <3>3. kbuf'[t] = a /\ \A u \in Tasks \ {t} : kbuf'[u] = kbuf[u]
        BY <2>1, <2>4
      <3> QED
        BY <2>1, <2>2, <3>2, <3>3, AesdCharAssumption DEF LeakInv, Reachable
    <2> QED
      BY <1>4, <2>3, <2>4 DEF WriteLock
  <1>5. ASSUME NEW t \in Tasks, WriteCopy(t) PROVE LeakInv'
    <2>1. kbuf[t] \in Addrs /\ heap \in Heaps
      BY <1>5 DEF WriteCopy, DriverInv, TaskInv, Memory
    <2>2. UNCHANGED <<loaded, c_buffer, current_entry, kbuf>>
      BY <1>5 DEF WriteCopy, device
    <2>3. \A x \in Addrs \ {kbuf[t]} : heap'[x] = heap[x]
      BY <1>5, <2>1 DEF WriteCopy, memcpy, Heaps
    <2> QED
      BY <2>1, <2>2, <2>3 DEF LeakInv, Reachable
  <1>6. ASSUME NEW t \in Tasks, WriteReturn(t) PROVE LeakInv'
    <2>1. kbuf[t] \in Addrs \cup {Null} /\ heap \in Heaps /\ kbuf \in [Tasks -> Addrs \cup {Null}]
      BY <1>6 DEF DriverInv, Memory
    <2>2. /\ UNCHANGED <<loaded, c_buffer, current_entry>> /\ heap' = kfree(heap, kbuf[t])
          /\ kbuf' = [kbuf EXCEPT ![t] = Null]
      BY <1>6 DEF WriteReturn, device
    <2>3. \A x \in Addrs : heap'[x] = IF x = kbuf[t] THEN <<>> ELSE heap[x]
      BY <2>1, <2>2, KfreeHeap
    <2>4. \A u \in Tasks \ {t} : kbuf'[u] = kbuf[u]
      BY <2>1, <2>2
    <2> QED
      BY <2>2, <2>3, <2>4 DEF LeakInv, Reachable
  <1>7. ASSUME NEW t \in Tasks, WriteAppend(t) PROVE LeakInv'
    <2>1. UNCHANGED <<loaded, kbuf>>
      BY <1>7 DEF WriteAppend
    <2>2. Reachable(c_buffer, kbuf, current_entry, heap)'
      BY <1>7, <2>1, AppendLosesNothing
    <2>3. loaded
      BY <1>7 DEF WriteAppend, DriverInv, LockInv
    <2> QED
      BY <2>1, <2>2, <2>3 DEF LeakInv
  <1>8. ASSUME NEW t \in Tasks,
               \/ Call(t) \/ ReadFind(t) \/ aesd_llseek(t) \/ aesd_ioctl(t)
               \/ ReadCopy(t) \/ ReadReturn(t) \/ Interrupted(t)
        PROVE  LeakInv'
    BY <1>1, <1>8 DEF Call, CallRead, CallWrite, CallLlseek, CallIoctl, ReadFind,
       aesd_llseek, aesd_ioctl, ReadCopy, ReadReturn, Interrupted, device, locals
  <1>9. ASSUME NEW f \in Files, aesd_open(f) \/ aesd_release(f) PROVE LeakInv'
    BY <1>1, <1>9 DEF aesd_open, aesd_release, device, locals
  <1>10. CASE UNCHANGED vars
    BY <1>1, <1>10 DEF vars
  <1> QED
    BY <1>2, <1>3, <1>4, <1>5, <1>6, <1>7, <1>8, <1>9, <1>10 DEF Next, Lock, Proceed

\* Every block the driver allocated can still be freed: the overwritten entry, the
\* local buffers and the remainders included.
THEOREM DriverLeaksNothing ==
  ASSUME NothingLost
  PROVE  Spec => []NoLeak
  <1>1. Init => LeakInv
    BY DEF Init, LeakInv, Reachable
  <1>2. LeakInv => NoLeak
    <2> SUFFICES ASSUME LeakInv, NEW a \in Addrs, heap[a] # <<>>
                 PROVE  a \in Range(Pointers)
      BY DEF NoLeak
    <2>1. Pointers = PointersOf(c_buffer, kbuf, current_entry)
      BY DEF Pointers, PointersOf
    <2>2. \E x \in Holders : Pointers[x] = a
      <3>1. /\ \A i \in Slots : Pointers[<<i, "ring">>] = c_buffer.entry[i].buffptr
            /\ \A t \in Tasks : Pointers[<<t, "kbuf">>] = kbuf[t]
            /\ Pointers[<<Null, "current">>] = current_entry.buffptr
        BY <2>1, PointersAre
      <3>2. \/ \E i \in Slots : c_buffer.entry[i].buffptr = a
            \/ \E t \in Tasks : kbuf[t] = a
            \/ current_entry.buffptr = a
        BY DEF LeakInv, Reachable
      <3> QED
        BY <3>1, <3>2, HoldersAre
    <2> QED
      BY <2>2 DEF Range, Pointers
  <1>3. DriverInv /\ LeakInv /\ [Next]_vars => LeakInv'
    BY NextKeepsLeakInv
  <1> QED
    BY <1>1, <1>2, <1>3, InitDriverInv, NextKeepsDriverInv, PTL DEF Spec

=============================================================================
