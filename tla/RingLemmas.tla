----------------------------- MODULE RingLemmas -----------------------------
(***************************************************************************)
(* Facts about the operators of CircularBuffer, for every number of slots   *)
(* and every set of entries: what aesd_circular_buffer_add_entry does to a  *)
(* ring, and what the loops that sum the sizes of its entries compute; and  *)
(* about the concatenation of a sequence of sequences.                      *)
(*                                                                          *)
(* The provers know no induction. Two lemmas stand in for it: a non-empty   *)
(* set of naturals has a least element, and so a set of naturals with 0 and *)
(* the successor of each of its members is Nat. A fact about all n is then  *)
(* proved of the set of the n that have it.                                 *)
(***************************************************************************)
EXTENDS CircularBuffer, SequencesExt, WellFoundedInduction, TLAPS

\* Every non-empty set of naturals has a least element.
LEMMA LeastExists ==
  ASSUME NEW S \in SUBSET Nat, S # {}
  PROVE  \E x \in S : \A y \in S : x <= y
  <1> DEFINE R == OpToRel(<, Nat)
  <1>1. IsWellFoundedOn(R, Nat)
    BY NatLessThanWellFounded
  <1>2. \A x, y \in Nat : <<y, x>> \in R <=> y < x
    BY DEF OpToRel
  <1> HIDE DEF R
  <1>3. PICK x \in S : \A y \in S : ~(<<y, x>> \in R)
    BY <1>1, WFMin
  <1>4. \A y \in S : ~(y < x)
    BY <1>2, <1>3
  <1>5. \A y \in S : x <= y
    BY <1>4
  <1> QED
    BY <1>5

\* Min of a non-empty set of naturals is its least element.
LEMMA MinIsLeast ==
  ASSUME NEW S \in SUBSET Nat, S # {}
  PROVE  Min(S) \in S /\ \A y \in S : Min(S) <= y
  <1>1. \E x \in S : \A y \in S : x <= y
    BY LeastExists
  <1> QED
    BY <1>1, Zenon DEF Min

\* Induction over the naturals, for the members of a set.
LEMMA NatInductive ==
  ASSUME NEW S \in SUBSET Nat, 0 \in S, \A n \in S : n + 1 \in S
  PROVE  S = Nat
  <1> SUFFICES ASSUME Nat \ S # {} PROVE FALSE
    OBVIOUS
  <1>1. PICK x \in Nat \ S : \A y \in Nat \ S : x <= y
    BY LeastExists
  <1>2. x # 0 /\ x - 1 \in Nat
    BY <1>1
  <1>3. x - 1 \in S
    BY <1>1, <1>2
  <1>4. (x - 1) + 1 \in S
    BY <1>3
  <1> QED
    BY <1>1, <1>4

\* f starts with v and goes from f[n] to f[n + 1] by the step G.
StepsOf(V) == [Nat \X V -> V]
Follows(f, v, G) == f[0] = v /\ \A n \in Nat : f[n + 1] = G[<<n, f[n]>>]

\* A value and a step define a function on the naturals.
LEMMA RecursionDefines ==
  ASSUME NEW V, NEW v \in V, NEW G \in StepsOf(V)
  PROVE  \E f \in [Nat -> V] : Follows(f, v, G)
  <1> USE DEF StepsOf
  <1> DEFINE Upto(n) == {f \in [0..n -> V] :
                           f[0] = v /\ \A k \in 0..(n - 1) : f[k + 1] = G[<<k, f[k]>>]}
             S == {n \in Nat : Upto(n) # {}}
  <1>1. S = Nat
    <2>1. 0 \in S
      <3>1. [k \in 0..0 |-> v] \in Upto(0)
        OBVIOUS
      <3> QED
        BY <3>1
    <2>2. ASSUME NEW n \in S PROVE n + 1 \in S
      <3>1. PICK f \in Upto(n) : TRUE
        OBVIOUS
      <3> DEFINE h == [k \in 0..(n + 1) |-> IF k <= n THEN f[k] ELSE G[<<n, f[n]>>]]
      <3>2. f \in [0..n -> V] /\ n \in Nat
        OBVIOUS
      <3>3. h \in [0..(n + 1) -> V]
        BY <3>2
      <3>4. h[0] = v
        BY <3>2
      <3>5. ASSUME NEW k \in 0..((n + 1) - 1) PROVE h[k + 1] = G[<<k, h[k]>>]
        <4>1. k \in 0..n /\ k + 1 \in 0..(n + 1) /\ k <= n /\ k \in 0..(n + 1)
          BY <3>2
        <4>2. CASE k = n
          BY <3>2, <4>1, <4>2
        <4>3. CASE k # n
          <5>1. k \in 0..(n - 1) /\ k + 1 <= n
            BY <3>2, <4>1, <4>3
          <5>2. f[k + 1] = G[<<k, f[k]>>]
            BY <5>1
          <5> QED
            BY <4>1, <5>1, <5>2
        <4> QED
          BY <4>2, <4>3
      <3>6. h \in Upto(n + 1)
        BY <3>3, <3>4, <3>5
      <3> HIDE DEF h, Upto
      <3>7. n + 1 \in Nat /\ Upto(n + 1) # {}
        BY <3>2, <3>6
      <3> QED
        BY <3>7
    <2> HIDE DEF S
    <2>3. S \in SUBSET Nat
      BY DEF S
    <2> QED
      BY <2>1, <2>2, <2>3, NatInductive
  <1>2. ASSUME NEW n \in Nat, NEW f \in Upto(n), NEW h \in Upto(n + 1)
        PROVE  f[n] = h[n]
    <2> DEFINE A == {k \in Nat : k <= n => f[k] = h[k]}
    <2>1. 0 \in A
      OBVIOUS
    <2>2. ASSUME NEW k \in A PROVE k + 1 \in A
      <3>1. CASE k + 1 <= n
        <4>1. k \in 0..(n - 1) /\ k \in 0..((n + 1) - 1) /\ k <= n
          BY <3>1
        <4>2. f[k] = h[k]
          BY <4>1
        <4>3. f[k + 1] = G[<<k, f[k]>>] /\ h[k + 1] = G[<<k, h[k]>>]
          BY <4>1
        <4> QED
          BY <4>2, <4>3
      <3> QED
        BY <3>1
    <2>3. A \in SUBSET Nat
      OBVIOUS
    <2>4. A = Nat
      <3> HIDE DEF A
      <3> QED
        BY <2>1, <2>2, <2>3, NatInductive
    <2>5. n \in A
      BY <2>4
    <2> QED
      BY <2>5
  <1> DEFINE F(n) == CHOOSE f : f \in Upto(n)
             T == [n \in Nat |-> F(n)[n]]
  <1>3. ASSUME NEW n \in Nat PROVE F(n) \in Upto(n)
    <2>1. n \in S
      BY <1>1
    <2>2. \E f : f \in Upto(n)
      BY <2>1
    <2> HIDE DEF Upto
    <2> QED
      BY <2>2
  <1> HIDE DEF F, S
  <1>4. T \in [Nat -> V]
    <2>1. ASSUME NEW n \in Nat PROVE F(n)[n] \in V
      BY <1>3
    <2> QED
      BY <2>1
  <1>5. T[0] = v
    BY <1>3
  <1>6. ASSUME NEW n \in Nat PROVE T[n + 1] = G[<<n, T[n]>>]
    <2>1. n + 1 \in Nat /\ n \in 0..((n + 1) - 1)
      OBVIOUS
    <2>2. F(n) \in Upto(n) /\ F(n + 1) \in Upto(n + 1)
      BY <1>3, <2>1
    <2>3. F(n + 1)[n + 1] = G[<<n, F(n + 1)[n]>>]
      BY <2>1, <2>2
    <2>4. F(n)[n] = F(n + 1)[n]
      BY <1>2, <2>2
    <2> QED
      BY <2>1, <2>3, <2>4
  <1> HIDE DEF T
  <1> QED
    BY <1>4, <1>5, <1>6 DEF Follows

-----------------------------------------------------------------------------

\* The modulo of an offset that has run over the end of the array at most once.
LEMMA WrapOnce ==
  ASSUME NEW a \in Nat, NEW n \in Nat, n > 0
  PROVE  /\ a < n => a % n = a
         /\ n <= a /\ a < n + n => a % n = a - n
  OBVIOUS

\* Advance is the successor on 0..MaxWrites-1, with 0 after the last slot.
LEMMA AdvanceWraps ==
  ASSUME NEW i \in Slots
  PROVE  Advance(i) = IF i = MaxWrites - 1 THEN 0 ELSE i + 1
  <1>1. MaxWrites \in Nat /\ MaxWrites > 0 /\ i \in Nat /\ i < MaxWrites
    BY MaxWritesAssumption DEF Slots
  <1>2. CASE i = MaxWrites - 1
    BY <1>1, <1>2, WrapOnce DEF Advance
  <1>3. CASE i # MaxWrites - 1
    <2>1. i + 1 \in Nat /\ i + 1 < MaxWrites
      BY <1>1, <1>3
    <2> QED
      BY <1>1, <1>3, <2>1, WrapOnce DEF Advance
  <1> QED
    BY <1>2, <1>3

\* The k-th oldest entry is k slots after out_offs, round the end of the array.
LEMMA SlotAtWraps ==
  ASSUME NEW b, b.out_offs \in Slots, NEW k \in Slots
  PROVE  SlotAt(b, k) = IF b.out_offs + k < MaxWrites
                        THEN b.out_offs + k
                        ELSE b.out_offs + k - MaxWrites
  <1>1. /\ MaxWrites \in Nat /\ MaxWrites > 0
        /\ b.out_offs + k \in Nat
        /\ b.out_offs + k < MaxWrites + MaxWrites
    BY MaxWritesAssumption DEF Slots
  <1>2. CASE b.out_offs + k < MaxWrites
    BY <1>1, <1>2, WrapOnce DEF SlotAt
  <1>3. CASE ~(b.out_offs + k < MaxWrites)
    <2> DEFINE sum == b.out_offs + k
    <2>1. sum \in Nat /\ MaxWrites <= sum /\ sum < MaxWrites + MaxWrites
      BY <1>1, <1>3
    <2> HIDE DEF sum
    <2>2. sum % MaxWrites = sum - MaxWrites
      BY <1>1, <2>1, WrapOnce
    <2>3. SlotAt(b, k) = sum % MaxWrites
      BY Zenon DEF SlotAt, sum
    <2>4. SlotAt(b, k) = sum - MaxWrites
      BY <2>2, <2>3
    <2> QED
      BY <1>1, <1>3, <2>4 DEF sum, Slots
  <1> QED
    BY <1>2, <1>3

\* aesd_circular_buffer_add_entry keeps the ring well formed, provided that the
\* entries are not empty: the full flag is set from the size of an entry.
LEMMA AddKeepsRing ==
  ASSUME NEW E, \A x \in E : x.size \in Nat \ {0},
         NEW b \in BufferOf(E), IsRing(b, E), NEW e \in E
  PROVE  /\ aesd_circular_buffer_add_entry(b, e) \in BufferOf(E)
         /\ IsRing(aesd_circular_buffer_add_entry(b, e), E)
  <1> DEFINE c == aesd_circular_buffer_add_entry(b, e)
  <1>1. MaxWrites \in Nat /\ MaxWrites > 0
    BY MaxWritesAssumption
  <1>2. /\ b.entry \in [Slots -> E \cup {NoEntry}]
        /\ b.in_offs \in Slots /\ b.out_offs \in Slots /\ b.full \in BOOLEAN
    BY DEF BufferOf
  <1>3. /\ Advance(b.in_offs) = IF b.in_offs = MaxWrites - 1 THEN 0 ELSE b.in_offs + 1
        /\ Advance(b.out_offs) = IF b.out_offs = MaxWrites - 1 THEN 0 ELSE b.out_offs + 1
    BY <1>2, AdvanceWraps
  <1>4. Advance(b.in_offs) \in Slots /\ OutAfterAdd(b) \in Slots
    BY <1>1, <1>2, <1>3 DEF Slots, OutAfterAdd
  <1>5. /\ c.entry = [b.entry EXCEPT ![b.in_offs] = e]
        /\ c.in_offs = Advance(b.in_offs)
        /\ c.out_offs = OutAfterAdd(b)
        /\ c.full = (b.full \/ (c.in_offs = c.out_offs /\ c.entry[c.in_offs].size # 0))
    BY DEF aesd_circular_buffer_add_entry
  <1>6. c \in BufferOf(E)
    BY <1>2, <1>4 DEF aesd_circular_buffer_add_entry, BufferOf
  <1>7. /\ c.entry[b.in_offs] = e
        /\ \A i \in Slots \ {b.in_offs} : c.entry[i] = b.entry[i]
    BY <1>2, <1>5
  <1>8. IsRing(c, E)
    <2>1. CASE b.full
      <3>1. c.full /\ c.in_offs = c.out_offs
        BY <1>2, <1>5, <2>1 DEF IsRing, OutAfterAdd
      <3>2. \A i \in Slots : c.entry[i] \in E
        BY <1>2, <1>7, <2>1 DEF IsRing
      <3> QED
        BY <3>1, <3>2 DEF IsRing
    <2>2. CASE ~b.full /\ b.in_offs = MaxWrites - 1
      <3>1. c.in_offs = 0 /\ c.out_offs = 0
        BY <1>3, <1>5, <2>2 DEF IsRing, OutAfterAdd
      <3>2. \A i \in Slots : c.entry[i] \in E
        BY <1>1, <1>2, <1>7, <2>2 DEF IsRing, Slots
      <3>3. c.entry[0].size # 0
        BY <1>1, <3>2 DEF Slots
      <3> QED
        BY <1>5, <3>1, <3>2, <3>3 DEF IsRing
    <2>3. CASE ~b.full /\ b.in_offs # MaxWrites - 1
      <3>1. c.in_offs = b.in_offs + 1 /\ c.out_offs = 0
        BY <1>3, <1>5, <2>3 DEF IsRing, OutAfterAdd
      <3>2. c.full = FALSE
        BY <1>1, <1>2, <1>5, <2>3, <3>1 DEF Slots
      <3>3. ASSUME NEW i \in Slots
            PROVE  IF i < c.in_offs THEN c.entry[i] \in E ELSE c.entry[i] = NoEntry
        <4>1. IF i < b.in_offs THEN b.entry[i] \in E ELSE b.entry[i] = NoEntry
          BY <1>2, <2>3 DEF IsRing
        <4>2. i \in Nat /\ b.in_offs \in Nat
          BY <1>2 DEF Slots
        <4>3. CASE i = b.in_offs
          BY <1>1, <1>7, <3>1, <4>2, <4>3
        <4>4. CASE i # b.in_offs
          <5>1. c.entry[i] = b.entry[i]
            BY <1>7, <4>4
          <5>2. i < c.in_offs <=> i < b.in_offs
            BY <3>1, <4>2, <4>4
          <5> QED
            BY <4>1, <5>1, <5>2
        <4> QED
          BY <4>3, <4>4
      <3> QED
        BY <3>1, <3>2, <3>3 DEF IsRing
    <2> QED
      BY <1>2, <2>1, <2>2, <2>3
  <1> QED
    BY <1>6, <1>8

\* Two sequences of the same length with the same elements are equal.
LEMMA SeqEqual ==
  ASSUME NEW S, NEW s \in Seq(S), NEW t \in Seq(S), Len(s) = Len(t),
         \A i \in 1..Len(s) : s[i] = t[i]
  PROVE  s = t
  OBVIOUS

\* The entries of a ring in age order are a sequence of num_entries members of E.
LEMMA ContentsType ==
  ASSUME NEW E, NEW b \in BufferOf(E), IsRing(b, E)
  PROVE  /\ num_entries(b) \in 0..MaxWrites
         /\ num_entries(b) < MaxWrites <=> ~b.full
         /\ Contents(b) \in Seq(E)
         /\ Len(Contents(b)) = num_entries(b)
  <1>1. MaxWrites \in Nat /\ MaxWrites > 0
    BY MaxWritesAssumption
  <1>2. b.in_offs \in Slots /\ b.out_offs \in Slots /\ b.full \in BOOLEAN
    BY DEF BufferOf
  <1>3. /\ num_entries(b) \in 0..MaxWrites
        /\ num_entries(b) < MaxWrites <=> ~b.full
    BY <1>1, <1>2 DEF num_entries, IsRing, Slots
  <1>4. ASSUME NEW k \in 1..num_entries(b)
        PROVE  b.entry[SlotAt(b, k - 1)] \in E
    <2>1. k - 1 \in Slots
      BY <1>1, <1>3 DEF Slots
    <2>2. SlotAt(b, k - 1) = IF b.out_offs + (k - 1) < MaxWrites
                             THEN b.out_offs + (k - 1)
                             ELSE b.out_offs + (k - 1) - MaxWrites
      BY <1>2, <2>1, SlotAtWraps
    <2>3. SlotAt(b, k - 1) \in Slots
      BY <1>1, <1>2, <2>1, <2>2 DEF Slots
    <2>4. CASE b.full
      BY <2>3, <2>4 DEF IsRing
    <2>5. CASE ~b.full
      <3>1. b.out_offs = 0 /\ k - 1 < b.in_offs
        BY <1>1, <1>2, <2>1, <2>5 DEF IsRing, num_entries, Slots
      <3>2. SlotAt(b, k - 1) < b.in_offs
        BY <1>1, <2>1, <2>2, <3>1 DEF Slots
      <3> QED
        BY <2>3, <2>5, <3>2 DEF IsRing
    <2> QED
      BY <2>4, <2>5
  <1>5. Contents(b) \in [1..num_entries(b) -> E]
    BY <1>4 DEF Contents
  <1> QED
    BY <1>3, <1>5

\* Adding to a ring with room appends to the entries in age order.
LEMMA AddAppends ==
  ASSUME NEW E, \A x \in E : x.size \in Nat \ {0},
         NEW b \in BufferOf(E), IsRing(b, E), ~b.full, NEW e \in E
  PROVE  Contents(aesd_circular_buffer_add_entry(b, e)) = Append(Contents(b), e)
  <1> DEFINE c == aesd_circular_buffer_add_entry(b, e)
  <1>1. MaxWrites \in Nat /\ MaxWrites > 0
    BY MaxWritesAssumption
  <1>2. /\ b.entry \in [Slots -> E \cup {NoEntry}]
        /\ b.in_offs \in Slots /\ b.out_offs = 0
    BY DEF BufferOf, IsRing
  <1>3. c \in BufferOf(E) /\ IsRing(c, E)
    BY AddKeepsRing
  <1>4. /\ c.entry = [b.entry EXCEPT ![b.in_offs] = e]
        /\ c.in_offs = (IF b.in_offs = MaxWrites - 1 THEN 0 ELSE b.in_offs + 1)
        /\ c.out_offs = 0
    BY <1>2, AdvanceWraps DEF aesd_circular_buffer_add_entry, OutAfterAdd
  <1>5. num_entries(b) = b.in_offs /\ num_entries(c) = b.in_offs + 1
    <2>1. num_entries(b) = b.in_offs
      BY <1>1, <1>2 DEF num_entries, Slots
    <2>2. CASE b.in_offs = MaxWrites - 1
      <3>1. c.entry[0] \in E
        BY <1>1, <1>2, <1>4, <2>2 DEF IsRing, Slots
      <3>2. c.full
        BY <1>4, <2>2, <3>1 DEF aesd_circular_buffer_add_entry
      <3> QED
        BY <1>1, <2>1, <2>2, <3>2 DEF num_entries
    <2>3. CASE b.in_offs # MaxWrites - 1
      <3>1. ~c.full
        BY <1>1, <1>2, <1>3, <1>4, <2>3 DEF IsRing, Slots
      <3> QED
        BY <1>1, <1>2, <1>4, <2>1, <2>3, <3>1 DEF num_entries, Slots
    <2> QED
      BY <2>2, <2>3
  <1>6. \A k \in Slots : SlotAt(b, k) = k /\ SlotAt(c, k) = k
    <2>1. 0 \in Slots
      BY <1>1 DEF Slots
    <2> QED
      BY <1>1, <1>2, <1>4, <2>1, SlotAtWraps DEF Slots
  <1>7. /\ Contents(b) \in Seq(E) /\ Len(Contents(b)) = b.in_offs
        /\ Contents(c) \in Seq(E) /\ Len(Contents(c)) = b.in_offs + 1
    BY <1>3, <1>5, ContentsType
  <1>8. ASSUME NEW k \in 1..(b.in_offs + 1)
        PROVE  Contents(c)[k] = Append(Contents(b), e)[k]
    <2>1. k - 1 \in Slots
      BY <1>1, <1>2 DEF Slots
    <2>2. Contents(c)[k] = c.entry[k - 1]
      BY <1>5, <1>6, <2>1 DEF Contents
    <2>3. CASE k = b.in_offs + 1
      <3>0. k - 1 = b.in_offs
        BY <1>2, <2>3 DEF Slots
      <3>1. c.entry[k - 1] = e
        BY <1>2, <1>4, <3>0
      <3>2. k = Len(Contents(b)) + 1
        BY <1>7, <2>3
      <3>3. Append(Contents(b), e)[k] = e
        BY <1>7, <3>2
      <3> QED
        BY <2>2, <3>1, <3>3
    <2>4. CASE k # b.in_offs + 1
      <3>1. k \in 1..b.in_offs /\ k - 1 # b.in_offs
        BY <1>2, <2>4 DEF Slots
      <3>2. Contents(b)[k] = b.entry[k - 1]
        BY <1>5, <1>6, <2>1, <3>1 DEF Contents
      <3>3. c.entry[k - 1] = b.entry[k - 1]
        BY <1>2, <1>4, <2>1, <3>1
      <3> QED
        BY <1>7, <2>2, <3>1, <3>2, <3>3
    <2> QED
      BY <2>3, <2>4
  <1>9. /\ Append(Contents(b), e) \in Seq(E)
        /\ Len(Append(Contents(b), e)) = b.in_offs + 1
    BY <1>7
  <1> HIDE DEF c
  <1> QED
    BY <1>7, <1>8, <1>9, SeqEqual DEF c

\* Adding to a full ring drops the oldest entry, appends the new one, and hands
\* back the memory of the entry that was dropped.
LEMMA AddReplacesOldest ==
  ASSUME NEW E, \A x \in E : x.size \in Nat \ {0},
         NEW b \in BufferOf(E), IsRing(b, E), b.full, NEW e \in E
  PROVE  /\ Contents(aesd_circular_buffer_add_entry(b, e))
              = Append(Tail(Contents(b)), e)
         /\ Overwritten(b) = Head(Contents(b)).buffptr
  <1> DEFINE c == aesd_circular_buffer_add_entry(b, e)
             t == Tail(Contents(b))
  <1>1. MaxWrites \in Nat /\ MaxWrites > 0
    BY MaxWritesAssumption
  <1>2. /\ b.entry \in [Slots -> E \cup {NoEntry}]
        /\ b.in_offs \in Slots /\ b.out_offs = b.in_offs
    BY DEF BufferOf, IsRing
  <1>3. c \in BufferOf(E) /\ IsRing(c, E)
    BY AddKeepsRing
  <1>4. /\ c.entry = [b.entry EXCEPT ![b.in_offs] = e]
        /\ c.out_offs = (IF b.in_offs = MaxWrites - 1 THEN 0 ELSE b.in_offs + 1)
        /\ c.full
    BY <1>2, AdvanceWraps DEF aesd_circular_buffer_add_entry, OutAfterAdd
  <1>5. num_entries(b) = MaxWrites /\ num_entries(c) = MaxWrites
    BY <1>4 DEF num_entries
  <1>6. c.out_offs \in Slots
    BY <1>3 DEF BufferOf
  <1>7. \A k \in Slots :
          /\ SlotAt(b, k) = IF b.in_offs + k < MaxWrites
                            THEN b.in_offs + k ELSE b.in_offs + k - MaxWrites
          /\ SlotAt(c, k) = IF c.out_offs + k < MaxWrites
                            THEN c.out_offs + k ELSE c.out_offs + k - MaxWrites
    BY <1>2, <1>6, SlotAtWraps
  <1>8. /\ Contents(b) \in Seq(E) /\ Len(Contents(b)) = MaxWrites
        /\ Contents(c) \in Seq(E) /\ Len(Contents(c)) = MaxWrites
    BY <1>3, <1>5, ContentsType
  <1>9. /\ t \in Seq(E) /\ Len(t) = MaxWrites - 1
        /\ \A k \in 1..(MaxWrites - 1) : t[k] = Contents(b)[k + 1]
    BY <1>1, <1>8
  <1> HIDE DEF t, c
  <1>10. /\ Append(t, e) \in Seq(E) /\ Len(Append(t, e)) = MaxWrites
    BY <1>1, <1>9
  <1>11. ASSUME NEW k \in 1..MaxWrites
         PROVE  Contents(c)[k] = Append(t, e)[k]
    <2>1. k - 1 \in Slots
      BY <1>1 DEF Slots
    <2>2. Contents(c)[k] = c.entry[SlotAt(c, k - 1)]
      BY <1>5 DEF Contents
    <2>3. CASE k = MaxWrites
      <3>1. SlotAt(c, k - 1) = b.in_offs
        BY <1>1, <1>2, <1>4, <1>7, <2>1, <2>3 DEF Slots
      <3>2. Contents(c)[k] = e
        BY <1>2, <1>4, <2>2, <3>1
      <3>3. k = Len(t) + 1
        BY <1>1, <1>9, <2>3
      <3>4. Append(t, e)[k] = e
        BY <1>9, <3>3
      <3> QED
        BY <3>2, <3>4
    <2>4. CASE k # MaxWrites
      <3>1. k \in 1..(MaxWrites - 1) /\ k \in Slots
        BY <1>1, <2>4 DEF Slots
      <3>2. SlotAt(c, k - 1) = SlotAt(b, k)
        <4>1. b.in_offs \in Int /\ k \in Int /\ b.in_offs < MaxWrites /\ 0 <= b.in_offs
          BY <1>1, <1>2 DEF Slots
        <4>2. SlotAt(c, k - 1) = IF c.out_offs + (k - 1) < MaxWrites
                                 THEN c.out_offs + (k - 1)
                                 ELSE c.out_offs + (k - 1) - MaxWrites
          BY <1>7, <2>1
        <4>3. SlotAt(b, k) = IF b.in_offs + k < MaxWrites
                             THEN b.in_offs + k ELSE b.in_offs + k - MaxWrites
          BY <1>7, <3>1
        <4>4. CASE b.in_offs = MaxWrites - 1
          <5>1. c.out_offs = 0
            BY <1>4, <4>4
          <5> QED
            BY <1>1, <3>1, <4>1, <4>2, <4>3, <4>4, <5>1
        <4>5. CASE b.in_offs # MaxWrites - 1
          <5>1. c.out_offs = b.in_offs + 1
            BY <1>4, <4>5
          <5>2. c.out_offs + (k - 1) = b.in_offs + k
            BY <4>1, <5>1
          <5> QED
            BY <1>1, <4>1, <4>2, <4>3, <5>1, <5>2
        <4> QED
          BY <4>4, <4>5
      <3>3. SlotAt(b, k) # b.in_offs /\ SlotAt(b, k) \in Slots
        <4>1. /\ b.in_offs \in Int /\ 0 <= b.in_offs /\ b.in_offs < MaxWrites
              /\ k \in Int /\ 1 <= k /\ k < MaxWrites
          BY <1>1, <1>2, <3>1 DEF Slots
        <4>2. SlotAt(b, k) = IF b.in_offs + k < MaxWrites
                             THEN b.in_offs + k ELSE b.in_offs + k - MaxWrites
          BY <1>7, <3>1
        <4>3. /\ SlotAt(b, k) \in Int /\ SlotAt(b, k) # b.in_offs
              /\ 0 <= SlotAt(b, k) /\ SlotAt(b, k) <= MaxWrites - 1
          BY <1>1, <4>1, <4>2
        <4> QED
          BY <1>1, <4>3 DEF Slots
      <3>4. Contents(c)[k] = b.entry[SlotAt(b, k)]
        BY <1>2, <1>4, <2>2, <3>2, <3>3
      <3>5. k + 1 \in 1..MaxWrites /\ (k + 1) - 1 = k
        BY <1>1, <3>1
      <3>6. Contents(b)[k + 1] = b.entry[SlotAt(b, k)]
        BY <1>5, <3>5 DEF Contents
      <3>7. Append(t, e)[k] = t[k]
        BY <1>9, <3>1
      <3> QED
        BY <1>9, <3>1, <3>4, <3>6, <3>7
    <2> QED
      BY <2>3, <2>4
  <1>12. Contents(c) = Append(t, e)
    BY <1>8, <1>10, <1>11, SeqEqual
  <1>13. Overwritten(b) = Head(Contents(b)).buffptr
    <2>1. 0 \in Slots /\ 1 \in 1..MaxWrites /\ 1 - 1 = 0
      BY <1>1 DEF Slots
    <2>2. SlotAt(b, 0) = b.in_offs
      BY <1>1, <1>2, <1>7, <2>1 DEF Slots
    <2>3. Contents(b)[1] = b.entry[b.in_offs]
      BY <1>5, <2>1, <2>2 DEF Contents
    <2>4. Head(Contents(b)) = Contents(b)[1]
      BY <1>1, <1>8
    <2> QED
      BY <2>3, <2>4 DEF Overwritten
  <1> QED
    BY <1>12, <1>13 DEF c, t

-----------------------------------------------------------------------------

\* The sums of the first n numbers of g.
LEMMA SumsExist ==
  ASSUME NEW g \in [Nat -> Nat]
  PROVE  \E T \in [Nat -> Nat] : T[0] = 0 /\ \A n \in Nat : T[n + 1] = T[n] + g[n]
  <1> DEFINE G == [p \in Nat \X Nat |-> p[2] + g[p[1]]]
  <1>1. G \in [Nat \X Nat -> Nat]
    OBVIOUS
  <1>2. \A n, m \in Nat : G[<<n, m>>] = m + g[n]
    OBVIOUS
  <1> HIDE DEF G
  <1>3. PICK T \in [Nat -> Nat] : T[0] = 0 /\ \A n \in Nat : T[n + 1] = G[<<n, T[n]>>]
    <2>1. 0 \in Nat /\ G \in StepsOf(Nat)
      BY <1>1 DEF StepsOf
    <2>2. \E T \in [Nat -> Nat] : Follows(T, 0, G)
      BY <2>1, RecursionDefines
    <2> QED
      BY <2>2 DEF Follows
  <1>4. \A n \in Nat : T[n + 1] = T[n] + g[n]
    BY <1>2, <1>3
  <1> QED
    BY <1>3, <1>4

\* A loop that adds the first n numbers of g computes their sum.
LEMMA LoopComputesSum ==
  ASSUME NEW g \in [Nat -> Nat], NEW T \in [Nat -> Nat], T[0] = 0,
         \A k \in Nat : T[k + 1] = T[k] + g[k], NEW n \in Nat
  PROVE  (CHOOSE f : f = [k \in 0..n |-> IF k = 0 THEN 0 ELSE f[k - 1] + g[k - 1]])[n]
           = T[n]
  <1> DEFINE Loop(f) == f = [k \in 0..n |-> IF k = 0 THEN 0 ELSE f[k - 1] + g[k - 1]]
             t == [k \in 0..n |-> T[k]]
  <1>1. Loop(t)
    <2>1. ASSUME NEW k \in 0..n, k # 0 PROVE T[k] = t[k - 1] + g[k - 1]
      <3>1. k - 1 \in Nat /\ k - 1 \in 0..n /\ (k - 1) + 1 = k
        BY <2>1
      <3> QED
        BY <3>1
    <2>2. [k \in 0..n |-> IF k = 0 THEN 0 ELSE t[k - 1] + g[k - 1]]
            = [k \in 0..n |-> T[k]]
      BY <2>1
    <2> QED
      BY <2>2
  <1> DEFINE c == CHOOSE f : Loop(f)
  <1>2. Loop(c)
    <2> HIDE DEF Loop, t
    <2> QED
      BY <1>1
  <1> HIDE DEF c
  <1> DEFINE A == {k \in Nat : k <= n => c[k] = T[k]}
  <1>3. 0 \in A
    BY <1>2
  <1>4. ASSUME NEW k \in A PROVE k + 1 \in A
    <2>1. CASE k + 1 <= n
      <3>1. k + 1 \in 0..n /\ k + 1 # 0 /\ (k + 1) - 1 = k /\ k <= n
        BY <2>1
      <3>2. c[k + 1] = c[k] + g[k]
        BY <1>2, <3>1
      <3> QED
        BY <3>1, <3>2
    <2> QED
      BY <2>1
  <1>5. A = Nat
    <2>1. A \in SUBSET Nat
      OBVIOUS
    <2> HIDE DEF A
    <2> QED
      BY <1>3, <1>4, <2>1, NatInductive
  <1>6. c[n] = T[n]
    <2>1. n \in A
      BY <1>5
    <2> QED
      BY <2>1
  <1> QED
    BY <1>6 DEF c

\* Every slot index stays in the array, however far the loops walk round it.
LEMMA SlotAtType ==
  ASSUME NEW b, b.out_offs \in Slots, NEW k \in Nat
  PROVE  SlotAt(b, k) \in Slots
  <1>1. MaxWrites \in Nat /\ MaxWrites > 0 /\ b.out_offs + k \in Nat
    BY MaxWritesAssumption DEF Slots
  <1> DEFINE sum == b.out_offs + k
  <1> HIDE DEF sum
  <1>2. sum % MaxWrites \in 0..(MaxWrites - 1)
    BY <1>1 DEF sum
  <1> QED
    BY <1>2, Zenon DEF SlotAt, Slots, sum

\* The loops of find_entry_offset_for_fpos and aesd_ioctl add up the sizes of
\* the oldest entries one by one.
LEMMA SizeOfFirstAdds ==
  ASSUME NEW b, b.out_offs \in Slots, \A i \in Slots : b.entry[i].size \in Nat
  PROVE  /\ SizeOfFirst(b, 0) = 0
         /\ \A n \in Nat : /\ SizeOfFirst(b, n) \in Nat
                           /\ SizeOfFirst(b, n + 1)
                                = SizeOfFirst(b, n) + b.entry[SlotAt(b, n)].size
  <1> DEFINE g == [k \in Nat |-> b.entry[SlotAt(b, k)].size]
  <1>1. g \in [Nat -> Nat]
    BY SlotAtType
  <1> HIDE DEF g
  <1>2. PICK T \in [Nat -> Nat] : T[0] = 0 /\ \A n \in Nat : T[n + 1] = T[n] + g[n]
    BY <1>1, SumsExist
  <1>3. ASSUME NEW n \in Nat PROVE SizeOfFirst(b, n) = T[n]
    <2> DEFINE Body(f) == [k \in 0..n |-> IF k = 0 THEN 0
                              ELSE f[k - 1] + b.entry[SlotAt(b, k - 1)].size]
               BodyG(f) == [k \in 0..n |-> IF k = 0 THEN 0 ELSE f[k - 1] + g[k - 1]]
    <2>1. ASSUME NEW f PROVE Body(f) = BodyG(f)
      <3>1. \A k \in 0..n : k # 0 => b.entry[SlotAt(b, k - 1)].size = g[k - 1]
        BY DEF g
      <3> QED
        BY <3>1
    <2>2. SizeOfFirst(b, n) = (CHOOSE f : f = Body(f))[n]
      BY DEF SizeOfFirst
    <2>3. (CHOOSE f : f = BodyG(f))[n] = T[n]
      BY <1>1, <1>2, LoopComputesSum
    <2>4. (CHOOSE f : f = Body(f)) = (CHOOSE f : f = BodyG(f))
      <3> HIDE DEF Body, BodyG
      <3> QED
        BY <2>1
    <2> HIDE DEF Body, BodyG
    <2> QED
      BY <2>2, <2>3, <2>4
  <1>4. \A n \in Nat : g[n] = b.entry[SlotAt(b, n)].size
    BY DEF g
  <1>5. ASSUME NEW n \in Nat
        PROVE  /\ SizeOfFirst(b, n) \in Nat
               /\ SizeOfFirst(b, n + 1) = SizeOfFirst(b, n) + b.entry[SlotAt(b, n)].size
    <2>1. n + 1 \in Nat
      OBVIOUS
    <2> QED
      BY <1>2, <1>3, <1>4, <2>1
  <1> QED
    BY <1>2, <1>3, <1>5

\* The loop of aesd_llseek adds up the sizes of the slots one by one.
LEMMA TotalSizeAdds ==
  ASSUME NEW b, NEW g \in [Nat -> Nat], \A i \in Slots : g[i] = b.entry[i].size,
         NEW T \in [Nat -> Nat], T[0] = 0, \A n \in Nat : T[n + 1] = T[n] + g[n]
  PROVE  TotalSize(b) = T[MaxWrites]
  <1>1. MaxWrites \in Nat
    BY MaxWritesAssumption
  <1> DEFINE Body(f) == [k \in 0..MaxWrites |-> IF k = 0 THEN 0
                            ELSE f[k - 1] + b.entry[k - 1].size]
             BodyG(f) == [k \in 0..MaxWrites |-> IF k = 0 THEN 0 ELSE f[k - 1] + g[k - 1]]
  <1>2. ASSUME NEW f PROVE Body(f) = BodyG(f)
    <2>1. \A k \in 0..MaxWrites : k # 0 => b.entry[k - 1].size = g[k - 1]
      BY <1>1 DEF Slots
    <2> QED
      BY <2>1
  <1>3. TotalSize(b) = (CHOOSE f : f = Body(f))[MaxWrites]
    BY DEF TotalSize
  <1>4. (CHOOSE f : f = BodyG(f))[MaxWrites] = T[MaxWrites]
    BY <1>1, LoopComputesSum
  <1>5. (CHOOSE f : f = Body(f)) = (CHOOSE f : f = BodyG(f))
    <2> HIDE DEF Body, BodyG
    <2> QED
      BY <1>2
  <1> HIDE DEF Body, BodyG
  <1> QED
    BY <1>3, <1>4, <1>5

\* It walks the slots in the order of the array, the others in the order of their
\* age; the sum is the same.
LEMMA TotalIsRotation ==
  ASSUME NEW b, b.out_offs \in Slots, \A i \in Slots : b.entry[i].size \in Nat
  PROVE  TotalSize(b) = SizeOfFirst(b, MaxWrites) /\ TotalSize(b) \in Nat
  <1> DEFINE g == [k \in Nat |-> IF k \in Slots THEN b.entry[k].size ELSE 0]
             o == b.out_offs
             M == MaxWrites
  <1>1. g \in [Nat -> Nat] /\ \A i \in Slots : g[i] = b.entry[i].size
    BY MaxWritesAssumption DEF Slots
  <1> HIDE DEF g
  <1>2. PICK T \in [Nat -> Nat] : T[0] = 0 /\ \A n \in Nat : T[n + 1] = T[n] + g[n]
    BY <1>1, SumsExist
  <1>3. TotalSize(b) = T[M]
    BY <1>1, <1>2, TotalSizeAdds
  <1>4. M \in Nat /\ o \in Nat /\ o < M
    BY MaxWritesAssumption DEF Slots
  <1>5. /\ SizeOfFirst(b, 0) = 0
        /\ \A n \in Nat : /\ SizeOfFirst(b, n) \in Nat
                          /\ SizeOfFirst(b, n + 1) = SizeOfFirst(b, n) + b.entry[SlotAt(b, n)].size
    BY SizeOfFirstAdds
  <1> DEFINE A == {n \in Nat : n <= M =>
                     SizeOfFirst(b, n) = IF o + n <= M THEN T[o + n] - T[o]
                                         ELSE T[M] - T[o] + T[o + n - M]}
  <1>6. 0 \in A
    BY <1>2, <1>4, <1>5
  <1>7. ASSUME NEW n \in A PROVE n + 1 \in A
    <2> SUFFICES ASSUME n + 1 <= M
                 PROVE  SizeOfFirst(b, n + 1) = IF o + (n + 1) <= M THEN T[o + (n + 1)] - T[o]
                                                ELSE T[M] - T[o] + T[o + (n + 1) - M]
      BY DEF A
    <2>1. n \in Slots /\ n \in Nat
      BY <1>4 DEF Slots
    <2> DEFINE s == SizeOfFirst(b, n)
               i == SlotAt(b, n)
    <2>2. s = (IF o + n <= M THEN T[o + n] - T[o] ELSE T[M] - T[o] + T[o + n - M])
          /\ s \in Nat
      BY <1>4, <1>5, <2>1
    <2>3. i = IF o + n < M THEN o + n ELSE o + n - M
      BY <2>1, SlotAtWraps
    <2>4. i \in Slots /\ g[i] = b.entry[i].size /\ g[i] \in Nat
      <3>1. i \in Slots
        BY <2>1, SlotAtType
      <3>2. i \in Nat
        BY <3>1 DEF Slots
      <3> HIDE DEF i
      <3> QED
        BY <1>1, <3>1, <3>2
    <2>5. SizeOfFirst(b, n + 1) = s + g[i]
      BY <1>5, <2>1, <2>4
    <2> HIDE DEF s, i, A, o, M
    <2>6. T[o] \in Nat /\ T[M] \in Nat
      BY <1>4
    <2>7. CASE o + n < M
      <3>1. T[(o + n) + 1] = T[o + n] + g[o + n] /\ T[o + n] \in Nat /\ (o + n) + 1 = o + (n + 1)
        BY <1>2, <1>4, <2>1
      <3>2. s = T[o + n] - T[o] /\ i = o + n /\ o + (n + 1) <= M
        BY <1>4, <2>1, <2>2, <2>3, <2>7
      <3> QED
        BY <2>4, <2>5, <2>6, <3>1, <3>2
    <2>8. CASE ~(o + n < M)
      <3> DEFINE q == o + n - M
      <3>1. q \in Nat /\ i = q /\ ~(o + (n + 1) <= M) /\ o + (n + 1) - M = q + 1
        BY <1>4, <2>1, <2>3, <2>8
      <3>2. s = T[M] - T[o] + T[q]
        <4>1. CASE o + n = M
          <5>1. s = T[M] - T[o] /\ q = 0
            BY <1>4, <2>1, <2>2, <4>1
          <5> QED
            BY <1>2, <2>6, <5>1
        <4>2. CASE o + n # M
          <5>1. ~(o + n <= M)
            BY <1>4, <2>1, <2>8, <4>2
          <5> QED
            BY <2>2, <5>1
        <4> QED
          BY <4>1, <4>2
      <3> HIDE DEF q
      <3>3. T[q + 1] = T[q] + g[q] /\ T[q] \in Nat
        BY <1>2, <3>1
      <3> QED
        BY <2>4, <2>5, <2>6, <3>1, <3>2, <3>3
    <2> QED
      BY <2>7, <2>8
  <1>8. A = Nat
    <2>1. A \in SUBSET Nat
      OBVIOUS
    <2> HIDE DEF A
    <2> QED
      BY <1>6, <1>7, <2>1, NatInductive
  <1>9. SizeOfFirst(b, M) = T[M]
    <2>1. M \in A
      BY <1>4, <1>8
    <2>2. SizeOfFirst(b, M) = IF o + M <= M THEN T[o + M] - T[o] ELSE T[M] - T[o] + T[o + M - M]
      BY <1>4, <2>1
    <2>3. T[o] \in Nat /\ T[M] \in Nat
      BY <1>4
    <2>4. CASE o = 0
      <3>1. o + M <= M /\ o + M = M /\ T[o] = 0
        BY <1>2, <1>4, <2>4
      <3> QED
        BY <2>2, <2>3, <3>1
    <2>5. CASE o # 0
      <3>1. ~(o + M <= M) /\ o + M - M = o
        BY <1>4, <2>5
      <3> QED
        BY <2>2, <2>3, <3>1
    <2> QED
      BY <2>4, <2>5
  <1> QED
    BY <1>3, <1>4, <1>5, <1>9

\* The loop of aesd_llseek computes a natural number.
LEMMA TotalSizeType ==
  ASSUME NEW b, \A i \in Slots : b.entry[i].size \in Nat
  PROVE  TotalSize(b) \in Nat
  <1> DEFINE g == [k \in Nat |-> IF k \in Slots THEN b.entry[k].size ELSE 0]
  <1>1. g \in [Nat -> Nat] /\ \A i \in Slots : g[i] = b.entry[i].size
    BY MaxWritesAssumption DEF Slots
  <1> HIDE DEF g
  <1>2. PICK T \in [Nat -> Nat] : T[0] = 0 /\ \A n \in Nat : T[n + 1] = T[n] + g[n]
    BY <1>1, SumsExist
  <1>3. TotalSize(b) = T[MaxWrites]
    BY <1>1, <1>2, TotalSizeAdds
  <1> QED
    BY <1>3, MaxWritesAssumption

\* More entries take at least as many bytes.
LEMMA SizesGrow ==
  ASSUME NEW b, b.out_offs \in Slots, \A i \in Slots : b.entry[i].size \in Nat,
         NEW n \in Nat, NEW m \in Nat, n <= m
  PROVE  SizeOfFirst(b, n) <= SizeOfFirst(b, m)
  <1> DEFINE A == {k \in Nat : SizeOfFirst(b, n) <= SizeOfFirst(b, n + k)}
  <1>1. \A k \in Nat : /\ SizeOfFirst(b, k) \in Nat
                       /\ SizeOfFirst(b, k + 1)
                            = SizeOfFirst(b, k) + b.entry[SlotAt(b, k)].size
    BY SizeOfFirstAdds
  <1>2. 0 \in A
    <2>1. n + 0 = n
      OBVIOUS
    <2> QED
      BY <1>1, <2>1
  <1>3. ASSUME NEW k \in A PROVE k + 1 \in A
    <2>1. n + k \in Nat /\ n + (k + 1) = (n + k) + 1
      OBVIOUS
    <2>2. b.entry[SlotAt(b, n + k)].size \in Nat
      BY <2>1, SlotAtType
    <2>3. /\ SizeOfFirst(b, n + k) \in Nat /\ SizeOfFirst(b, n) \in Nat
          /\ SizeOfFirst(b, n + (k + 1))
               = SizeOfFirst(b, n + k) + b.entry[SlotAt(b, n + k)].size
      BY <1>1, <2>1
    <2>4. SizeOfFirst(b, n) <= SizeOfFirst(b, n + k)
      OBVIOUS
    <2>5. SizeOfFirst(b, n) <= SizeOfFirst(b, n + (k + 1))
      BY <2>2, <2>3, <2>4
    <2> QED
      BY <2>5
  <1>4. A = Nat
    <2>1. A \in SUBSET Nat
      OBVIOUS
    <2> HIDE DEF A
    <2> QED
      BY <1>2, <1>3, <2>1, NatInductive
  <1>5. m - n \in Nat /\ n + (m - n) = m
    OBVIOUS
  <1>6. m - n \in A
    BY <1>4, <1>5
  <1> QED
    BY <1>5, <1>6

\* The sizes of a ring's slots, by age: positive up to the last entry and zero
\* from there on.
LEMMA SizesByAge ==
  ASSUME NEW E, \A x \in E : x.size \in Nat \ {0},
         NEW b \in BufferOf(E), IsRing(b, E)
  PROVE  /\ b.out_offs \in Slots
         /\ \A i \in Slots : b.entry[i].size \in Nat
         /\ num_entries(b) \in 0..MaxWrites
         /\ \A k \in Slots : /\ SlotAt(b, k) \in Slots
                             /\ k < num_entries(b) <=> b.entry[SlotAt(b, k)].size > 0
                             /\ k < num_entries(b) => b.entry[SlotAt(b, k)] \in E
  <1>1. MaxWrites \in Nat /\ MaxWrites > 0
    BY MaxWritesAssumption
  <1>2. /\ b.entry \in [Slots -> E \cup {NoEntry}]
        /\ b.in_offs \in Slots /\ b.out_offs \in Slots /\ b.full \in BOOLEAN
    BY DEF BufferOf
  <1>3. \A i \in Slots : b.entry[i].size \in Nat
    BY <1>2 DEF NoEntry
  <1>4. num_entries(b) \in 0..MaxWrites
    BY ContentsType
  <1>5. ASSUME NEW k \in Slots
        PROVE  /\ SlotAt(b, k) \in Slots
               /\ k < num_entries(b) <=> b.entry[SlotAt(b, k)].size > 0
               /\ k < num_entries(b) => b.entry[SlotAt(b, k)] \in E
    <2>1. SlotAt(b, k) \in Slots
      <3>1. k \in Nat
        BY DEF Slots
      <3> QED
        BY <1>2, <3>1, SlotAtType
    <2>2. CASE b.full
      <3>1. b.entry[SlotAt(b, k)] \in E
        BY <2>1, <2>2 DEF IsRing
      <3>2. k < num_entries(b)
        BY <1>1, <2>2 DEF num_entries, Slots
      <3> QED
        BY <2>1, <3>1, <3>2
    <2>3. CASE ~b.full
      <3>1. b.out_offs = 0 /\ num_entries(b) = b.in_offs
        BY <1>2, <2>3 DEF IsRing, num_entries, Slots
      <3>2. SlotAt(b, k) = k
        BY <1>1, <1>2, <3>1, SlotAtWraps DEF Slots
      <3>3. CASE k < b.in_offs
        <4>1. b.entry[k] \in E
          BY <3>3 DEF IsRing
        <4> QED
          BY <2>1, <3>1, <3>2, <3>3, <4>1
      <3>4. CASE ~(k < b.in_offs)
        <4>1. b.entry[k] = NoEntry
          BY <2>3, <3>4 DEF IsRing
        <4> QED
          BY <2>1, <3>1, <3>2, <3>4, <4>1 DEF NoEntry
      <3> QED
        BY <3>3, <3>4
    <2> QED
      BY <2>2, <2>3
  <1> QED
    BY <1>2, <1>3, <1>4, <1>5

\* find_entry_offset_for_fpos finds the k-th oldest entry when the offset is one
\* of its bytes.
LEMMA LookupFinds ==
  ASSUME NEW E, \A x \in E : x.size \in Nat \ {0},
         NEW b \in BufferOf(E), IsRing(b, E), NEW p \in Nat,
         NEW k \in Slots, k < num_entries(b),
         SizeOfFirst(b, k) <= p, p < SizeOfFirst(b, k + 1)
  PROVE  aesd_circular_buffer_find_entry_offset_for_fpos(b, p)
           = [slot |-> SlotAt(b, k), offset |-> p - SizeOfFirst(b, k)]
  <1> DEFINE beyond == BeyondOffset(b, p)
             first  == Min(beyond)
  <1>1. /\ b.out_offs \in Slots /\ \A i \in Slots : b.entry[i].size \in Nat
    BY SizesByAge
  <1>2. k \in beyond
    BY DEF BeyondOffset
  <1>3. beyond \in SUBSET Nat
    BY DEF BeyondOffset, Slots
  <1>4. first \in beyond /\ first <= k
    <2> HIDE DEF beyond
    <2> QED
      BY <1>2, <1>3, MinIsLeast
  <1>5. first = k
    <2> SUFFICES ASSUME first < k PROVE FALSE
      BY <1>3, <1>4 DEF Slots
    <2>1. first \in Nat /\ first + 1 \in Nat /\ k \in Nat /\ first + 1 <= k
      BY <1>3, <1>4 DEF Slots
    <2>2. SizeOfFirst(b, first + 1) <= SizeOfFirst(b, k)
      BY <1>1, <2>1, SizesGrow
    <2>3. SizeOfFirst(b, first + 1) > p
      BY <1>4 DEF BeyondOffset
    <2>4. SizeOfFirst(b, first + 1) \in Nat /\ SizeOfFirst(b, k) \in Nat
      BY <1>1, <2>1, SizeOfFirstAdds
    <2> QED
      BY <2>2, <2>3, <2>4
  <1>6. ~IsEmpty(b)
    BY DEF IsEmpty, num_entries, Slots, BufferOf
  <1> HIDE DEF beyond, first
  <1>7. beyond # {}
    BY <1>2
  <1> QED
    BY <1>5, <1>6, <1>7
    DEF beyond, first, aesd_circular_buffer_find_entry_offset_for_fpos

\* When find_entry_offset_for_fpos finds something it is a byte of an entry, and
\* when it finds nothing the offset is at or past the end of the entries.
LEMMA LookupIsSound ==
  ASSUME NEW E, \A x \in E : x.size \in Nat \ {0},
         NEW b \in BufferOf(E), IsRing(b, E), NEW p \in Nat
  PROVE  LET hit == aesd_circular_buffer_find_entry_offset_for_fpos(b, p)
         IN  /\ hit = NotFound => SizeOfFirst(b, num_entries(b)) <= p
             /\ hit # NotFound =>
                  \E k \in Slots :
                    /\ k < num_entries(b)
                    /\ SizeOfFirst(b, k) <= p /\ p < SizeOfFirst(b, k + 1)
                    /\ hit = [slot |-> SlotAt(b, k), offset |-> p - SizeOfFirst(b, k)]
  <1> DEFINE hit    == aesd_circular_buffer_find_entry_offset_for_fpos(b, p)
             beyond == BeyondOffset(b, p)
             first  == Min(beyond)
  <1>1. /\ b.out_offs \in Slots /\ \A i \in Slots : b.entry[i].size \in Nat
        /\ num_entries(b) \in 0..MaxWrites
        /\ \A k \in Slots : /\ SlotAt(b, k) \in Slots
                            /\ k < num_entries(b) <=> b.entry[SlotAt(b, k)].size > 0
    BY SizesByAge
  <1>2. /\ SizeOfFirst(b, 0) = 0
        /\ \A n \in Nat : /\ SizeOfFirst(b, n) \in Nat
                          /\ SizeOfFirst(b, n + 1)
                               = SizeOfFirst(b, n) + b.entry[SlotAt(b, n)].size
    BY <1>1, SizeOfFirstAdds
  <1>3. MaxWrites \in Nat /\ MaxWrites > 0
    BY MaxWritesAssumption
  <1>4. CASE IsEmpty(b) \/ beyond = {}
    <2>1. hit = NotFound
      BY <1>4 DEF aesd_circular_buffer_find_entry_offset_for_fpos
    <2>2. SizeOfFirst(b, num_entries(b)) <= p
      <3>1. CASE num_entries(b) = 0
        BY <1>2, <3>1
      <3>2. CASE num_entries(b) # 0
        <4>1. ~IsEmpty(b)
          BY <3>2 DEF IsEmpty, num_entries, BufferOf, Slots
        <4> DEFINE k == num_entries(b) - 1
        <4>2. k \in Slots /\ k + 1 = num_entries(b) /\ k + 1 \in Nat
          BY <1>1, <1>3, <3>2 DEF Slots
        <4>3. ~(SizeOfFirst(b, k + 1) > p)
          BY <1>4, <4>1, <4>2 DEF BeyondOffset
        <4>4. SizeOfFirst(b, k + 1) \in Nat
          BY <1>2, <4>2
        <4> HIDE DEF k
        <4> QED
          BY <4>2, <4>3, <4>4
      <3> QED
        BY <3>1, <3>2
    <2> QED
      BY <2>1, <2>2
  <1>5. CASE ~(IsEmpty(b) \/ beyond = {})
    <2>1. hit = [slot |-> SlotAt(b, first), offset |-> p - SizeOfFirst(b, first)]
      BY <1>5 DEF aesd_circular_buffer_find_entry_offset_for_fpos
    <2>2. beyond \in SUBSET Nat /\ beyond # {}
      BY <1>5 DEF BeyondOffset, Slots
    <2>3. first \in beyond /\ \A y \in beyond : first <= y
      <3> HIDE DEF beyond
      <3> QED
        BY <2>2, MinIsLeast
    <2>4. first \in Slots /\ first \in Nat /\ SizeOfFirst(b, first + 1) > p
      BY <2>3 DEF BeyondOffset, Slots
    <2>5. SizeOfFirst(b, first) <= p
      <3>1. CASE first = 0
        BY <1>2, <3>1
      <3>2. CASE first # 0
        <4>1. first - 1 \in Slots /\ first - 1 \in Nat /\ (first - 1) + 1 = first
          BY <1>3, <2>4, <3>2 DEF Slots
        <4>2. first - 1 \notin beyond
          BY <2>3, <2>4, <4>1
        <4>3. ~(SizeOfFirst(b, first) > p)
          BY <4>1, <4>2 DEF BeyondOffset
        <4>4. SizeOfFirst(b, first) \in Nat
          BY <1>2, <2>4
        <4> HIDE DEF first
        <4> QED
          BY <4>3, <4>4
      <3> QED
        BY <3>1, <3>2
    <2> HIDE DEF first, beyond, hit
    <2>6. SizeOfFirst(b, first) \in Nat /\ SizeOfFirst(b, first + 1) \in Nat
          /\ SizeOfFirst(b, first + 1) = SizeOfFirst(b, first) + b.entry[SlotAt(b, first)].size
      BY <1>2, <2>4
    <2>7. b.entry[SlotAt(b, first)].size \in Nat /\ SlotAt(b, first) \in Slots
      BY <1>1, <2>4
    <2>8. b.entry[SlotAt(b, first)].size > 0
      BY <2>4, <2>5, <2>6, <2>7
    <2>9. first < num_entries(b)
      BY <1>1, <2>4, <2>8
    <2>10. hit # NotFound
      <3>1. SlotAt(b, first) # -1
        BY <2>7 DEF Slots
      <3> QED
        BY <2>1, <3>1 DEF NotFound
    <2>11. p < SizeOfFirst(b, first + 1)
      BY <2>4, <2>6
    <2> QED
      BY <2>1, <2>4, <2>5, <2>9, <2>10, <2>11 DEF hit
  <1> QED
    BY <1>4, <1>5

\* The slots after the last entry of a ring are empty, so the loops that go on over
\* them add nothing: all of them compute the size of the entries.
LEMMA TotalIsSizeOfEntries ==
  ASSUME NEW E, \A x \in E : x.size \in Nat \ {0},
         NEW b \in BufferOf(E), IsRing(b, E)
  PROVE  TotalSize(b) = SizeOfFirst(b, num_entries(b))
  <1> DEFINE m == num_entries(b)
             A == {n \in Nat : m <= n /\ n <= MaxWrites =>
                     SizeOfFirst(b, n) = SizeOfFirst(b, m)}
  <1>1. /\ b.out_offs \in Slots /\ (\A i \in Slots : b.entry[i].size \in Nat)
        /\ m \in 0..MaxWrites
        /\ \A k \in Slots : /\ SlotAt(b, k) \in Slots
                            /\ k < m <=> b.entry[SlotAt(b, k)].size > 0
    BY SizesByAge
  <1>2. MaxWrites \in Nat /\ m \in Nat /\ m <= MaxWrites
    BY <1>1, MaxWritesAssumption
  <1> HIDE DEF m
  <1>3. /\ \A n \in Nat : /\ SizeOfFirst(b, n) \in Nat
                          /\ SizeOfFirst(b, n + 1) = SizeOfFirst(b, n) + b.entry[SlotAt(b, n)].size
    BY <1>1, SizeOfFirstAdds
  <1>4. 0 \in A
    BY <1>2
  <1>5. ASSUME NEW n \in A PROVE n + 1 \in A
    <2> SUFFICES ASSUME m <= n + 1, n + 1 <= MaxWrites
                 PROVE  SizeOfFirst(b, n + 1) = SizeOfFirst(b, m)
      BY DEF A
    <2>1. n \in Nat /\ n \in Slots
      BY <1>2 DEF Slots
    <2>2. CASE m = n + 1
      BY <2>2
    <2>3. CASE m # n + 1
      <3>1. m <= n /\ n <= MaxWrites /\ ~(n < m)
        BY <1>2, <2>1, <2>3
      <3>2. SizeOfFirst(b, n) = SizeOfFirst(b, m)
        BY <3>1
      <3>3. b.entry[SlotAt(b, n)].size = 0
        <4> DEFINE z == b.entry[SlotAt(b, n)].size
        <4>1. z \in Nat /\ ~(z > 0)
          BY <1>1, <2>1, <3>1
        <4> HIDE DEF z
        <4>2. z = 0
          BY <4>1
        <4> QED
          BY <4>2 DEF z
      <3> QED
        BY <1>3, <2>1, <3>2, <3>3
    <2> QED
      BY <2>2, <2>3
  <1>6. A = Nat
    <2>1. A \in SUBSET Nat
      OBVIOUS
    <2> HIDE DEF A
    <2> QED
      BY <1>4, <1>5, <2>1, NatInductive
  <1>7. SizeOfFirst(b, MaxWrites) = SizeOfFirst(b, m)
    <2>1. MaxWrites \in A
      BY <1>2, <1>6
    <2> QED
      BY <1>2, <2>1
  <1> QED
    BY <1>1, <1>7, TotalIsRotation DEF m

-----------------------------------------------------------------------------
(* Concatenations of sequences.                                            *)

\* A sequence of n elements given one by one.
LEMMA BytesType ==
  ASSUME NEW S, NEW n \in Nat, NEW f \in [1..n -> S]
  PROVE  f \in Seq(S) /\ Len(f) = n /\ DOMAIN f = 1..n
  OBVIOUS

\* The whole of a sequence is a part of it.
LEMMA WholePart ==
  ASSUME NEW S, NEW s \in Seq(S)
  PROVE  SubSeq(s, 1, Len(s)) = s
  OBVIOUS

\* The length and the elements of a sequence.
LEMMA SeqFacts ==
  ASSUME NEW S, NEW s \in Seq(S)
  PROVE  Len(s) \in Nat /\ \A i \in 1..Len(s) : s[i] \in S
  OBVIOUS

\* The length and the elements of a concatenation.
LEMMA ConcatFacts ==
  ASSUME NEW S, NEW s \in Seq(S), NEW t \in Seq(S)
  PROVE  /\ s \o t \in Seq(S) /\ Len(s \o t) = Len(s) + Len(t)
         /\ \A i \in 1..Len(s) : (s \o t)[i] = s[i]
         /\ \A i \in 1..Len(t) : (s \o t)[Len(s) + i] = t[i]
  OBVIOUS

\* The length and the elements of a part of a sequence.
LEMMA SubSeqFacts ==
  ASSUME NEW S, NEW s \in Seq(S), NEW m \in Nat, NEW n \in Nat,
         1 <= m, m <= n + 1, n <= Len(s)
  PROVE  /\ SubSeq(s, m, n) \in Seq(S) /\ Len(SubSeq(s, m, n)) = n - m + 1
         /\ \A i \in 1..(n - m + 1) : SubSeq(s, m, n)[i] = s[m + i - 1]
  OBVIOUS

\* l elements of a sequence after the first o.
LEMMA PartFacts ==
  ASSUME NEW S, NEW s \in Seq(S), NEW o \in Nat, NEW l \in Nat, o + l <= Len(s)
  PROVE  /\ SubSeq(s, o + 1, o + l) \in Seq(S) /\ Len(SubSeq(s, o + 1, o + l)) = l
         /\ \A i \in 1..l : SubSeq(s, o + 1, o + l)[i] = s[o + i]
  <1> DEFINE m == o + 1
             n == o + l
  <1>1. m \in Nat /\ n \in Nat /\ 1 <= m /\ m <= n + 1 /\ n <= Len(s) /\ n - m + 1 = l
    BY SeqFacts
  <1>2. \A i \in 1..l : m + i - 1 = o + i
    OBVIOUS
  <1> HIDE DEF m, n
  <1>3. /\ SubSeq(s, m, n) \in Seq(S) /\ Len(SubSeq(s, m, n)) = n - m + 1
        /\ \A i \in 1..(n - m + 1) : SubSeq(s, m, n)[i] = s[m + i - 1]
    BY <1>1, SubSeqFacts
  <1> QED
    BY <1>1, <1>2, <1>3 DEF m, n

\* F[i] is the concatenation of the first i sequences of ss.
Flattens(F, ss) ==
  F[0] = <<>> /\ \A i \in Nat : i < Len(ss) => F[i + 1] = F[i] \o ss[i + 1]

\* The concatenations exist.
LEMMA FlattensExists ==
  ASSUME NEW S, NEW ss \in Seq(Seq(S))
  PROVE  \E F \in [Nat -> Seq(S)] : Flattens(F, ss)
  <1> DEFINE V == Seq(S)
             G == [p \in Nat \X V |-> IF p[1] < Len(ss) THEN p[2] \o ss[p[1] + 1] ELSE p[2]]
  <1>1. \A n \in Nat : \A x \in V :
          G[<<n, x>>] = IF n < Len(ss) THEN x \o ss[n + 1] ELSE x
    OBVIOUS
  <1>2. \A n \in Nat : \A x \in V : G[<<n, x>>] \in V
    <2> SUFFICES ASSUME NEW n \in Nat, NEW x \in V PROVE G[<<n, x>>] \in V
      OBVIOUS
    <2>1. CASE n < Len(ss)
      <3>1. n + 1 \in 1..Len(ss)
        BY <2>1
      <3>2. ss[n + 1] \in Seq(S)
        BY <3>1
      <3>3. x \o ss[n + 1] \in Seq(S)
        BY <3>2
      <3> QED
        BY <1>1, <2>1, <3>3
    <2>2. CASE ~(n < Len(ss))
      BY <1>1, <2>2
    <2> QED
      BY <2>1, <2>2
  <1>3. G \in [Nat \X V -> V]
    <2>1. \A p \in Nat \X V : G[p] \in V
      <3> SUFFICES ASSUME NEW p \in Nat \X V PROVE G[p] \in V
        OBVIOUS
      <3>1. p = <<p[1], p[2]>> /\ p[1] \in Nat /\ p[2] \in V
        OBVIOUS
      <3> HIDE DEF G, V
      <3> QED
        BY <1>2, <3>1
    <2> QED
      BY <2>1
  <1> HIDE DEF G
  <1>4. PICK F \in [Nat -> V] : F[0] = <<>> /\ \A n \in Nat : F[n + 1] = G[<<n, F[n]>>]
    <2>1. <<>> \in V /\ G \in StepsOf(V)
      BY <1>3 DEF StepsOf
    <2> HIDE DEF V
    <2>2. \E F \in [Nat -> V] : Follows(F, <<>>, G)
      BY <2>1, RecursionDefines
    <2> QED
      BY <2>2 DEF Follows
  <1>5. Flattens(F, ss)
    BY <1>1, <1>4 DEF Flattens
  <1> QED
    BY <1>4, <1>5

\* FlattenSeq is the concatenation of all.
LEMMA FlattenIs ==
  ASSUME NEW S, NEW ss \in Seq(Seq(S)), NEW F \in [Nat -> Seq(S)], Flattens(F, ss)
  PROVE  FlattenSeq(ss) = F[Len(ss)]
  <1> DEFINE n == Len(ss)
             Loop(f) == f = [i \in 1..n |-> IF i = 1 THEN ss[i] ELSE f[i - 1] \o ss[i]]
             t == [i \in 1..n |-> F[i]]
  <1>0. n \in Nat
    OBVIOUS
  <1>1. F[0] = <<>> /\ \A i \in Nat : i < n => F[i + 1] = F[i] \o ss[i + 1]
    BY DEF Flattens
  <1>2. CASE n = 0
    <2>1. ss = <<>>
      BY <1>2
    <2> QED
      BY <1>1, <1>2, <2>1 DEF FlattenSeq
  <1>3. CASE n # 0
    <2>1. n >= 1 /\ 1 \in 1..n
      BY <1>0, <1>3
    <2>2. F[1] = ss[1]
      <3>1. 0 \in Nat /\ 0 < n /\ 0 + 1 = 1
        BY <2>1
      <3>2. F[1] = <<>> \o ss[1]
        BY <1>1, <3>1
      <3>3. ss[1] \in Seq(S)
        BY <2>1
      <3> QED
        BY <3>2, <3>3
    <2>3. Loop(t)
      <3>1. ASSUME NEW i \in 1..n, i # 1 PROVE F[i] = t[i - 1] \o ss[i]
        <4>1. i - 1 \in Nat /\ i - 1 \in 1..n /\ (i - 1) + 1 = i /\ i - 1 < n
          <5> HIDE DEF n
          <5> QED
            BY <1>0, <3>1
        <4> QED
          BY <1>1, <4>1
      <3>2. [i \in 1..n |-> IF i = 1 THEN ss[i] ELSE t[i - 1] \o ss[i]] = [i \in 1..n |-> F[i]]
        BY <2>2, <3>1
      <3> QED
        BY <3>2
    <2> DEFINE c == CHOOSE f : Loop(f)
    <2>4. Loop(c)
      <3> HIDE DEF Loop, t
      <3> QED
        BY <2>3
    <2> HIDE DEF c
    <2> DEFINE A == {k \in Nat : k < n => c[k + 1] = F[k + 1]}
    <2>5. 0 \in A
      <3>1. c[1] = ss[1] /\ 0 + 1 = 1
        BY <2>1, <2>4
      <3> QED
        BY <2>2, <3>1
    <2>6. ASSUME NEW k \in A PROVE k + 1 \in A
      <3>1. CASE k + 1 < n
        <4>1. /\ (k + 1) + 1 \in 1..n /\ (k + 1) + 1 # 1 /\ ((k + 1) + 1) - 1 = k + 1
              /\ k < n /\ k + 1 \in Nat
          <5> HIDE DEF n
          <5> QED
            BY <1>0, <3>1
        <4>2. c[(k + 1) + 1] = c[k + 1] \o ss[(k + 1) + 1]
          BY <2>4, <4>1
        <4>3. F[(k + 1) + 1] = F[k + 1] \o ss[(k + 1) + 1]
          BY <1>1, <3>1, <4>1
        <4> QED
          BY <4>1, <4>2, <4>3
      <3> QED
        BY <3>1
    <2>7. A = Nat
      <3>1. A \in SUBSET Nat
        OBVIOUS
      <3> HIDE DEF A
      <3> QED
        BY <2>5, <2>6, <3>1, NatInductive
    <2>8. c[n] = F[n]
      <3>1. n - 1 \in Nat /\ n - 1 < n /\ (n - 1) + 1 = n
        BY <1>0, <2>1
      <3>2. n - 1 \in A
        BY <2>7, <3>1
      <3> QED
        BY <3>1, <3>2
    <2>9. FlattenSeq(ss) = c[n]
      BY <1>3 DEF FlattenSeq, c
    <2> QED
      BY <2>8, <2>9
  <1> QED
    BY <1>2, <1>3

\* The concatenation of sequences over S is one.
LEMMA FlattenType ==
  ASSUME NEW S, NEW ss \in Seq(Seq(S))
  PROVE  FlattenSeq(ss) \in Seq(S)
  <1>1. PICK F \in [Nat -> Seq(S)] : Flattens(F, ss)
    BY FlattensExists
  <1>2. FlattenSeq(ss) = F[Len(ss)]
    BY <1>1, FlattenIs
  <1>3. Len(ss) \in Nat
    BY SeqFacts
  <1> QED
    BY <1>2, <1>3

\* One more sequence at the end adds its elements at the end.
LEMMA FlattenAppend ==
  ASSUME NEW S, NEW ss \in Seq(Seq(S)), NEW x \in Seq(S)
  PROVE  FlattenSeq(Append(ss, x)) = FlattenSeq(ss) \o x
  <1> DEFINE n  == Len(ss)
             tt == Append(ss, x)
  <1>1. n \in Nat /\ tt \in Seq(Seq(S)) /\ Len(tt) = n + 1 /\ tt[n + 1] = x
    OBVIOUS
  <1>2. \A i \in Nat : i < n => tt[i + 1] = ss[i + 1]
    <2> SUFFICES ASSUME NEW i \in Nat, i < n PROVE tt[i + 1] = ss[i + 1]
      OBVIOUS
    <2>1. i + 1 \in 1..Len(ss)
      OBVIOUS
    <2> QED
      BY <2>1
  <1> HIDE DEF tt
  <1>3. PICK F \in [Nat -> Seq(S)] : Flattens(F, ss)
    BY FlattensExists
  <1>4. PICK G \in [Nat -> Seq(S)] : Flattens(G, tt)
    BY <1>1, FlattensExists
  <1>5. FlattenSeq(ss) = F[n] /\ FlattenSeq(tt) = G[n + 1]
    BY <1>1, <1>3, <1>4, FlattenIs
  <1>6. F[0] = <<>> /\ \A i \in Nat : i < n => F[i + 1] = F[i] \o ss[i + 1]
    BY <1>3 DEF Flattens
  <1>7. G[0] = <<>> /\ \A i \in Nat : i < n + 1 => G[i + 1] = G[i] \o tt[i + 1]
    BY <1>1, <1>4 DEF Flattens
  <1> HIDE DEF n
  <1> DEFINE A == {i \in Nat : i <= n => F[i] = G[i]}
  <1>8. 0 \in A
    BY <1>6, <1>7
  <1>9. ASSUME NEW i \in A PROVE i + 1 \in A
    <2>1. CASE i + 1 <= n
      <3>1. i \in Nat /\ i <= n /\ i < n /\ i < n + 1
        BY <1>1, <2>1
      <3>2. F[i] = G[i]
        BY <3>1
      <3>3. F[i + 1] = F[i] \o ss[i + 1] /\ G[i + 1] = G[i] \o tt[i + 1]
        BY <1>6, <1>7, <3>1
      <3>4. F[i + 1] = G[i + 1]
        BY <1>2, <3>1, <3>2, <3>3, Zenon
      <3> QED
        BY <3>4
    <2> QED
      BY <2>1
  <1>10. A = Nat
    <2>1. A \in SUBSET Nat
      OBVIOUS
    <2> HIDE DEF A
    <2> QED
      BY <1>8, <1>9, <2>1, NatInductive
  <1>11. F[n] = G[n]
    <2>1. n \in A
      BY <1>1, <1>10
    <2> QED
      BY <1>1, <2>1
  <1>12. G[n + 1] = G[n] \o x
    <2>1. n \in Nat /\ n < n + 1
      BY <1>1
    <2>2. G[n + 1] = G[n] \o tt[n + 1]
      BY <1>7, <2>1
    <2> QED
      BY <1>1, <2>2, Zenon
  <1> QED
    BY <1>5, <1>11, <1>12 DEF tt

\* F is the concatenations of ss, a sequence of sequences over S.
Concats(S, ss, F) == ss \in Seq(Seq(S)) /\ F \in [Nat -> Seq(S)] /\ Flattens(F, ss)

\* The k-th concatenation f, the sequence y after it and the next concatenation g.
Extends(S, f, y, g) ==
  /\ f \in Seq(S) /\ y \in Seq(S) /\ g \in Seq(S)
  /\ Len(f) \in Nat /\ Len(y) \in Nat /\ Len(g) = Len(f) + Len(y)
  /\ \A i \in 1..Len(f) : g[i] = f[i]
  /\ \A i \in 1..Len(y) : g[Len(f) + i] = y[i]

\* The facts about concatenations, one step at a time.
LEMMA ConcatsStep ==
  ASSUME NEW S, NEW ss, NEW F, Concats(S, ss, F), NEW k \in Nat
  PROVE  /\ Len(ss) \in Nat /\ F[k] \in Seq(S) /\ Len(F[k]) \in Nat
         /\ FlattenSeq(ss) = F[Len(ss)]
         /\ k < Len(ss) => Extends(S, F[k], ss[k + 1], F[k + 1])
  <1>1. Len(ss) \in Nat /\ F[k] \in Seq(S)
    BY SeqFacts DEF Concats
  <1>2. Len(F[k]) \in Nat
    BY <1>1, SeqFacts
  <1>3. FlattenSeq(ss) = F[Len(ss)]
    BY FlattenIs DEF Concats
  <1>4. ASSUME k < Len(ss) PROVE Extends(S, F[k], ss[k + 1], F[k + 1])
    <2> DEFINE f == F[k]
               y == ss[k + 1]
               g == F[k + 1]
    <2>1. k + 1 \in 1..Len(ss)
      BY <1>1, <1>4
    <2>2. y \in Seq(S)
      BY <2>1, SeqFacts DEF Concats
    <2>3. g = f \o y /\ f \in Seq(S)
      BY <1>1, <1>4 DEF Concats, Flattens
    <2> HIDE DEF f, y, g
    <2>4. Len(f) \in Nat /\ Len(y) \in Nat
      BY <2>2, <2>3, SeqFacts
    <2>5. /\ g \in Seq(S) /\ Len(g) = Len(f) + Len(y)
          /\ \A i \in 1..Len(f) : g[i] = f[i]
          /\ \A i \in 1..Len(y) : g[Len(f) + i] = y[i]
      BY <2>2, <2>3, ConcatFacts
    <2>6. Extends(S, f, y, g)
      BY <2>2, <2>3, <2>4, <2>5 DEF Extends
    <2> QED
      BY <2>6 DEF f, y, g
  <1> QED
    BY <1>1, <1>2, <1>3, <1>4

\* The concatenation of the first sequences is a prefix of that of more of them.
LEMMA FlattenPrefix ==
  ASSUME NEW S, NEW ss, NEW F, Concats(S, ss, F),
         NEW k \in Nat, NEW n \in Nat, k <= n, n <= Len(ss)
  PROVE  Len(F[k]) <= Len(F[n]) /\ \A i \in 1..Len(F[k]) : F[n][i] = F[k][i]
  <1> DEFINE q == Len(F[k])
             A == {m \in Nat : k <= m /\ m <= n =>
                     q <= Len(F[m]) /\ \A i \in 1..q : F[m][i] = F[k][i]}
  <1>1. q \in Nat /\ Len(ss) \in Nat
    BY ConcatsStep
  <1>2. Len(F[k]) = q
    OBVIOUS
  <1> HIDE DEF q
  <1>3. 0 \in A
    <2>1. k <= 0 => k = 0
      OBVIOUS
    <2> QED
      BY <1>1, <1>2, <2>1
  <1>4. ASSUME NEW m \in A PROVE m + 1 \in A
    <2> SUFFICES ASSUME k <= m + 1, m + 1 <= n
                 PROVE  q <= Len(F[m + 1]) /\ \A i \in 1..q : F[m + 1][i] = F[k][i]
      OBVIOUS
    <2>1. CASE m + 1 = k
      BY <1>1, <1>2, <2>1
    <2>2. CASE m + 1 # k
      <3>1. m \in Nat /\ k <= m /\ m <= n /\ m < Len(ss)
        BY <1>1, <2>2
      <3>2. q <= Len(F[m]) /\ \A i \in 1..q : F[m][i] = F[k][i]
        BY <3>1
      <3> DEFINE f == F[m]
                 y == ss[m + 1]
                 g == F[m + 1]
      <3>3. Extends(S, f, y, g)
        BY <3>1, ConcatsStep
      <3>4. q <= Len(f) /\ \A i \in 1..q : f[i] = F[k][i]
        BY <3>2
      <3> HIDE DEF f, y, g
      <3>5. q <= Len(g) /\ \A i \in 1..q : i \in 1..Len(f)
        BY <1>1, <3>3, <3>4 DEF Extends
      <3>6. q <= Len(g) /\ \A i \in 1..q : g[i] = F[k][i]
        BY <3>3, <3>4, <3>5 DEF Extends
      <3> QED
        BY <3>6 DEF g
    <2> QED
      BY <2>1, <2>2
  <1>5. A = Nat
    <2>1. A \in SUBSET Nat
      OBVIOUS
    <2> HIDE DEF A
    <2> QED
      BY <1>3, <1>4, <2>1, NatInductive
  <1>6. n \in A
    BY <1>5
  <1> QED
    BY <1>2, <1>6

\* The l elements after the first o of the sequence after k others.
SamePart(ss, F, k, o, l) ==
  SubSeq(FlattenSeq(ss), Len(F[k]) + o + 1, Len(F[k]) + o + l)
    = SubSeq(ss[k + 1], o + 1, o + l)

\* A part of one of the sequences is the same part of their concatenation.
LEMMA FlattenPart ==
  ASSUME NEW S, NEW ss, NEW F, Concats(S, ss, F),
         NEW k \in Nat, k < Len(ss),
         NEW o \in Nat, NEW l \in Nat, o + l <= Len(ss[k + 1])
  PROVE  SamePart(ss, F, k, o, l)
  <1> DEFINE n == Len(ss)
             x == ss[k + 1]
             p == Len(F[k])
             all == F[n]
             q == Len(F[k + 1])
  <1> DEFINE g == F[k + 1]
             f == F[k]
  <1>1. n \in Nat /\ FlattenSeq(ss) = all /\ k < n /\ o + l <= Len(x)
    BY ConcatsStep
  <1>2. Extends(S, f, x, g) /\ p = Len(f) /\ q = Len(g)
    BY ConcatsStep
  <1>3. k + 1 \in Nat /\ k + 1 <= n
    <2> HIDE DEF n
    <2> QED
      BY <1>1
  <1>4. all \in Seq(S) /\ Len(all) \in Nat
    BY <1>1, ConcatsStep
  <1>5. q <= Len(all) /\ \A i \in 1..q : all[i] = g[i]
    BY <1>1, <1>3, FlattenPrefix
  <1> HIDE DEF g, f
  <1> HIDE DEF n, all, x, p, q
  <1>6. x \in Seq(S) /\ Len(x) \in Nat /\ p \in Nat /\ q \in Nat /\ q = p + Len(x)
    BY <1>2 DEF Extends
  <1>7. \A i \in 1..Len(x) : g[p + i] = x[i]
    BY <1>2 DEF Extends
  <1> DEFINE r == p + o
  <1>8. /\ r \in Nat /\ r + l <= Len(all)
        /\ \A i \in 1..l : r + i \in 1..q /\ o + i \in 1..Len(x) /\ r + i = p + (o + i)
    BY <1>1, <1>4, <1>5, <1>6
  <1>9. r = p + o
    OBVIOUS
  <1> HIDE DEF r
  <1>10. \A i \in 1..l : all[r + i] = x[o + i]
    BY <1>5, <1>7, <1>8
  <1> DEFINE u == SubSeq(all, r + 1, r + l)
             v == SubSeq(x, o + 1, o + l)
  <1>11. u \in Seq(S) /\ Len(u) = l /\ \A i \in 1..l : u[i] = all[r + i]
    BY <1>4, <1>8, PartFacts
  <1>12. v \in Seq(S) /\ Len(v) = l /\ \A i \in 1..l : v[i] = x[o + i]
    BY <1>1, <1>6, PartFacts
  <1> HIDE DEF u, v
  <1>13. u = v
    BY <1>10, <1>11, <1>12, SeqEqual
  <1> QED
    BY <1>1, <1>9, <1>13 DEF u, v, x, p, SamePart

=============================================================================
