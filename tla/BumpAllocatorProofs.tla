------------------------ MODULE BumpAllocatorProofs ------------------------
(***************************************************************************)
(* Proofs about BumpAllocator, for every set of threads, every set of      *)
(* layouts and every heap.                                                 *)
(***************************************************************************)
EXTENDS BumpAllocator, FiniteSetTheorems, TLAPS

USE DEF Refused, fetch_add, alloc_error_handler, compare_exchange

Halted == {t \in Threads : pc[t] = "halted"}

\* Before BumpAllocator::init has run there is no heap to speak of.
BeforeInit ==
    heap_end = 0 => /\ next = 0
                    /\ blocks = {}
                    /\ \A t \in Threads : pc[t] = "run"

AfterInit == heap_end # 0 => next >= HEAP_START

\* A thread between the load and the exchange of dealloc holds a real block.
FreeingIsABlock == \A t \in Threads : pc[t] = "cas" => freeing[t] \in Block

\* Everything at or above next is free.
BelowNext == \A b \in Occupied : End(b) <= next

\* Once a request has been refused there is a gap below next.
Gap ==
    Halted # {} => /\ next > HEAP_START + HEAP_SIZE
                   /\ \A b \in Occupied : End(b) < next

IInv ==
    /\ TypeOK
    /\ BeforeInit
    /\ AfterInit
    /\ FreeingIsABlock
    /\ NoOverlap
    /\ BelowNext
    /\ Gap
    /\ NextIsBounded

-----------------------------------------------------------------------------
\* A granted layout occupies at least the bytes asked for and at most MaxSize.
LEMMA SizeOfBounds ==
    ASSUME NEW l \in Layouts
    PROVE  /\ SizeOf(l) \in Nat /\ 1 <= SizeOf(l) /\ SizeOf(l) <= MaxSize
           /\ l.size <= SizeOf(l)
<1> DEFINE v == l.size + l.align - 1
<1>1. l.size \in Nat \ {0} /\ l.align \in Nat \ {0} /\ SizeOf(l) <= MaxSize
  BY LayoutAssumption
<1>2. v \in Nat /\ v >= l.align /\ v = l.size + l.align - 1
  BY <1>1
<1>3. v % l.align \in 0 .. l.align - 1
  BY <1>1, <1>2
<1>4. SizeOf(l) = v - (v % l.align)
  BY DEF SizeOf, align_up
<1>5. v - (v % l.align) \in Nat /\ 1 <= v - (v % l.align) /\ l.size <= v - (v % l.align)
  <2> HIDE DEF v
  <2> DEFINE r == v % l.align
  <2>1. r \in 0 .. l.align - 1
    BY <1>3
  <2> HIDE DEF r
  <2>2. v - r \in Nat /\ 1 <= v - r /\ l.size <= v - r
    BY <1>1, <1>2, <2>1
  <2>3. QED
    BY <2>2 DEF r
<1>6. QED
  BY <1>1, <1>4, <1>5

\* Blocks are records with the fields the definitions read.
LEMMA BlockFields ==
    ASSUME NEW b \in Block
    PROVE  /\ b.start \in Nat /\ b.start >= HEAP_START
           /\ b.start <= HEAP_START + HEAP_SIZE
           /\ b.size \in Nat /\ b.size >= 1 /\ b.size <= MaxSize
           /\ End(b) \in Nat /\ End(b) = b.start + b.size
<1>1. b.start \in HEAP_START .. HEAP_START + HEAP_SIZE
  BY DEF Block
<1>2. PICK l \in Layouts : b.size = SizeOf(l)
  BY DEF Block
<1>3. b.size \in Nat /\ b.size >= 1 /\ b.size <= MaxSize
  BY <1>2, SizeOfBounds
<1>4. QED
  BY <1>1, <1>3, HeapAssumption DEF End

LEMMA OccupiedAreBlocks ==
    ASSUME TypeOK, FreeingIsABlock
    PROVE  Occupied \subseteq Block
BY DEF TypeOK, FreeingIsABlock, Occupied, Freeing

-----------------------------------------------------------------------------
LEMMA InitEstablishesIInv == Init => IInv
<1> SUFFICES ASSUME Init PROVE IInv
  OBVIOUS
<1> USE DEF Init
<1>1. Cardinality(Threads) \in Nat /\ MaxSize \in Nat /\ Word \in Nat
  BY FS_CardinalityType, ThreadsAssumption, LayoutAssumption, WordAssumption
<1>2. MaxSize * (Cardinality(Threads) + 1) \in Nat
  BY <1>1
<1>3. TypeOK
  BY <1>1, <1>2, HeapAssumption, WordAssumption DEF TypeOK
<1>4. Occupied = {} /\ Halted = {}
  BY DEF Occupied, Freeing, Halted
<1>5. NextIsBounded
  <2>1. Cardinality({t \in Threads : pc[t] = "halted"}) = 0
    BY <1>4, FS_EmptySet DEF Halted
  <2>2. QED
    BY <2>1, <1>1, HeapAssumption DEF NextIsBounded
<1>6. QED
  BY <1>3, <1>4, <1>5
     DEF IInv, BeforeInit, AfterInit, FreeingIsABlock, NoOverlap, BelowNext, Gap

-----------------------------------------------------------------------------
LEMMA InitHeapPreservesIInv == IInv /\ InitHeap => IInv'
<1> SUFFICES ASSUME IInv, InitHeap PROVE IInv'
  OBVIOUS
<1> USE DEF IInv, InitHeap
<1>1. blocks' = {} /\ \A t \in Threads : pc'[t] = "run"
  BY DEF BeforeInit
<1>2. Occupied' = {} /\ Halted' = {}
  BY <1>1 DEF Occupied, Freeing, Halted
<1>3. /\ Cardinality(Threads) \in Nat /\ MaxSize \in Nat /\ Word \in Nat
      /\ MaxSize * (Cardinality(Threads) + 1) \in Nat
  BY FS_CardinalityType, ThreadsAssumption, LayoutAssumption, WordAssumption
<1>4. TypeOK'
  BY <1>3, HeapAssumption, WordAssumption DEF TypeOK
<1>5. NextIsBounded'
  <2>1. Cardinality({t \in Threads : pc'[t] = "halted"}) = 0
    BY <1>2, FS_EmptySet DEF Halted
  <2>2. next' <= HEAP_START + HEAP_SIZE
                 + MaxSize * (1 + Cardinality({t \in Threads : pc'[t] = "halted"}))
    BY <2>1, <1>3, HeapAssumption
  <2>3. QED
    BY <2>2 DEF NextIsBounded
<1>6. QED
  BY <1>1, <1>2, <1>4, <1>5, HeapAssumption
     DEF BeforeInit, AfterInit, FreeingIsABlock, NoOverlap, BelowNext, Gap

\* The number of refused threads, and what a further refusal adds to it.
LEMMA HaltedCount ==
    /\ Cardinality(Halted) \in Nat
    /\ Cardinality(Halted) <= Cardinality(Threads)
    /\ Cardinality(Threads) \in Nat
    /\ IsFiniteSet(Halted)
<1>1. Halted \in SUBSET Threads
  BY DEF Halted
<1>2. QED
  BY <1>1, FS_Subset, FS_CardinalityType, ThreadsAssumption

\* fetch_add does not wrap, and stays within the bound the refusals allow.
LEMMA FetchAdd ==
    ASSUME IInv, NEW t \in Threads, NEW l \in Layouts, Alloc(t, l)
    PROVE  /\ next' = next + SizeOf(l)
           /\ next \in Nat
           /\ next' \in 0 .. Word - 1
           /\ NextIsBounded'
<1> DEFINE h == Cardinality(Halted)
           H == HEAP_START + HEAP_SIZE
<1>1. /\ h \in Nat /\ h <= Cardinality(Threads) /\ Cardinality(Threads) \in Nat
      /\ Halted' \in SUBSET Threads
      /\ Cardinality(Halted') \in Nat
      /\ Cardinality(Halted') <= Cardinality(Threads)
  <2>1. Halted' \in SUBSET Threads
    BY DEF Halted
  <2>2. QED
    BY <2>1, HaltedCount, FS_Subset, FS_CardinalityType, ThreadsAssumption
<1>2. /\ H \in Nat /\ MaxSize \in Nat /\ Word \in Nat
      /\ SizeOf(l) \in Nat /\ SizeOf(l) <= MaxSize
      /\ H + MaxSize * (Cardinality(Threads) + 1) < Word
  BY HeapAssumption, LayoutAssumption, WordAssumption, SizeOfBounds
<1>3. next \in Nat /\ next <= H + MaxSize * (1 + h)
  BY <1>2 DEF IInv, TypeOK, NextIsBounded, Halted
<1>4. next + SizeOf(l) <= H + MaxSize * (1 + Cardinality(Halted'))
  <2>1. CASE next > heap_end
    <3>1. Halted' = Halted \cup {t} /\ t \notin Halted
      BY <2>1 DEF Halted, Alloc, IInv, TypeOK
    <3>2. Cardinality(Halted') = h + 1
      BY <3>1, HaltedCount, FS_AddElement
    <3>3. MaxSize * (1 + (h + 1)) = MaxSize * (1 + h) + MaxSize
      <4> HIDE DEF h
      <4>1. QED BY <1>1, <1>2
    <3>4. MaxSize * (1 + h) \in Nat
      <4> HIDE DEF h
      <4>1. QED BY <1>1, <1>2
    <3> HIDE DEF h, H
    <3>5. QED
      BY <3>2, <3>3, <3>4, <1>2, <1>3
  <2>2. CASE ~(next > heap_end)
    <3>1. Halted' = Halted
      BY <2>2 DEF Halted, Alloc
    <3>2. next <= H
      BY <2>2, <1>2, <1>3 DEF IInv, TypeOK, Alloc
    <3>3. MaxSize * (1 + h) = MaxSize + MaxSize * h /\ MaxSize * h \in Nat
      <4> HIDE DEF h
      <4>1. QED BY <1>1, <1>2
    <3> HIDE DEF h, H
    <3>4. next + SizeOf(l) <= H + MaxSize * (1 + h)
      BY <3>2, <3>3, <1>2, <1>3
    <3>5. QED
      BY <3>1, <3>4 DEF h
  <2>3. QED
    BY <2>1, <2>2
<1>5. MaxSize * (1 + Cardinality(Halted')) <= MaxSize * (Cardinality(Threads) + 1)
  <2> DEFINE a == Cardinality(Halted')
             b == Cardinality(Threads)
             d == b - a
  <2>1. a \in Nat /\ b \in Nat /\ d \in Nat /\ b = a + d
    BY <1>1
  <2> HIDE DEF a, b, d
  <2>2. MaxSize * (b + 1) = MaxSize * (1 + a) + MaxSize * d /\ MaxSize * d \in Nat
    BY <2>1, <1>2
  <2>3. MaxSize * (1 + a) \in Nat
    BY <2>1, <1>2
  <2>4. QED
    BY <2>2, <2>3 DEF a, b
<1>6. MaxSize * (1 + Cardinality(Halted')) \in Nat
      /\ MaxSize * (Cardinality(Threads) + 1) \in Nat
  BY <1>1, <1>2
<1>7. next + SizeOf(l) < Word
  <2> HIDE DEF H, h
  <2>1. QED BY <1>2, <1>3, <1>4, <1>5, <1>6
<1>8. (next + SizeOf(l)) % Word = next + SizeOf(l)
  BY <1>2, <1>3, <1>7
<1>9. next' = next + SizeOf(l)
  BY <1>8 DEF Alloc
<1>10. NextIsBounded'
  <2>1. Cardinality({u \in Threads : pc'[u] = "halted"}) = Cardinality(Halted')
    BY DEF Halted
  <2>2. next' <= H + MaxSize * (1 + Cardinality({u \in Threads : pc'[u] = "halted"}))
    BY <1>4, <1>9, <2>1
  <2>3. QED
    BY <2>2 DEF NextIsBounded
<1>11. QED
  BY <1>2, <1>3, <1>7, <1>9, <1>10

-----------------------------------------------------------------------------
LEMMA AllocPreservesIInv ==
    ASSUME IInv, NEW t \in Threads, NEW l \in Layouts, Alloc(t, l)
    PROVE  IInv'
<1> DEFINE n == [start |-> next, size |-> SizeOf(l), align |-> l.align]
<1>1. /\ next' = next + SizeOf(l) /\ next \in Nat /\ next' \in 0 .. Word - 1
      /\ NextIsBounded'
  BY FetchAdd
<1>2. SizeOf(l) \in Nat /\ 1 <= SizeOf(l) /\ SizeOf(l) <= MaxSize
  BY SizeOfBounds
<1>3. next' > next /\ heap_end = HEAP_START + HEAP_SIZE /\ next >= HEAP_START
  BY <1>1, <1>2 DEF IInv, TypeOK, Alloc, AfterInit
<1>4. Occupied \subseteq Block /\ \A b \in Occupied : End(b) \in Nat
  BY OccupiedAreBlocks, BlockFields DEF IInv
<1>5. Freeing' = Freeing /\ \A u \in Threads : pc'[u] = "cas" <=> pc[u] = "cas"
  BY DEF Alloc, Freeing, IInv, TypeOK
<1>6. CASE next > heap_end
  <2>1. Occupied' = Occupied /\ blocks' = blocks /\ t \in Halted'
    BY <1>5, <1>6 DEF Alloc, Occupied, Halted, IInv, TypeOK
  <2>2. TypeOK' /\ FreeingIsABlock' /\ BeforeInit' /\ AfterInit'
    BY <1>1, <1>3, <1>5, <1>6, HeapAssumption
       DEF Alloc, IInv, TypeOK, FreeingIsABlock, BeforeInit, AfterInit
  <2>3. NoOverlap'
    BY <1>5, <2>1 DEF IInv, NoOverlap, Alloc, Disjoint
  <2>4. BelowNext' /\ Gap'
    BY <1>1, <1>3, <1>4, <1>6, <2>1, HeapAssumption DEF IInv, BelowNext, Gap
  <2>5. QED
    BY <1>1, <2>2, <2>3, <2>4 DEF IInv
<1>7. CASE ~(next > heap_end)
  <2>1. blocks' = blocks \cup {n} /\ pc' = pc /\ freeing' = freeing
    BY <1>7 DEF Alloc
  <2>2. n \in Block
    BY <1>1, <1>3, <1>7, HeapAssumption DEF Block
  <2>3. End(n) = next'
    BY <1>1 DEF End
  <2>4. \A b \in Occupied : End(b) <= next
    BY DEF IInv, BelowNext
  <2>5. n \notin Occupied
    BY <1>1, <1>3, <2>3, <2>4
  <2>6. Occupied' = Occupied \cup {n}
    BY <1>5, <2>1 DEF Occupied
  <2>7. Halted = {} /\ Halted' = {}
    BY <1>3, <1>7, <2>1, <1>1, HeapAssumption DEF IInv, Gap, Halted
  <2>8. TypeOK' /\ FreeingIsABlock' /\ BeforeInit' /\ AfterInit'
    BY <1>1, <1>3, <2>1, <2>2, HeapAssumption
       DEF Alloc, IInv, TypeOK, FreeingIsABlock, BeforeInit, AfterInit
  <2>9. NoOverlap'
    <3>1. \A b \in Occupied : End(b) <= n.start
      BY <2>4
    <3>2. \A b, c \in Occupied' : b # c => Disjoint(b, c)
      BY <2>6, <3>1 DEF IInv, NoOverlap, Disjoint
    <3>3. \A u \in Threads : pc[u] = "cas" => freeing[u] \notin blocks'
      BY <2>1, <2>5 DEF IInv, NoOverlap, Occupied, Freeing
    <3>4. QED
      BY <2>1, <3>2, <3>3 DEF IInv, NoOverlap, Disjoint
  <2>10. BelowNext' /\ Gap'
    <3>1. \A b \in Occupied' : End(b) <= next'
      BY <1>1, <1>3, <1>4, <2>3, <2>4, <2>6
    <3>2. QED
      BY <2>7, <3>1 DEF BelowNext, Gap
  <2>11. QED
    BY <1>1, <2>8, <2>9, <2>10 DEF IInv
<1>8. QED
  BY <1>6, <1>7

LEMMA DeallocLoadPreservesIInv ==
    ASSUME IInv, NEW t \in Threads, NEW b \in blocks, DeallocLoad(t, b)
    PROVE  IInv'
<1>1. Halted' = Halted
  BY DEF DeallocLoad, Halted, IInv, TypeOK
<1>2. NextIsBounded'
  BY <1>1 DEF NextIsBounded, IInv, DeallocLoad, Halted
<1>3. heap_end # 0
  BY DEF IInv, BeforeInit
<1>4. b \in Block
  BY DEF IInv, TypeOK
<1>5. TypeOK' /\ BeforeInit' /\ AfterInit' /\ FreeingIsABlock'
  BY <1>3, <1>4
     DEF DeallocLoad, IInv, TypeOK, BeforeInit, AfterInit, FreeingIsABlock
<1>6. Occupied' \subseteq Occupied
  BY DEF Occupied, Freeing, DeallocLoad, IInv, TypeOK
<1>7. \A c, d \in Occupied' : c # d => Disjoint(c, d)
  BY <1>6 DEF IInv, NoOverlap
<1>8. \A u \in Threads : pc'[u] = "cas" => freeing'[u] \notin blocks'
  BY DEF DeallocLoad, IInv, TypeOK, NoOverlap
<1>9. \A u, w \in Threads :
         pc'[u] = "cas" /\ pc'[w] = "cas" /\ u # w => freeing'[u] # freeing'[w]
  BY DEF DeallocLoad, IInv, TypeOK, NoOverlap
<1>10. NoOverlap'
  BY <1>7, <1>8, <1>9 DEF NoOverlap, Disjoint
<1>11. BelowNext' /\ Gap'
  BY <1>1, <1>6 DEF DeallocLoad, IInv, BelowNext, Gap
<1>12. QED
  BY <1>2, <1>5, <1>10, <1>11 DEF IInv

\* Where the disjointness of blocks is needed: moving next back over the
\* topmost block uncovers no other block.
LEMMA DeallocCasPreservesIInv ==
    ASSUME IInv, NEW t \in Threads, DeallocCas(t)
    PROVE  IInv'
<1> DEFINE f == freeing[t]
<1>1. f \in Block /\ pc[t] = "cas" /\ f \in Occupied
  BY DEF DeallocCas, IInv, FreeingIsABlock, Occupied, Freeing
<1>2. /\ f.start \in Nat /\ f.start >= HEAP_START
      /\ f.size \in Nat /\ f.size >= 1 /\ End(f) = f.start + f.size
  BY <1>1, BlockFields
<1>3. next' = next \/ (next = End(f) /\ next' = f.start)
  BY <1>2 DEF DeallocCas
<1>4. next \in Nat /\ Word \in Nat /\ next < Word
  BY WordAssumption DEF IInv, TypeOK
<1>5. Halted' = Halted
  BY DEF DeallocCas, Halted, IInv, TypeOK
<1>6. next' \in Nat /\ next' <= next /\ next' >= HEAP_START
  BY <1>1, <1>2, <1>3, <1>4 DEF IInv, AfterInit, BeforeInit
<1>7. TypeOK' /\ BeforeInit' /\ AfterInit' /\ FreeingIsABlock'
  BY <1>1, <1>4, <1>6
     DEF DeallocCas, IInv, TypeOK, BeforeInit, AfterInit, FreeingIsABlock
<1>8. NextIsBounded'
  <2> DEFINE bound == HEAP_START + HEAP_SIZE + MaxSize * (1 + Cardinality(Halted))
  <2>1. next <= bound
    BY DEF IInv, NextIsBounded, Halted
  <2>2. bound \in Nat
    BY HaltedCount, HeapAssumption, LayoutAssumption
  <2> HIDE DEF bound
  <2>3. next' <= bound
    BY <1>4, <1>6, <2>1, <2>2
  <2>4. QED
    BY <2>3, <1>5 DEF bound, NextIsBounded, Halted
<1>9. Occupied' \subseteq Occupied \ {f}
  BY <1>1 DEF DeallocCas, Occupied, Freeing, IInv, TypeOK, NoOverlap
<1>10. NoOverlap'
  <2>1. \A c, d \in Occupied' : c # d => Disjoint(c, d)
    BY <1>9 DEF IInv, NoOverlap
  <2>2. /\ \A u \in Threads : pc'[u] = "cas" => pc[u] = "cas" /\ freeing'[u] = freeing[u]
        /\ blocks' = blocks
    BY DEF DeallocCas, IInv, TypeOK
  <2>3. QED
    BY <2>1, <2>2 DEF IInv, NoOverlap, Disjoint
<1>11. BelowNext'
  <2> SUFFICES ASSUME NEW b \in Occupied' PROVE End(b) <= next'
    BY DEF BelowNext
  <2>1. b \in Occupied /\ b # f /\ b \in Block
    BY <1>9, OccupiedAreBlocks DEF IInv
  <2>2. Disjoint(b, f) /\ End(b) <= next
    BY <1>1, <2>1 DEF IInv, NoOverlap, BelowNext
  <2>3. b.start \in Nat /\ b.size >= 1 /\ b.size \in Nat /\ End(b) = b.start + b.size
    BY <2>1, BlockFields
  <2>4. CASE next' = next
    BY <2>2, <2>4
  <2>5. CASE next = End(f) /\ next' = f.start
    BY <1>2, <2>2, <2>3, <2>5 DEF Disjoint
  <2>6. QED
    BY <1>3, <2>4, <2>5
<1>12. Gap'
  <2> SUFFICES ASSUME Halted # {}
               PROVE  next' > HEAP_START + HEAP_SIZE /\ \A b \in Occupied' : End(b) < next'
    BY <1>5 DEF Gap
  <2>1. End(f) < next /\ next > HEAP_START + HEAP_SIZE /\ \A b \in Occupied : End(b) < next
    BY <1>1 DEF IInv, Gap
  <2>2. next' = next
    BY <1>2, <1>3, <1>4, <2>1
  <2>3. QED
    BY <1>9, <2>1, <2>2
<1>13. QED
  BY <1>7, <1>8, <1>10, <1>11, <1>12 DEF IInv

-----------------------------------------------------------------------------
LEMMA NextPreservesIInv == IInv /\ [Next]_vars => IInv'
<1> SUFFICES ASSUME IInv, [Next]_vars PROVE IInv'
  OBVIOUS
<1>1. CASE InitHeap
  BY <1>1, InitHeapPreservesIInv
<1>2. ASSUME NEW t \in Threads, NEW l \in Layouts, Alloc(t, l) PROVE IInv'
  BY <1>2, AllocPreservesIInv
<1>3. ASSUME NEW t \in Threads, NEW b \in blocks, DeallocLoad(t, b) PROVE IInv'
  BY <1>3, DeallocLoadPreservesIInv
<1>4. ASSUME NEW t \in Threads, DeallocCas(t) PROVE IInv'
  BY <1>4, DeallocCasPreservesIInv
<1>5. CASE UNCHANGED vars
  BY <1>5 DEF vars, IInv, TypeOK, BeforeInit, AfterInit, FreeingIsABlock,
     NoOverlap, BelowNext, Gap, NextIsBounded, Occupied, Freeing, Halted, Disjoint
<1>6. QED
  BY <1>1, <1>2, <1>3, <1>4, <1>5 DEF Next

LEMMA Inductive == Spec => []IInv
<1>1. QED
  BY InitEstablishesIInv, NextPreservesIInv, PTL DEF Spec

\* alloc and dealloc keep the allocator's words and the blocks well formed:
\* every block handed out starts inside the heap.
THEOREM TypeCorrect == Spec => []TypeOK
<1>1. IInv => TypeOK
  BY DEF IInv
<1>2. QED
  BY <1>1, Inductive, PTL

\* Blocks never overlap, for any number of threads racing between the load
\* and the compare_exchange of dealloc.
THEOREM BlocksNeverOverlap == Spec => []NoOverlap
<1>1. IInv => NoOverlap
  BY DEF IInv
<1>2. QED
  BY <1>1, Inductive, PTL

\* next never wraps around: it overshoots the heap by at most one granted
\* request and one per refused thread.
THEOREM NextNeverWraps == Spec => []NextIsBounded
<1>1. IInv => NextIsBounded
  BY DEF IInv
<1>2. QED
  BY <1>1, Inductive, PTL

-----------------------------------------------------------------------------
\* After one refused request no request is granted any more, whoever makes
\* it and whatever has been freed since.
THEOREM RefusalIsForGood == Spec => ExhaustionIsPermanent
<1>1. IInv /\ [Next]_vars =>
         [(\E t \in Threads : pc[t] = "halted") => blocks' \subseteq blocks]_vars
  <2> SUFFICES ASSUME IInv, Next, Halted # {} PROVE blocks' \subseteq blocks
    BY DEF Halted
  <2>1. next > HEAP_START + HEAP_SIZE
    BY DEF IInv, Gap
  <2>2. CASE InitHeap
    BY <2>2 DEF InitHeap
  <2>3. ASSUME NEW t \in Threads, NEW l \in Layouts, Alloc(t, l)
        PROVE  blocks' \subseteq blocks
    BY <2>1, <2>3, HeapAssumption DEF Alloc, IInv, TypeOK
  <2>4. ASSUME NEW t \in Threads, NEW b \in blocks, DeallocLoad(t, b)
        PROVE  blocks' \subseteq blocks
    BY <2>4 DEF DeallocLoad
  <2>5. ASSUME NEW t \in Threads, DeallocCas(t)
        PROVE  blocks' \subseteq blocks
    BY <2>5 DEF DeallocCas
  <2>6. QED
    BY <2>2, <2>3, <2>4, <2>5 DEF Next
<1>2. QED
  BY <1>1, Inductive, PTL DEF Spec, ExhaustionIsPermanent

\* The bump allocator implements the abstract allocator: every step hands
\* out a block disjoint from those in use, takes one back, or changes
\* nothing a client can see.
THEOREM BumpImplementsHeap == Spec => ImplementsHeapSpec
<1>1. Init => Heap!Init
  BY DEF Init, Heap!Init, Occupied, Freeing
<1>2. IInv /\ [Next]_vars => [Heap!Next]_Occupied
  <2> SUFFICES ASSUME IInv, [Next]_vars PROVE Heap!Next \/ Occupied' = Occupied
    OBVIOUS
  <2>1. CASE InitHeap
    BY <2>1 DEF InitHeap, Occupied, Freeing
  <2>2. ASSUME NEW t \in Threads, NEW l \in Layouts, Alloc(t, l)
        PROVE  Heap!Next \/ Occupied' = Occupied
    <3> DEFINE n == [start |-> next, size |-> SizeOf(l), align |-> l.align]
    <3>1. Freeing' = Freeing
      BY <2>2 DEF Alloc, Freeing, IInv, TypeOK
    <3>2. CASE next > heap_end
      BY <2>2, <3>1, <3>2 DEF Alloc, Occupied
    <3>3. CASE ~(next > heap_end)
      <4>1. Occupied' = Occupied \cup {n}
        BY <2>2, <3>1, <3>3 DEF Alloc, Occupied
      <4>2. \A c \in Occupied : c.start + c.size <= n.start
        BY DEF IInv, BelowNext, End
      <4>3. next \in Nat /\ next >= HEAP_START /\ next <= HEAP_START + HEAP_SIZE
        BY <2>2, <3>3, FetchAdd, HeapAssumption DEF Alloc, IInv, TypeOK, AfterInit
      <4>4. n \in Block
        BY <4>3, HeapAssumption DEF Block
      <4>5. Heap!Allocate(n, l)
        BY <4>1, <4>2, SizeOfBounds DEF Heap!Allocate, Heap!Disjoint
      <4>6. QED
        BY <4>4, <4>5 DEF Heap!Next
    <3>4. QED
      BY <3>2, <3>3
  <2>3. ASSUME NEW t \in Threads, NEW b \in blocks, DeallocLoad(t, b)
        PROVE  Heap!Next \/ Occupied' = Occupied
    <3>1. b \in Block /\ b \in Occupied /\ b \notin Freeing
      BY DEF IInv, TypeOK, NoOverlap, Occupied, Freeing
    <3>2. CASE End(b) = next
      BY <2>3, <3>2 DEF DeallocLoad, Occupied, Freeing, IInv, TypeOK
    <3>3. CASE End(b) # next
      <4>1. Occupied' = Occupied \ {b}
        BY <2>3, <3>1, <3>3 DEF DeallocLoad, Occupied, Freeing
      <4>2. QED
        BY <3>1, <4>1 DEF Heap!Next, Heap!Release
    <3>4. QED
      BY <3>2, <3>3
  <2>4. ASSUME NEW t \in Threads, DeallocCas(t)
        PROVE  Heap!Next \/ Occupied' = Occupied
    <3> DEFINE f == freeing[t]
    <3>1. f \in Block /\ f \in Occupied /\ pc[t] = "cas"
      BY <2>4 DEF DeallocCas, IInv, FreeingIsABlock, Occupied, Freeing
    <3>2. Occupied' = Occupied \ {f}
      <4>1. Occupied' \subseteq Occupied \ {f}
        BY <2>4, <3>1 DEF DeallocCas, Occupied, Freeing, IInv, TypeOK, NoOverlap
      <4>2. ASSUME NEW c \in Occupied, c # f PROVE c \in Occupied'
        BY <2>4, <4>2 DEF DeallocCas, Occupied, Freeing, IInv, TypeOK
      <4>3. QED
        BY <4>1, <4>2
    <3>3. QED
      BY <3>1, <3>2 DEF Heap!Next, Heap!Release
  <2>5. CASE UNCHANGED vars
    BY <2>5 DEF vars, Occupied, Freeing
  <2>6. QED
    BY <2>1, <2>2, <2>3, <2>4, <2>5 DEF Next
<1>3. QED
  BY <1>1, <1>2, Inductive, PTL DEF Spec, ImplementsHeapSpec, Heap!Spec

-----------------------------------------------------------------------------
\* While frees come in stack order the blocks tile the heap up to next, and a
\* dealloc in progress is of the block that ends there.
Tiles ==
    lifo /\ heap_end # 0 =>
        /\ next = HEAP_START \/ \E b \in Occupied : End(b) = next
        /\ \A b \in Occupied :
              b.start = HEAP_START \/ \E c \in Occupied : End(c) = b.start
        /\ \A t \in Threads : pc[t] = "cas" => End(freeing[t]) = next

LEMMA AllocKeepsTiles ==
    ASSUME IInv, Tiles, NEW t \in Threads, NEW l \in Layouts, Alloc(t, l)
    PROVE  Tiles'
<1> SUFFICES ASSUME lifo', heap_end' # 0 PROVE Tiles'
  BY DEF Tiles
<1> DEFINE n == [start |-> next, size |-> SizeOf(l), align |-> l.align]
<1>1. lifo /\ heap_end # 0 /\ ~Refused /\ Freeing = {} /\ blocks' = blocks \cup {n}
      /\ pc' = pc /\ freeing' = freeing
  BY DEF Alloc, IInv, TypeOK
<1>2. \A u \in Threads : pc[u] # "cas"
  BY <1>1 DEF Freeing
<1>3. Occupied = blocks /\ Occupied' = blocks \cup {n}
  BY <1>1, <1>2 DEF Occupied, Freeing
<1>4. End(n) = next' /\ n.start = next
  BY FetchAdd DEF End
<1>5. \A b \in Occupied' : b.start = HEAP_START \/ \E c \in Occupied' : End(c) = b.start
  BY <1>1, <1>3, <1>4 DEF Tiles
<1>6. \E b \in Occupied' : End(b) = next'
  BY <1>3, <1>4
<1>7. QED
  BY <1>1, <1>2, <1>5, <1>6 DEF Tiles

LEMMA DeallocLoadKeepsTiles ==
    ASSUME IInv, Tiles, NEW t \in Threads, NEW b \in blocks, DeallocLoad(t, b)
    PROVE  Tiles'
<1> SUFFICES ASSUME lifo', heap_end' # 0 PROVE Tiles'
  BY DEF Tiles
<1>1. /\ lifo /\ heap_end # 0 /\ Freeing = {} /\ next' = next
      /\ \A c \in blocks : c.start <= b.start
  BY DEF DeallocLoad, IInv, TypeOK
<1>2. \A u \in Threads : pc[u] # "cas"
  BY <1>1 DEF Freeing
<1>3. Occupied = blocks /\ b \in Block /\ next \in Nat
  BY <1>1 DEF Occupied, IInv, TypeOK
<1>4. b.start \in Nat /\ b.start >= HEAP_START /\ b.size \in Nat /\ b.size >= 1
      /\ End(b) = b.start + b.size
  BY <1>3, BlockFields
<1>5. End(b) = next
  <2>1. End(b) <= next
    BY <1>3 DEF IInv, BelowNext
  <2>2. next # HEAP_START
    BY <1>4, <2>1, <1>3, HeapAssumption
  <2>3. PICK e \in blocks : End(e) = next
    BY <1>1, <1>3, <2>2 DEF Tiles
  <2>4. e \in Block /\ e.start \in Nat /\ End(e) = e.start + e.size
    BY BlockFields DEF IInv, TypeOK
  <2>5. e.start <= b.start
    BY <1>1
  <2>6. e = b \/ Disjoint(b, e)
    BY <1>3 DEF IInv, NoOverlap
  <2>7. QED
    BY <1>3, <1>4, <2>1, <2>3, <2>4, <2>5, <2>6 DEF Disjoint
<1>6. /\ blocks' = blocks \ {b} /\ pc' = [pc EXCEPT ![t] = "cas"]
      /\ freeing' = [freeing EXCEPT ![t] = b]
  BY <1>5 DEF DeallocLoad
<1>7. Freeing' = {b}
  BY <1>2, <1>6 DEF Freeing, IInv, TypeOK
<1>8. Occupied' = Occupied
  BY <1>3, <1>6, <1>7 DEF Occupied
<1>9. \A u \in Threads : pc'[u] = "cas" => End(freeing'[u]) = next'
  BY <1>1, <1>2, <1>5, <1>6 DEF IInv, TypeOK
<1>10. QED
  BY <1>1, <1>8, <1>9 DEF Tiles

LEMMA DeallocCasKeepsTiles ==
    ASSUME IInv, Tiles, NEW t \in Threads, DeallocCas(t)
    PROVE  Tiles'
<1> SUFFICES ASSUME lifo', heap_end' # 0 PROVE Tiles'
  BY DEF Tiles
<1> DEFINE f == freeing[t]
<1>1. lifo /\ heap_end # 0 /\ pc[t] = "cas" /\ f \in Block /\ f \in Occupied
  BY DEF DeallocCas, IInv, FreeingIsABlock, Occupied, Freeing
<1>2. /\ f.start \in Nat /\ f.size \in Nat /\ f.size >= 1 /\ End(f) = f.start + f.size
      /\ next \in Nat
  BY <1>1, BlockFields DEF IInv, TypeOK
<1>3. End(f) = next
  BY <1>1 DEF Tiles
<1>4. next' = f.start
  BY <1>2, <1>3 DEF DeallocCas
<1>5. \A u \in Threads : pc[u] = "cas" => u = t
  <2> SUFFICES ASSUME NEW u \in Threads, pc[u] = "cas", u # t PROVE FALSE
    OBVIOUS
  <2>1. freeing[u] \in Block /\ freeing[u] \in Occupied /\ freeing[u] # f
    BY <1>1 DEF IInv, FreeingIsABlock, Occupied, Freeing, NoOverlap
  <2>2. End(freeing[u]) = next /\ Disjoint(freeing[u], f)
    BY <1>1, <2>1 DEF Tiles, IInv, NoOverlap
  <2>3. /\ freeing[u].start \in Nat /\ freeing[u].size >= 1 /\ freeing[u].size \in Nat
        /\ End(freeing[u]) = freeing[u].start + freeing[u].size
    BY <2>1, BlockFields
  <2>4. QED
    BY <1>2, <1>3, <2>2, <2>3 DEF Disjoint
<1>6. f \notin blocks /\ Freeing = {f} /\ Freeing' = {} /\ blocks' = blocks
  BY <1>1, <1>5 DEF DeallocCas, Freeing, IInv, TypeOK, NoOverlap
<1>7. Occupied' = Occupied \ {f}
  BY <1>6 DEF Occupied
<1>8. next' = HEAP_START \/ \E b \in Occupied' : End(b) = next'
  <2>1. f.start = HEAP_START \/ \E c \in Occupied : End(c) = f.start
    BY <1>1 DEF Tiles
  <2>2. \A c \in Occupied : End(c) = f.start => c # f
    BY <1>2
  <2>3. QED
    BY <1>4, <1>7, <2>1, <2>2
<1>9. \A b \in Occupied' : b.start = HEAP_START \/ \E c \in Occupied' : End(c) = b.start
  <2> SUFFICES ASSUME NEW b \in Occupied', b.start # HEAP_START
               PROVE  \E c \in Occupied' : End(c) = b.start
    OBVIOUS
  <2>1. PICK c \in Occupied : End(c) = b.start
    BY <1>1, <1>7 DEF Tiles
  <2>2. b \in Occupied /\ b \in Block /\ End(b) <= next
    BY <1>7, OccupiedAreBlocks DEF IInv, BelowNext
  <2>3. b.start \in Nat /\ b.size >= 1 /\ b.size \in Nat /\ End(b) = b.start + b.size
    BY <2>2, BlockFields
  <2>4. c # f
    BY <1>2, <1>3, <2>1, <2>2, <2>3
  <2>5. QED
    BY <1>7, <2>1, <2>4
<1>10. \A u \in Threads : pc'[u] # "cas"
  BY <1>5 DEF DeallocCas, IInv, TypeOK
<1>11. QED
  BY <1>8, <1>9, <1>10 DEF Tiles

\* Frees in stack order give everything back: next is the end of the topmost
\* block, or the start of an empty heap.
THEOREM StackOrderReclaims == Spec => []LifoReclaims
<1>1. Init => Tiles
  BY DEF Init, Tiles
<1>2. IInv /\ Tiles /\ [Next]_vars => Tiles'
  <2> SUFFICES ASSUME IInv, Tiles, [Next]_vars PROVE Tiles'
    OBVIOUS
  <2>1. CASE InitHeap
    <3>1. blocks' = {} /\ \A t \in Threads : pc'[t] = "run"
      BY <2>1 DEF InitHeap, IInv, BeforeInit
    <3>2. Occupied' = {}
      BY <3>1 DEF Occupied, Freeing
    <3>3. QED
      BY <2>1, <3>1, <3>2 DEF InitHeap, Tiles
  <2>2. CASE UNCHANGED vars
    BY <2>2 DEF vars, Tiles, Occupied, Freeing
  <2>3. QED
    BY <2>1, <2>2, AllocKeepsTiles, DeallocLoadKeepsTiles, DeallocCasKeepsTiles DEF Next
<1>3. IInv /\ Tiles => LifoReclaims
  <2> SUFFICES ASSUME IInv, Tiles, lifo, heap_end # 0, ~\E b \in Occupied : End(b) = next
               PROVE  Occupied = {} /\ next = HEAP_START
    BY DEF LifoReclaims
  <2>1. next = HEAP_START
    BY DEF Tiles
  <2>2. ASSUME NEW b \in Occupied PROVE FALSE
    <3>1. b \in Block /\ End(b) <= HEAP_START
      BY <2>1, OccupiedAreBlocks DEF IInv, BelowNext
    <3>2. QED
      BY <3>1, BlockFields, HeapAssumption
  <2>3. QED
    BY <2>1, <2>2
<1>4. QED
  BY <1>1, <1>2, <1>3, Inductive, PTL DEF Spec

-----------------------------------------------------------------------------
LEMMA MultipleIntro ==
    ASSUME NEW x \in Nat, NEW a \in Nat \ {0}, NEW m \in Nat, x = a * m
    PROVE  Multiple(x, a)
<1> DEFINE k == a - 1
<1>1. k \in Nat /\ a = 1 + k
  OBVIOUS
<1> HIDE DEF k
<1>2. a * m = m + k * m /\ k * m \in Nat
  BY <1>1
<1>3. m \in 0 .. x
  BY <1>2
<1>4. QED
  BY <1>3 DEF Multiple

LEMMA MultipleSum ==
    ASSUME NEW x \in Nat, NEW y \in Nat, NEW a \in Nat \ {0},
           Multiple(x, a), Multiple(y, a)
    PROVE  Multiple(x + y, a)
<1>1. PICK m \in 0 .. x : x = a * m
  BY DEF Multiple
<1>2. PICK n \in 0 .. y : y = a * n
  BY DEF Multiple
<1>3. m \in Nat /\ n \in Nat /\ m + n \in Nat /\ x + y \in Nat
  OBVIOUS
<1>4. x + y = a * (m + n)
  BY <1>1, <1>2, <1>3
<1>5. QED
  BY <1>3, <1>4, MultipleIntro

\* align_up returns a multiple of the alignment, and so of its divisors.
LEMMA SizeIsMultiple ==
    ASSUME NEW l \in Layouts, NEW a \in Nat \ {0}, Multiple(l.align, a)
    PROVE  Multiple(SizeOf(l), a)
<1> DEFINE v == l.size + l.align - 1
           q == v \div l.align
           r == v % l.align
<1>1. l.size \in Nat \ {0} /\ l.align \in Nat \ {0}
  BY LayoutAssumption
<1>2. v \in Nat
  BY <1>1
<1>3. SizeOf(l) = v - r /\ SizeOf(l) \in Nat
  BY SizeOfBounds DEF SizeOf, align_up
<1> HIDE DEF v
<1>4. q \in Nat /\ r \in Nat /\ v = l.align * q + r
  BY <1>1, <1>2
<1> HIDE DEF q, r
<1>5. SizeOf(l) = l.align * q
  <2>1. l.align * q \in Nat
    BY <1>1, <1>4
  <2>2. QED
    BY <1>2, <1>3, <1>4, <2>1
<1>6. PICK m \in 0 .. l.align : l.align = a * m
  BY DEF Multiple
<1>7. m \in Nat /\ m * q \in Nat
  BY <1>1, <1>4
<1>8. SizeOf(l) = a * (m * q)
  BY <1>4, <1>5, <1>6, <1>7
<1>9. QED
  BY <1>3, <1>7, <1>8, MultipleIntro

SmallestAlignment(a) ==
    /\ a \in {l.align : l \in Layouts}
    /\ Multiple(HEAP_START, a) /\ \A l \in Layouts : Multiple(l.align, a)

\* next and the blocks stay on multiples of a.
Aligned(a) ==
    /\ heap_end # 0 => Multiple(next, a)
    /\ \A b \in Occupied : Multiple(b.start, a)

LEMMA AlignedStep ==
    ASSUME NEW a, SmallestAlignment(a), IInv, Aligned(a), [Next]_vars
    PROVE  Aligned(a)'
<1>1. a \in Nat \ {0}
  BY LayoutAssumption DEF SmallestAlignment
<1>2. CASE InitHeap
  <2>1. Occupied' = {}
    BY <1>2 DEF InitHeap, IInv, BeforeInit, Occupied, Freeing
  <2>2. QED
    BY <1>2, <2>1 DEF InitHeap, Aligned, SmallestAlignment
<1>3. ASSUME NEW t \in Threads, NEW l \in Layouts, Alloc(t, l) PROVE Aligned(a)'
  <2> DEFINE n == [start |-> next, size |-> SizeOf(l), align |-> l.align]
  <2>1. Multiple(next, a) /\ heap_end' = heap_end
    BY <1>3 DEF Alloc, Aligned
  <2>2. next' = next + SizeOf(l) /\ next \in Nat
    BY <1>3, FetchAdd
  <2>3. Multiple(next', a)
    BY <1>1, <2>1, <2>2, SizeOfBounds, SizeIsMultiple, MultipleSum DEF SmallestAlignment
  <2>4. Freeing' = Freeing
    BY <1>3 DEF Alloc, Freeing, IInv, TypeOK
  <2>5. Occupied' \subseteq Occupied \cup {n}
    BY <1>3, <2>4 DEF Alloc, Occupied
  <2>6. QED
    BY <2>1, <2>3, <2>5 DEF Aligned
<1>4. ASSUME NEW t \in Threads, NEW b \in blocks, DeallocLoad(t, b) PROVE Aligned(a)'
  <2>1. Occupied' \subseteq Occupied
    BY <1>4 DEF Occupied, Freeing, DeallocLoad, IInv, TypeOK
  <2>2. QED
    BY <1>4, <2>1 DEF DeallocLoad, Aligned
<1>5. ASSUME NEW t \in Threads, DeallocCas(t) PROVE Aligned(a)'
  <2>1. Occupied' \subseteq Occupied
    BY <1>5 DEF Occupied, Freeing, DeallocCas, IInv, TypeOK
  <2>2. freeing[t] \in Occupied /\ freeing[t] \in Block
    BY <1>5 DEF DeallocCas, Occupied, Freeing, IInv, FreeingIsABlock
  <2>3. next' = next \/ next' = freeing[t].start
    BY <1>5, <2>2, BlockFields DEF DeallocCas
  <2>4. QED
    BY <1>5, <2>1, <2>2, <2>3 DEF DeallocCas, Aligned
<1>6. CASE UNCHANGED vars
  BY <1>6 DEF vars, Aligned, Occupied, Freeing
<1>7. QED
  BY <1>2, <1>3, <1>4, <1>5, <1>6 DEF Next

\* Every block starts on a multiple of the smallest alignment asked for.
THEOREM SmallestAlignmentKept == Spec => []AlignedToTheSmallest
<1> DEFINE AInv == \A a : SmallestAlignment(a) => Aligned(a)
<1>1. Init => AInv
  BY DEF Init, Aligned, Occupied, Freeing
<1>2. IInv /\ AInv /\ [Next]_vars => AInv'
  BY AlignedStep
<1>3. AInv => AlignedToTheSmallest
  BY DEF AlignedToTheSmallest, SmallestAlignment, Aligned, Occupied
<1>4. QED
  BY <1>1, <1>2, <1>3, Inductive, PTL DEF Spec
=============================================================================
