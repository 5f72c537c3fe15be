--------------------------- MODULE BumpAllocator ---------------------------
(***************************************************************************)
(* The kernel's global allocator (kernel/src/allocator/bump.rs): three     *)
(* atomic words, an alloc that is one fetch_add, and a dealloc that loads  *)
(* next and, when the freed block is the topmost one, tries to move next   *)
(* back with a compare_exchange.  The steps of different threads (and of   *)
(* interrupt handlers, which free wakers) interleave between the load and  *)
(* the exchange.                                                           *)
(*                                                                         *)
(* A client whose request is refused runs alloc_error_handler, which       *)
(* panics: that thread is halted for good.  GlobalAlloc::realloc is not    *)
(* overridden, so it is an alloc followed by a dealloc.                    *)
(***************************************************************************)
EXTENDS Integers, FiniteSets

CONSTANTS
    Threads,      \* the execution contexts that use the heap
    Layouts,      \* the layouts [size, align] clients ask for
    HEAP_START,
    HEAP_SIZE,
    MaxSize,      \* no request occupies more than this many bytes
    Word          \* number of values of a usize

\* Mutated forms of align_up: the value is returned as it is; it is rounded
\* down, as `value & !(align - 1)` would.
align_up_nothing(value, align) == value

align_up_down(value, align) == value - (value % align)

\* `(value + align - 1) & !(align - 1)`, where align is a power of two.
align_up(value, align) ==
    LET v == value + align - 1 IN v - (v % align)

\* The bytes a layout occupies on the heap.
SizeOf(l) == align_up(l.size, l.align)

ASSUME HeapAssumption ==
    /\ HEAP_START \in Nat \ {0}
    /\ HEAP_SIZE \in Nat \ {0}

\* core::alloc::Layout guarantees a power-of-two align; GlobalAlloc forbids
\* requests of size zero.
ASSUME LayoutAssumption ==
    /\ MaxSize \in Nat
    /\ \A l \in Layouts :
          /\ l.size \in Nat \ {0}
          /\ l.align \in Nat \ {0}
          /\ \E k \in 0..63 : l.align = 2^k
          /\ SizeOf(l) <= MaxSize

ASSUME ThreadsAssumption == IsFiniteSet(Threads)

\* Requests are small beside the address space: even if every thread has one
\* request refused, next stays below 2^w.
ASSUME WordAssumption ==
    /\ Word \in Nat
    /\ HEAP_START + HEAP_SIZE + MaxSize * (Cardinality(Threads) + 1) < Word

VARIABLES
    heap_start,   \* AtomicUsize: first byte of the heap
    heap_end,     \* AtomicUsize: one past the last byte of the heap
    next,         \* AtomicUsize: where the next block goes
    blocks,       \* the blocks clients hold
    pc,           \* per thread: "run", "cas" (inside dealloc) or "halted"
    freeing,      \* per thread: the block dealloc has found on top
    lifo          \* history: no request was refused, every free was of the
                  \* topmost block, and nobody used the heap during a dealloc

vars == <<heap_start, heap_end, next, blocks, pc, freeing, lifo>>

\* The blocks alloc can return.
Block ==
    [start : HEAP_START .. HEAP_START + HEAP_SIZE,
     size  : {SizeOf(l) : l \in Layouts},
     align : {l.align : l \in Layouts}]

NoBlock == [start |-> 0, size |-> 0, align |-> 1]

End(b) == b.start + b.size

\* The blocks whose memory is in use: held by a client, or being freed by a
\* thread that has not finished its compare_exchange.
Freeing == {freeing[t] : t \in {u \in Threads : pc[u] = "cas"}}
Occupied == blocks \cup Freeing

-----------------------------------------------------------------------------
\* BumpAllocator::new()
Init ==
    /\ heap_start = 0
    /\ heap_end = 0
    /\ next = 0
    /\ blocks = {}
    /\ pc = [t \in Threads |-> "run"]
    /\ freeing = [t \in Threads |-> NoBlock]
    /\ lifo = TRUE

\* BumpAllocator::init, called once, before any allocation (its contract).
InitHeap ==
    /\ heap_end = 0
    /\ heap_start' = HEAP_START
    /\ heap_end' = HEAP_START + HEAP_SIZE
    /\ next' = HEAP_START
    /\ UNCHANGED <<blocks, pc, freeing, lifo>>

\* Mutated forms of Refused, fetch_add and alloc_error_handler: no request is
\* refused; a refused request is undone; the client goes on.
NeverRefused == FALSE

\* alloc: `new_ptr > heap_end`.
Refused == next > heap_end

fetch_add_undone(l) == IF Refused THEN next ELSE (next + SizeOf(l)) % Word

fetch_add(l) == (next + SizeOf(l)) % Word

error_ignored(t) == UNCHANGED pc

alloc_error_handler(t) == pc' = [pc EXCEPT ![t] = "halted"]

\* GlobalAlloc::alloc.  next is advanced before the bound is looked at, and
\* is not moved back when the request is refused.
Alloc(t, l) ==
    /\ heap_end # 0
    /\ pc[t] = "run"
    /\ next' = fetch_add(l)
    /\ IF Refused
       THEN alloc_error_handler(t) /\ UNCHANGED blocks
       ELSE /\ blocks' = blocks \cup
                   {[start |-> next, size |-> SizeOf(l), align |-> l.align]}
            /\ UNCHANGED pc
    /\ lifo' = (lifo /\ ~Refused /\ Freeing = {})
    /\ UNCHANGED <<heap_start, heap_end, freeing>>

\* GlobalAlloc::dealloc up to its load of next.  The client has given the
\* block up; unless it ends at next its memory is never used again.
DeallocLoad(t, b) ==
    /\ pc[t] = "run"
    /\ b \in blocks
    /\ blocks' = blocks \ {b}
    /\ IF End(b) = next
       THEN /\ pc' = [pc EXCEPT ![t] = "cas"]
            /\ freeing' = [freeing EXCEPT ![t] = b]
       ELSE UNCHANGED <<pc, freeing>>
    /\ lifo' = (lifo /\ Freeing = {} /\ \A c \in blocks : c.start <= b.start)
    /\ UNCHANGED <<heap_start, heap_end, next>>

\* Mutated forms of compare_exchange: a plain store; one that never succeeds.
store(current, new) == next' = new

never_exchange(current, new) == UNCHANGED next

compare_exchange(current, new) == next' = IF next = current THEN new ELSE next

\* The compare_exchange of dealloc: current_ptr is the end of the block.
DeallocCas(t) ==
    /\ pc[t] = "cas"
    /\ LET current_ptr == End(freeing[t])
       IN  compare_exchange(current_ptr, current_ptr - freeing[t].size)
    /\ pc' = [pc EXCEPT ![t] = "run"]
    /\ freeing' = [freeing EXCEPT ![t] = NoBlock]
    /\ UNCHANGED <<heap_start, heap_end, blocks, lifo>>

Next ==
    \/ InitHeap
    \/ \E t \in Threads, l \in Layouts : Alloc(t, l)
    \/ \E t \in Threads : \E b \in blocks : DeallocLoad(t, b)
    \/ \E t \in Threads : DeallocCas(t)

Spec == Init /\ [][Next]_vars

-----------------------------------------------------------------------------
TypeOK ==
    /\ heap_start \in {0, HEAP_START}
    /\ heap_end \in {0, HEAP_START + HEAP_SIZE}
    /\ next \in 0 .. Word - 1
    /\ blocks \subseteq Block
    /\ pc \in [Threads -> {"run", "cas", "halted"}]
    /\ freeing \in [Threads -> Block \cup {NoBlock}]
    /\ lifo \in BOOLEAN

Disjoint(b, c) == End(b) <= c.start \/ End(c) <= b.start

\* No two blocks share a byte, whatever the interleaving of the loads and
\* exchanges of dealloc with other threads' allocs and deallocs (an ABA on
\* next included); a block half way through dealloc still counts.
NoOverlap ==
    /\ \A b, c \in Occupied : b # c => Disjoint(b, c)
    /\ \A t, u \in Threads :
          pc[t] = "cas" /\ pc[u] = "cas" /\ t # u => freeing[t] # freeing[u]
    /\ \A t \in Threads : pc[t] = "cas" => freeing[t] \notin blocks

\* The pointer arithmetic never wraps: next exceeds the end of the heap by at
\* most one request that was granted and one per thread that was refused.
NextIsBounded ==
    next <= HEAP_START + HEAP_SIZE
            + MaxSize * (1 + Cardinality({t \in Threads : pc[t] = "halted"}))

Multiple(x, a) == \E m \in 0 .. x : x = a * m

\* Every pointer alloc returns has the smallest alignment any client asks for
\* (the powers of two above it are its multiples), if HEAP_START has it: alloc
\* rounds sizes up, not addresses, so nothing better holds when alignments are
\* mixed.
AlignedToTheSmallest ==
    \A a \in {l.align : l \in Layouts} :
        (Multiple(HEAP_START, a) /\ \A l \in Layouts : Multiple(l.align, a))
            => \A b \in blocks : Multiple(b.start, a)

\* A refused request leaves next past the end of the heap with a gap below
\* it that no dealloc can close: from then on no request of any thread is
\* granted, even when every block has been given back.
ExhaustionIsPermanent ==
    [][(\E t \in Threads : pc[t] = "halted") => blocks' \subseteq blocks]_vars

\* As long as clients free in stack order the heap is fully recycled: until a
\* request is refused, next is the end of the topmost block (or the start of
\* the heap).  The many_boxes test, which makes HEAP_SIZE boxes one
\* after the other, needs this.
LifoReclaims ==
    lifo /\ heap_end # 0 =>
        \/ \E b \in Occupied : End(b) = next
        \/ Occupied = {} /\ next = HEAP_START

\* bump.rs refines what an allocator promises (module HeapSpec): blocks are
\* as large as asked for and disjoint, one at a time, and nothing else than
\* dealloc takes one back.
Heap == INSTANCE HeapSpec WITH live <- Occupied, Blocks <- Block
ImplementsHeapSpec == Heap!Spec

\* bump.rs, BumpAllocator::init: "Initializes the bump allocator with the
\* given heap bounds."  (alloc compares the start of the block with heap_end,
\* not its end.)
BlocksWithinHeapBounds ==
    \A b \in blocks : heap_start <= b.start /\ End(b) <= heap_end
=============================================================================
