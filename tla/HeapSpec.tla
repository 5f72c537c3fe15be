------------------------------ MODULE HeapSpec ------------------------------
(***************************************************************************)
(* What a memory allocator promises its clients, and nothing more: a block *)
(* that is handed out is as large as the request and shares no byte with   *)
(* any block still in use, and only a block in use can be given back.      *)
(* Where blocks come from, and whether their memory is ever used again, is *)
(* left open.  So are two things GlobalAlloc promises as well: that a      *)
(* block starts at a multiple of its alignment, and that it lies in the    *)
(* heap.  Module BumpAllocator has properties of its own on both.          *)
(***************************************************************************)
EXTENDS Integers

CONSTANTS
    Blocks,         \* the blocks [start, size, align] that can be handed out
    Layouts         \* the requests [size, align]

VARIABLE live       \* the blocks in use

\* The two blocks have no byte in common.
Disjoint(b, c) ==
    \/ b.start + b.size <= c.start
    \/ c.start + c.size <= b.start

Init == live = {}

Allocate(b, l) ==
    /\ l.align = b.align /\ l.size <= b.size
    /\ \A c \in live : Disjoint(b, c)
    /\ live' = live \cup {b}

Release(b) ==
    /\ b \in live
    /\ live' = live \ {b}

Next ==
    \E b \in Blocks : Release(b) \/ \E l \in Layouts : Allocate(b, l)

Spec == Init /\ [][Next]_live
=============================================================================
