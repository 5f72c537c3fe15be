----------------------------- MODULE BootProofs -----------------------------
(***************************************************************************)
(* Proofs about Boot, for every memory map, every program and every size   *)
(* of pages, tables, heap and stack.                                       *)
(***************************************************************************)
EXTENDS Boot, WellFoundedInduction, TLAPS

Usable == usable_frames(memory_map)

\* The frames the allocator has handed out so far.
Taken == {Usable[i] : i \in {j \in 1 .. Len(Usable) : j <= next}}

\* The constants of a behaviour, and that frames come from the bootloader or
\* from the allocator.
Book ==
    /\ memory_map \in MemoryMaps /\ file \in Files
    /\ \A p \in DOMAIN page_table : page_table[p].frame \in KernelFrames \cup Taken
    /\ \A t \in DOMAIN tables : tables[t].frame \in KernelFrames \cup Taken

\* From remap on, load works on the moved segments of a file that has text.
ElfInv ==
    pc \in {"merge", "map", "protect", "user"} =>
        /\ TextIndices(Wanted) # {}
        /\ segments = relocated(file).segments /\ entry_point = relocated(file).entry

\* A page of the heap as init_kernel_heap leaves it.
Backed(p) ==
    /\ p \in DOMAIN page_table
    /\ "WRITABLE" \in page_table[p].flags /\ "USER_ACCESSIBLE" \notin page_table[p].flags
    /\ TableOf(p) \in DOMAIN tables /\ "WRITABLE" \in tables[TableOf(p)].flags

\* The pages of the heap are mapped one after the other; the pages of the
\* program turn out, as they are mapped, not to be among them.
HeapInv ==
    /\ heap => \A p \in HeapPages : Backed(p)
    /\ pc = "heap" => ~heap /\ \A p \in HeapPages : p \in todo \/ Backed(p)
    /\ pc \in {"stack", "merge", "map", "protect"} => heap
    /\ pc = "map" => \A p \in DOMAIN pages_to_map :
                        p \in todo \/ (p \in DOMAIN page_table /\ p \notin HeapPages)
    /\ pc = "protect" => /\ todo \subseteq DOMAIN pages_to_map
                         /\ \A p \in DOMAIN pages_to_map :
                               p \in DOMAIN page_table /\ p \notin HeapPages
    /\ pc \in {"merge", "map", "protect"} => DOMAIN pages_to_map \subseteq Nat

IInv == TypeOK /\ Book /\ FramesAreUsedOnce /\ ElfInv /\ HeapInv

-----------------------------------------------------------------------------
Less == {pair \in Nat \X Nat : pair[1] < pair[2]}

LEMMA LessIsWellFounded == IsWellFoundedOn(Less, Nat)
BY NatLessThanWellFounded DEF OpToRel, Less

LEMMA MinIsMember ==
    ASSUME NEW S, S \subseteq Nat, S # {}
    PROVE  Min(S) \in S
<1>1. PICK x \in S : \A y \in S : <<y, x>> \notin Less
  BY LessIsWellFounded, WFMin
<1>2. ASSUME NEW y \in S PROVE x =< y
  <2>1. <<y, x>> \in Nat \X Nat
    OBVIOUS
  <2>2. ~(y < x)
    BY <1>1, <2>1 DEF Less
  <2>3. QED
    BY <2>1, <2>2
<1>3. QED
  BY <1>2 DEF Min

LEMMA HeapPagesAreNat == HeapPages \subseteq Nat
<1>1. HEAP_START \div PAGE \in Nat
  BY SizeAssumption
<1>2. QED
  BY <1>1 DEF HeapPages, PageOf

\* A frame from the allocator is new: neither the bootloader's nor taken.
LEMMA FrameIsNew ==
    ASSUME Book, next \in Nat, NEW n \in Nat, n >= next, frame(n) # None
    PROVE  /\ frame(n) \in Nat /\ frame(n) \notin KernelFrames \cup Taken
           /\ n < Len(Usable) /\ frame(n) = Usable[n + 1]
<1>1. Usable \in Seq(Nat) /\ Len(Usable) \in Nat
  BY FrameAssumption DEF Book, Usable
<1>2. n < Len(Usable) /\ frame(n) = Usable[n + 1]
  BY DEF frame, Usable
<1>3. n + 1 \in 1 .. Len(Usable)
  BY <1>1, <1>2
<1>4. frame(n) \in Nat /\ frame(n) \notin KernelFrames
  BY <1>1, <1>2, <1>3, FrameAssumption DEF Book, Usable
<1>5. ASSUME NEW i \in 1 .. Len(Usable), i <= next PROVE Usable[i] # Usable[n + 1]
  <2>1. i # n + 1
    BY <1>5
  <2>2. QED
    BY <1>3, <2>1, FrameAssumption DEF Book, Usable
<1>6. QED
  BY <1>2, <1>4, <1>5 DEF Taken

\* What map_page does to the page table and the tables.
LEMMA MapPage ==
    ASSUME TypeOK, Book, FramesAreUsedOnce, NEW p, NEW flags, map_page(p, flags),
           memory_map' = memory_map, file' = file
    PROVE  /\ Book' /\ FramesAreUsedOnce' /\ next' \in Nat
           /\ \A q \in DOMAIN page_table' : page_table'[q].frame \in Nat
           /\ \A t \in DOMAIN tables' : tables'[t].frame \in Nat
           /\ \/ /\ pc' = pc /\ todo' = todo \ {p} /\ p \notin DOMAIN page_table
                 /\ DOMAIN page_table' = DOMAIN page_table \cup {p}
                 /\ page_table'[p].flags = flags /\ page_table'[p].frame \in Taken'
                 /\ \A q \in DOMAIN page_table : page_table'[q] = page_table[q]
                 /\ DOMAIN tables' = DOMAIN tables \cup {TableOf(p)}
                 /\ \A g \in flags : g # "NO_EXECUTE" => g \in tables'[TableOf(p)].flags
                 /\ \A t \in DOMAIN tables : tables[t].flags \subseteq tables'[t].flags
              \/ pc' = "panicked" /\ todo' = todo /\ page_table' = page_table
                    /\ tables' = tables
<1> DEFINE f == frame(next)
           fresh == TableOf(p) \notin DOMAIN tables
           parent == flags \ {"NO_EXECUTE"}
           t == IF fresh THEN entry(frame(next + 1), parent)
                ELSE entry(tables[TableOf(p)].frame, tables[TableOf(p)].flags \cup parent)
           ok == f # None /\ t.frame # None /\ p \notin DOMAIN page_table
           n == next + frames_taken(f, fresh)
<1>0. /\ next \in Nat
      /\ \A q \in DOMAIN page_table : page_table[q].frame \in Nat
      /\ \A u \in DOMAIN tables : tables[u].frame \in Nat
  BY DEF TypeOK
<1>1. next' = n
  BY DEF map_page
<1>2. n \in Nat /\ n >= next + 1 /\ (f # None /\ fresh => n = next + 2)
  BY <1>0 DEF frames_taken
<1>3. Usable' = Usable /\ Len(Usable) \in Nat
  BY FrameAssumption DEF Usable, Book
<1>4. Taken \subseteq Taken'
  BY <1>0, <1>1, <1>2, <1>3 DEF Taken
<1>5. CASE ~ok
  <2>1. pc' = "panicked" /\ todo' = todo /\ page_table' = page_table /\ tables' = tables
    BY <1>5 DEF map_page, unwrap
  <2>2. Book'
    BY <1>4, <2>1 DEF Book
  <2>3. FramesAreUsedOnce'
    BY <2>1 DEF FramesAreUsedOnce
  <2>4. QED
    BY <1>0, <1>1, <1>2, <2>1, <2>2, <2>3
<1>6. CASE ok
  <2>1. /\ page_table' = with(page_table, p, entry(f, flags))
        /\ tables' = with(tables, TableOf(p), t)
        /\ todo' = todo \ {p} /\ pc' = pc /\ p \notin DOMAIN page_table
    BY <1>6 DEF map_page, unwrap
  <2>2. f \in Nat /\ f \notin KernelFrames \cup Taken /\ next < Len(Usable) /\ f = Usable[next + 1]
    BY <1>0, <1>6, FrameIsNew
  <2>3. f \in Taken'
    BY <1>0, <1>1, <1>2, <1>3, <2>2 DEF Taken
  <2>4. /\ DOMAIN page_table' = DOMAIN page_table \cup {p}
        /\ page_table'[p] = [frame |-> f, flags |-> flags]
        /\ \A q \in DOMAIN page_table : page_table'[q] = page_table[q]
    BY <1>6, <2>1 DEF with, entry
  <2>5. /\ DOMAIN tables' = DOMAIN tables \cup {TableOf(p)} /\ tables'[TableOf(p)] = t
        /\ \A u \in DOMAIN tables : u # TableOf(p) => tables'[u] = tables[u]
    BY <2>1 DEF with
  <2>6. CASE fresh
    <3>1. t = [frame |-> frame(next + 1), flags |-> parent] /\ n = next + 2
      BY <1>2, <1>6, <2>6 DEF entry
    <3>2. /\ t.frame \in Nat /\ t.frame \notin KernelFrames \cup Taken
          /\ next + 1 < Len(Usable) /\ t.frame = Usable[next + 2]
      <4>1. frame(next + 1) # None /\ next + 1 \in Nat /\ next + 1 >= next
        BY <1>0, <1>6, <3>1
      <4>2. QED
        BY <1>0, <3>1, <4>1, FrameIsNew
    <3>3. t.frame # f
      <4>1. next + 1 \in 1 .. Len(Usable) /\ next + 2 \in 1 .. Len(Usable)
        BY <1>0, <1>3, <3>2
      <4>2. QED
        BY <1>0, <2>2, <3>2, <4>1, FrameAssumption DEF Usable, Book
    <3>4. t.frame \in Taken'
      <4>1. next + 2 \in 1 .. Len(Usable) /\ next + 2 <= next'
        BY <1>0, <1>1, <1>3, <3>1, <3>2
      <4>2. QED
        BY <1>3, <3>2, <4>1 DEF Taken
    <3>5. \A u \in DOMAIN tables : tables'[u] = tables[u]
      BY <2>5, <2>6
    <3>6. Book'
      BY <1>4, <2>3, <2>4, <2>5, <3>4, <3>5 DEF Book
    <3>7. FramesAreUsedOnce'
      <4>1. \A q \in DOMAIN page_table : page_table[q].frame # f /\ page_table[q].frame # t.frame
        BY <2>2, <3>2 DEF Book
      <4>2. \A u \in DOMAIN tables : tables[u].frame # f /\ tables[u].frame # t.frame
        BY <2>2, <3>2 DEF Book
      <4>3. page_table'[p].frame = f /\ tables'[TableOf(p)].frame = t.frame
        BY <2>4, <2>5
      <4> HIDE DEF f, t
      <4>4. \A q, r \in DOMAIN page_table' :
               page_table'[q].frame = page_table'[r].frame => q = r
        BY <2>4, <4>1, <4>3 DEF FramesAreUsedOnce
      <4>5. \A u, v \in DOMAIN tables' : tables'[u].frame = tables'[v].frame => u = v
        BY <2>5, <3>5, <4>2, <4>3 DEF FramesAreUsedOnce
      <4>6. \A q \in DOMAIN page_table', u \in DOMAIN tables' :
               page_table'[q].frame # tables'[u].frame
        BY <2>4, <2>5, <3>3, <3>5, <4>1, <4>2, <4>3 DEF FramesAreUsedOnce
      <4>7. QED
        BY <4>4, <4>5, <4>6 DEF FramesAreUsedOnce
    <3>8. (\A g \in flags : g # "NO_EXECUTE" => g \in tables'[TableOf(p)].flags)
          /\ \A u \in DOMAIN tables : tables[u].flags \subseteq tables'[u].flags
      BY <2>5, <3>1, <3>5
    <3>9. /\ \A q \in DOMAIN page_table' : page_table'[q].frame \in Nat
          /\ \A u \in DOMAIN tables' : tables'[u].frame \in Nat
      BY <1>0, <2>2, <2>4, <2>5, <3>2, <3>5
    <3> HIDE DEF t, n
    <3>10. QED
      BY <1>1, <1>2, <2>1, <2>3, <2>4, <2>5, <3>6, <3>7, <3>8, <3>9
  <2>7. CASE ~fresh
    <3>1. t = [frame |-> tables[TableOf(p)].frame, flags |-> tables[TableOf(p)].flags \cup parent]
      BY <2>7 DEF entry
    <3>2. /\ TableOf(p) \in DOMAIN tables /\ DOMAIN tables' = DOMAIN tables
          /\ \A u \in DOMAIN tables : tables'[u].frame = tables[u].frame
      BY <2>5, <2>7, <3>1
    <3>3. Book'
      BY <1>4, <2>3, <2>4, <3>2 DEF Book
    <3>4. FramesAreUsedOnce'
      <4>1. \A q \in DOMAIN page_table : page_table[q].frame # f
        BY <2>2 DEF Book
      <4>2. \A u \in DOMAIN tables : tables[u].frame # f
        BY <2>2 DEF Book
      <4>3. QED
        BY <2>4, <3>2, <4>1, <4>2 DEF FramesAreUsedOnce
    <3>5. (\A g \in flags : g # "NO_EXECUTE" => g \in tables'[TableOf(p)].flags)
          /\ \A u \in DOMAIN tables : tables[u].flags \subseteq tables'[u].flags
      BY <2>5, <2>7, <3>1
    <3>6. /\ \A q \in DOMAIN page_table' : page_table'[q].frame \in Nat
          /\ \A u \in DOMAIN tables' : tables'[u].frame \in Nat
      BY <1>0, <2>2, <2>4, <3>2
    <3> HIDE DEF t, n
    <3>7. QED
      BY <1>1, <1>2, <2>1, <2>3, <2>4, <2>5, <3>3, <3>4, <3>5, <3>6
  <2>8. QED
    BY <2>6, <2>7
<1>7. QED
  BY <1>5, <1>6
-----------------------------------------------------------------------------
LEMMA InitIInv == Init => IInv
<1> SUFFICES ASSUME Init PROVE IInv
  OBVIOUS
<1>1. TypeOK
  <2>1. /\ pc = "heap" /\ next = 0 /\ idx = 1 /\ heap = FALSE /\ todo = HeapPages
        /\ page_table = KernelPages /\ tables = KernelTables
    BY DEF Init, memory_init
  <2>2. /\ \A p \in DOMAIN page_table : page_table[p].frame \in Nat
        /\ \A t \in DOMAIN tables : tables[t].frame \in Nat
    BY <2>1, KernelAssumption
  <2>3. heap \in BOOLEAN
    BY <2>1
  <2>4. QED
    BY <2>1, <2>2, <2>3, HeapPagesAreNat DEF TypeOK
<1>2. Book
  BY DEF Init, memory_init, Book, KernelFrames
<1>3. FramesAreUsedOnce
  BY KernelAssumption DEF Init, memory_init, FramesAreUsedOnce
<1>4. HeapInv /\ ElfInv
  BY DEF Init, HeapInv, ElfInv
<1>5. QED
  BY <1>1, <1>2, <1>3, <1>4 DEF IInv

\* A step that leaves the page table alone keeps what is said of it.
LEMMA TablesKept ==
    ASSUME UNCHANGED <<memory_map, file, page_table, tables, next>>
    PROVE  /\ Book => Book'
           /\ FramesAreUsedOnce => FramesAreUsedOnce'
           /\ \A p \in HeapPages : Backed(p) => Backed(p)'
BY DEF Book, Taken, Usable, FramesAreUsedOnce, Backed

\* A page of the heap stays mapped and writable when other pages are mapped.
LEMMA BackedKept ==
    ASSUME IInv, NEW p, NEW flags, map_page(p, flags), UNCHANGED <<memory_map, file>>,
           NEW q, Backed(q)
    PROVE  Backed(q)'
<1>1. /\ q \in DOMAIN page_table' /\ page_table'[q] = page_table[q]
      /\ TableOf(q) \in DOMAIN tables' /\ tables[TableOf(q)].flags \subseteq tables'[TableOf(q)].flags
  BY MapPage DEF IInv, Backed
<1>2. QED
  BY <1>1 DEF Backed

LEMMA MapHeapPageStep == IInv /\ MapHeapPage => IInv'
<1> SUFFICES ASSUME IInv, MapHeapPage PROVE IInv'
  OBVIOUS
<1> DEFINE p == Min(todo)
           flags == {"PRESENT", "WRITABLE"}
<1>1. p \in todo /\ todo \subseteq Nat
  BY MinIsMember DEF IInv, TypeOK, MapHeapPage
<1>2. /\ map_page(p, flags) /\ pc = "heap"
      /\ UNCHANGED <<memory_map, file, heap, pages_to_map, idx>>
  BY DEF MapHeapPage, elf
<1>0. "WRITABLE" \in flags /\ "USER_ACCESSIBLE" \notin flags
  OBVIOUS
<1> HIDE DEF p, flags
<1>3. /\ Book' /\ FramesAreUsedOnce' /\ next' \in Nat
      /\ \A q \in DOMAIN page_table' : page_table'[q].frame \in Nat
      /\ \A t \in DOMAIN tables' : tables'[t].frame \in Nat
      /\ \/ /\ pc' = pc /\ todo' = todo \ {p}
            /\ p \in DOMAIN page_table' /\ page_table'[p].flags = flags
            /\ TableOf(p) \in DOMAIN tables'
            /\ \A g \in flags : g # "NO_EXECUTE" => g \in tables'[TableOf(p)].flags
         \/ pc' = "panicked" /\ todo' = todo
  BY <1>2, MapPage DEF IInv
<1>4. TypeOK'
  BY <1>1, <1>2, <1>3 DEF IInv, TypeOK
<1>5. ~heap'
  BY <1>2 DEF IInv, HeapInv
<1>6. pc' = "heap" => \A q \in HeapPages : q \in todo' \/ Backed(q)'
  <2> SUFFICES ASSUME pc' = "heap", NEW q \in HeapPages, q \notin todo' PROVE Backed(q)'
    OBVIOUS
  <2>1. CASE q = p
    BY <1>0, <1>3, <2>1 DEF Backed
  <2>2. CASE q # p
    <3>1. Backed(q)
      BY <1>2, <1>3, <2>2 DEF IInv, HeapInv
    <3>2. QED
      BY <1>2, <3>1, BackedKept
  <2>3. QED
    BY <2>1, <2>2
<1>7. pc' \in {"heap", "panicked"}
  BY <1>2, <1>3
<1>8. HeapInv' /\ ElfInv'
  BY <1>5, <1>6, <1>7 DEF HeapInv, ElfInv, HeapPages, PageOf
<1>9. QED
  BY <1>3, <1>4, <1>8 DEF IInv

LEMMA MapStackPageStep == IInv /\ MapStackPage => IInv'
<1> SUFFICES ASSUME IInv, MapStackPage PROVE IInv'
  OBVIOUS
<1> DEFINE p == Min(todo)
           flags == {"PRESENT", "USER_ACCESSIBLE", "WRITABLE"}
<1>1. p \in todo /\ todo \subseteq Nat
  BY MinIsMember DEF IInv, TypeOK, MapStackPage
<1>2. /\ map_page(p, flags) /\ pc = "stack"
      /\ UNCHANGED <<memory_map, file, heap, pages_to_map, idx>>
  BY DEF MapStackPage, elf
<1> HIDE DEF p, flags
<1>3. /\ Book' /\ FramesAreUsedOnce' /\ next' \in Nat
      /\ \A q \in DOMAIN page_table' : page_table'[q].frame \in Nat
      /\ \A t \in DOMAIN tables' : tables'[t].frame \in Nat
      /\ (pc' = pc /\ todo' = todo \ {p}) \/ (pc' = "panicked" /\ todo' = todo)
  BY <1>2, MapPage DEF IInv
<1>4. TypeOK'
  BY <1>1, <1>2, <1>3 DEF IInv, TypeOK
<1>5. heap' /\ \A q \in HeapPages : Backed(q)'
  BY <1>2, BackedKept DEF IInv, HeapInv
<1>6. pc' \in {"stack", "panicked"}
  BY <1>2, <1>3
<1>7. HeapInv' /\ ElfInv'
  BY <1>5, <1>6 DEF HeapInv, ElfInv, HeapPages, PageOf
<1>8. QED
  BY <1>3, <1>4, <1>7 DEF IInv

LEMMA ElfKept ==
    ASSUME ElfInv, UNCHANGED <<file, elf>>, pc \in {"merge", "map", "protect", "user"}
    PROVE  ElfInv'
BY DEF ElfInv, elf, Wanted

LEMMA RelocatedLen ==
    ASSUME file \in Files
    PROVE  Len(relocated(file).segments) = Len(Wanted) /\ Len(Wanted) \in Nat
<1>1. Wanted \in Seq(ElfSegment)
  BY FileAssumption DEF Wanted
<1>2. relocated(file).segments =
        [i \in 1 .. Len(Wanted) |-> [Wanted[i] EXCEPT !.start = @ + offset_to_apply(Wanted)]]
  BY DEF relocated, remap, Wanted
<1>3. QED
  BY <1>1, <1>2

\* A segment that has been moved lies at or above address zero.
LEMMA PagesAreNat ==
    ASSUME Book, ElfInv, pc = "merge", NEW i \in 1 .. Len(segments)
    PROVE  pages(segments[i]) \subseteq Nat
<1>1. segments[i].start \in Nat
  BY FileAssumption DEF Book, ElfInv, Wanted
<1>2. segments[i].start \div PAGE \in Nat
  BY <1>1, SizeAssumption
<1>3. QED
  BY <1>2 DEF pages, PageOf

LEMMA MapElfPageStep == IInv /\ MapElfPage => IInv'
<1> SUFFICES ASSUME IInv, MapElfPage PROVE IInv'
  OBVIOUS
<1> DEFINE p == Min(todo)
           flags == pages_to_map[p] \cup {"WRITABLE"}
<1>1. p \in todo /\ todo \subseteq Nat
  BY MinIsMember DEF IInv, TypeOK, MapElfPage
<1>2. /\ map_page(p, flags) /\ pc = "map"
      /\ UNCHANGED <<memory_map, file, heap, elf, idx>>
  BY DEF MapElfPage
<1> HIDE DEF p, flags
<1>3. /\ Book' /\ FramesAreUsedOnce' /\ next' \in Nat
      /\ \A q \in DOMAIN page_table' : page_table'[q].frame \in Nat
      /\ \A t \in DOMAIN tables' : tables'[t].frame \in Nat
      /\ \/ /\ pc' = pc /\ todo' = todo \ {p} /\ p \notin DOMAIN page_table
            /\ DOMAIN page_table' = DOMAIN page_table \cup {p}
         \/ pc' = "panicked" /\ todo' = todo
  BY <1>2, MapPage DEF IInv
<1>4. TypeOK'
  BY <1>1, <1>2, <1>3 DEF IInv, TypeOK
<1>5. heap' /\ \A q \in HeapPages : Backed(q)'
  BY <1>2, BackedKept DEF IInv, HeapInv
<1>6. pc' = "map" => p \notin HeapPages
  BY <1>2, <1>3 DEF IInv, HeapInv, Backed
<1>7. pc' = "map" => \A q \in DOMAIN pages_to_map' :
                        q \in todo' \/ (q \in DOMAIN page_table' /\ q \notin HeapPages)
  BY <1>2, <1>3, <1>6 DEF elf, IInv, HeapInv
<1>8. pc' \in {"map", "panicked"} /\ DOMAIN pages_to_map' \subseteq Nat
  BY <1>2, <1>3 DEF elf, IInv, HeapInv
<1>9. HeapInv'
  BY <1>5, <1>7, <1>8 DEF HeapInv, HeapPages, PageOf
<1>10. ElfInv'
  BY <1>2, ElfKept DEF IInv
<1>11. QED
  BY <1>3, <1>4, <1>9, <1>10 DEF IInv

LEMMA ProtectPageStep == IInv /\ ProtectPage => IInv'
<1> SUFFICES ASSUME IInv, ProtectPage PROVE IInv'
  OBVIOUS
<1> DEFINE p == Min(todo)
<1>1. p \in todo /\ todo \subseteq Nat
  BY MinIsMember DEF IInv, TypeOK, ProtectPage
<1>2. /\ pc = "protect" /\ todo' = todo \ {p}
      /\ UNCHANGED <<pc, memory_map, file, next, tables, heap, elf, idx>>
      /\ \/ page_table' = page_table
         \/ page_table' = with(page_table, p, entry(page_table[p].frame, final_flags(p)))
  BY DEF ProtectPage
<1> HIDE DEF p
<1>3. p \in DOMAIN page_table /\ p \notin HeapPages
  BY <1>1, <1>2 DEF IInv, HeapInv
<1>4. /\ DOMAIN page_table' = DOMAIN page_table
      /\ \A q \in DOMAIN page_table : page_table'[q].frame = page_table[q].frame
      /\ \A q \in DOMAIN page_table : q # p => page_table'[q] = page_table[q]
  BY <1>2, <1>3 DEF with, entry
<1>5. TypeOK'
  BY <1>1, <1>2, <1>4 DEF IInv, TypeOK
<1>6. Book'
  BY <1>2, <1>4 DEF IInv, Book, Taken, Usable
<1>7. FramesAreUsedOnce'
  BY <1>2, <1>4 DEF IInv, FramesAreUsedOnce
<1>8. heap' /\ \A q \in HeapPages : Backed(q)'
  BY <1>2, <1>3, <1>4 DEF IInv, HeapInv, Backed
<1>9. HeapInv'
  BY <1>2, <1>4, <1>8 DEF elf, IInv, HeapInv, HeapPages, PageOf
<1>10. ElfInv'
  BY <1>2, ElfKept DEF IInv
<1>11. QED
  BY <1>5, <1>6, <1>7, <1>9, <1>10 DEF IInv

LEMMA OtherStep ==
    IInv /\ (InitHeap \/ ParseElf \/ MergeSegment \/ StartMap \/ CopySegment \/ StartProtect
             \/ EnterUserMode) => IInv'
<1> SUFFICES ASSUME IInv, \/ InitHeap \/ ParseElf \/ MergeSegment \/ StartMap
                          \/ CopySegment \/ StartProtect \/ EnterUserMode
             PROVE  IInv'
  OBVIOUS
<1>1. UNCHANGED <<memory_map, file, page_table, tables, next>>
  BY DEF InitHeap, ParseElf, MergeSegment, StartMap, CopySegment, StartProtect, EnterUserMode
<1>2. Book' /\ FramesAreUsedOnce' /\ \A p \in HeapPages : Backed(p) => Backed(p)'
  BY <1>1, TablesKept DEF IInv
<1>3. CASE InitHeap
  <2>1. \A p \in HeapPages : Backed(p)'
    BY <1>2, <1>3 DEF InitHeap, IInv, HeapInv
  <2>2. HeapInv' /\ ElfInv'
    BY <1>3, <2>1 DEF InitHeap, HeapInv, ElfInv, HeapPages, PageOf
  <2>3. TypeOK'
    BY <1>3, SizeAssumption DEF InitHeap, IInv, TypeOK
  <2>4. QED
    BY <1>2, <2>2, <2>3 DEF IInv
<1>4. CASE ParseElf
  <2>1. heap /\ UNCHANGED <<heap, todo>> /\ \A p \in HeapPages : Backed(p)'
    BY <1>2, <1>4 DEF ParseElf, IInv, HeapInv
  <2>2. \/ pc' = "panicked" /\ idx' = idx
        \/ /\ pc' = "merge" /\ pages_to_map' = <<>> /\ idx' = 1 /\ TextIndices(Wanted) # {}
           /\ segments' = relocated(file).segments /\ entry_point' = relocated(file).entry
    BY <1>4 DEF ParseElf, Wanted
  <2>3. ElfInv'
    BY <1>1, <2>2 DEF ElfInv, Wanted
  <2>4. HeapInv'
    BY <2>1, <2>2 DEF HeapInv, HeapPages, PageOf
  <2>5. TypeOK'
    BY <1>1, <2>1, <2>2 DEF IInv, TypeOK
  <2>6. QED
    BY <1>2, <2>3, <2>4, <2>5 DEF IInv
<1>5. CASE MergeSegment
  <2>1. /\ pc = "merge" /\ UNCHANGED <<pc, heap, segments, entry_point, todo>> /\ idx' = idx + 1
        /\ DOMAIN pages_to_map' = DOMAIN pages_to_map \cup pages(segments[idx])
        /\ idx <= Len(segments)
    BY <1>5 DEF MergeSegment, merge_segment
  <2>2. heap' /\ \A p \in HeapPages : Backed(p)'
    BY <1>2, <2>1 DEF IInv, HeapInv
  <2>3. idx \in 1 .. Len(segments)
    BY <2>1, RelocatedLen DEF IInv, Book, ElfInv, TypeOK
  <2>4. DOMAIN pages_to_map' \subseteq Nat
    BY <2>1, <2>3, PagesAreNat DEF IInv, HeapInv
  <2>5. HeapInv'
    BY <2>1, <2>2, <2>4 DEF HeapInv, HeapPages, PageOf
  <2>6. ElfInv'
    BY <1>1, <2>1 DEF IInv, ElfInv, Wanted
  <2>7. TypeOK'
    BY <1>1, <2>1 DEF IInv, TypeOK
  <2>8. QED
    BY <1>2, <2>5, <2>6, <2>7 DEF IInv
<1>6. CASE StartMap
  <2>1. /\ pc = "merge" /\ pc' = "map" /\ UNCHANGED <<heap, elf>>
        /\ todo' = DOMAIN pages_to_map /\ idx' = 1
    BY <1>6 DEF StartMap
  <2>2. heap' /\ \A p \in HeapPages : Backed(p)'
    BY <1>2, <2>1 DEF IInv, HeapInv
  <2>3. HeapInv'
    BY <2>1, <2>2 DEF elf, IInv, HeapInv, HeapPages, PageOf
  <2>4. ElfInv'
    BY <1>1, <2>1, ElfKept DEF IInv
  <2>5. TypeOK'
    BY <1>1, <2>1 DEF IInv, HeapInv, TypeOK
  <2>6. QED
    BY <1>2, <2>3, <2>4, <2>5 DEF IInv
<1>7. CASE CopySegment
  <2>1. /\ pc = "map" /\ pc' \in {"map", "panicked"}
        /\ UNCHANGED <<heap, elf, todo>> /\ idx' = idx + 1
    BY <1>7 DEF CopySegment
  <2>2. heap' /\ \A p \in HeapPages : Backed(p)'
    BY <1>2, <2>1 DEF IInv, HeapInv
  <2>3. HeapInv'
    BY <1>1, <2>1, <2>2 DEF elf, IInv, HeapInv, HeapPages, PageOf
  <2>4. TypeOK'
    BY <1>1, <2>1 DEF IInv, TypeOK
  <2>5. ElfInv'
    BY <1>1, <2>1, ElfKept DEF IInv
  <2>6. QED
    BY <1>2, <2>3, <2>4, <2>5 DEF IInv
<1>8. CASE StartProtect
  <2>1. heap' /\ \A p \in HeapPages : Backed(p)'
    BY <1>2, <1>8 DEF StartProtect, IInv, HeapInv
  <2>2. HeapInv'
    BY <1>1, <1>8, <2>1 DEF StartProtect, elf, IInv, HeapInv, HeapPages, PageOf
  <2>3. TypeOK'
    BY <1>1, <1>8 DEF StartProtect, IInv, HeapInv, TypeOK
  <2>4. ElfInv'
    BY <1>8, ElfKept DEF StartProtect, IInv
  <2>5. QED
    BY <1>2, <2>2, <2>3, <2>4 DEF IInv
<1>9. CASE EnterUserMode
  <2>1. heap' /\ \A p \in HeapPages : Backed(p)'
    BY <1>2, <1>9 DEF EnterUserMode, IInv, HeapInv
  <2>2. HeapInv'
    BY <1>9, <2>1 DEF EnterUserMode, HeapInv, HeapPages, PageOf
  <2>3. TypeOK'
    BY <1>1, <1>9 DEF EnterUserMode, IInv, TypeOK
  <2>4. ElfInv'
    BY <1>9, ElfKept DEF EnterUserMode, IInv
  <2>5. QED
    BY <1>2, <2>2, <2>3, <2>4 DEF IInv
<1>10. QED
  BY <1>3, <1>4, <1>5, <1>6, <1>7, <1>8, <1>9

LEMMA NextIInv == IInv /\ [Next]_vars => IInv'
<1> SUFFICES ASSUME IInv, [Next]_vars PROVE IInv'
  OBVIOUS
<1>1. CASE UNCHANGED vars
  <2>1. UNCHANGED <<memory_map, file, page_table, tables, next>>
    BY <1>1 DEF vars
  <2>2. Book' /\ FramesAreUsedOnce'
    BY <2>1, TablesKept DEF IInv
  <2>3. TypeOK' /\ HeapInv' /\ ElfInv'
    BY <1>1 DEF vars, IInv, TypeOK, HeapInv, ElfInv, Wanted, Backed
  <2>4. QED
    BY <2>2, <2>3 DEF IInv
<1>2. QED
  BY <1>1, MapHeapPageStep, MapStackPageStep, MapElfPageStep, ProtectPageStep, OtherStep DEF Next

LEMMA Invariance == Spec => []IInv
BY InitIInv, NextIInv, PTL DEF Spec

\* The counters, flags and frame numbers of kernel_main stay well-typed, so every
\* entry of the page table names a frame: an unwrap catches each missing one.
THEOREM TypeCorrect == Spec => []TypeOK
<1>1. IInv => TypeOK
  BY DEF IInv
<1>2. QED
  BY <1>1, Invariance, PTL

\* No frame backs two pages or tables, whatever the memory map and the program:
\* allocate_frame never returns a frame again, though map_to takes frames for
\* tables from the same counter between the pages.
THEOREM FramesUsedOnce == Spec => []FramesAreUsedOnce
<1>1. IInv => FramesAreUsedOnce
  BY DEF IInv
<1>2. QED
  BY <1>1, Invariance, PTL

\* From ALLOCATOR.init on, every byte of the heap is on a page that is mapped,
\* writable and not the user's, and no later mapping or write protection of the
\* loader changes that.
THEOREM HeapBacked == Spec => []HeapIsBacked
<1>1. IInv => HeapIsBacked
  <2> SUFFICES ASSUME IInv, heap, NEW a \in HEAP_START .. HEAP_START + HEAP_SIZE - 1
               PROVE  Allowed(PageOf(a), "WRITABLE") /\ ~Allowed(PageOf(a), "USER_ACCESSIBLE")
    BY DEF HeapIsBacked
  <2>1. PageOf(a) \in HeapPages
    BY SizeAssumption DEF HeapPages, PageOf
  <2>2. Backed(PageOf(a))
    BY <2>1 DEF IInv, HeapInv
  <2>3. QED
    BY <2>2 DEF Backed, Allowed
<1>2. QED
  BY <1>1, Invariance, PTL
=============================================================================
