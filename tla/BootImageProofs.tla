--------------------------- MODULE BootImageProofs ---------------------------
(***************************************************************************)
(* Proofs about Boot, continued: what the loader leaves on the program's   *)
(* pages and what user mode may do with them.                              *)
(***************************************************************************)
EXTENDS BootProofs

StackFlags == {"PRESENT", "USER_ACCESSIBLE", "WRITABLE"}

\* Page p is mapped with these flags and its table allows them.
Grants(pt, ts, p, flags) ==
    /\ p \in DOMAIN pt /\ pt[p].flags = flags
    /\ TableOf(p) \in DOMAIN ts
    /\ \A g \in flags : g # "NO_EXECUTE" => g \in ts[TableOf(p)].flags

\* The map holds the union of the first n segments.
UnionOf(map, segs, n) ==
    /\ \A p : p \in DOMAIN map <=> \E i \in 1 .. n : p \in pages(segs[i])
    /\ \A p \in DOMAIN map, g \in {"USER_ACCESSIBLE", "WRITABLE"} :
          g \in map[p] <=> \E i \in 1 .. n : p \in pages(segs[i]) /\ g \in segs[i].flags

\* The union is gathered segment by segment, and final when pages are mapped.
MergeInv ==
    /\ pc = "merge" => idx <= Len(segments) + 1 /\ UnionOf(pages_to_map, segments, idx - 1)
    /\ pc \in {"map", "protect", "user"} => UnionOf(pages_to_map, segments, Len(segments))

\* What a page of the program is mapped with in each phase of the loader.
ProgramFlags(p) ==
    IF pc = "map" \/ (pc = "protect" /\ p \in todo)
    THEN pages_to_map[p] \cup {"WRITABLE"} ELSE pages_to_map[p]

\* The stack is open to the user, the program as far as the loader has come,
\* and nothing else.
PermissionInv ==
    /\ pc = "stack" => todo \subseteq StackPages
    /\ pc \in {"map", "protect"} => todo \subseteq DOMAIN pages_to_map
    /\ pc = "stack" =>
          \A p \in StackPages : p \in todo \/ Grants(page_table, tables, p, StackFlags)
    /\ pc \in {"merge", "map", "protect", "user"} =>
          \A p \in StackPages : Grants(page_table, tables, p, StackFlags)
    /\ pc \in {"map", "protect", "user"} => \A p \in DOMAIN pages_to_map :
          \/ pc = "map" /\ p \in todo
          \/ p \notin StackPages /\ Grants(page_table, tables, p, ProgramFlags(p))
    /\ pc \in {"heap", "stack", "merge"} =>
          \A p \in DOMAIN page_table :
             "USER_ACCESSIBLE" \in page_table[p].flags => p \in StackPages
    /\ pc \in {"map", "protect", "user"} =>
          \A p \in DOMAIN page_table :
             "USER_ACCESSIBLE" \in page_table[p].flags => p \in StackPages \cup DOMAIN pages_to_map

\* The byte the first n segments put at address a: the last one wins.
ImageUpTo(segs, n, a) ==
    LET here == {i \in 1 .. n : /\ segs[i].ty = "Load"
                                /\ a - segs[i].start \in 0 .. segs[i].filesz - 1}
    IN  IF here = {} THEN Stale ELSE segs[Max(here)].offset + a - segs[Max(here)].start

\* Frame f of m holds what the first n segments put on page p.
Holds(m, f, p, segs, n) ==
    f \in DOMAIN m /\ \A o \in 0 .. PAGE - 1 : m[f][o] = ImageUpTo(segs, n, p * PAGE + o)

\* No frame is written before the pages are mapped; then the segments are
\* copied in order.
ImageInv ==
    /\ DOMAIN mem = Range(Usable)
    /\ pc \in {"heap", "stack", "merge"} \/ (pc = "map" /\ idx = 1) =>
          \A f \in DOMAIN mem, o \in 0 .. PAGE - 1 : mem[f][o] = Stale
    /\ pc = "map" =>
          /\ idx <= Len(segments) + 1 /\ (todo # {} => idx = 1)
          /\ \A p \in DOMAIN pages_to_map :
                p \in todo \/ Holds(mem, page_table[p].frame, p, segments, idx - 1)
    /\ pc \in {"protect", "user"} => \A p \in DOMAIN pages_to_map :
          Holds(mem, page_table[p].frame, p, segments, Len(segments))

-----------------------------------------------------------------------------
\* remap moves the start of every segment and nothing else.
LEMMA Relocation ==
    ASSUME Book, ElfInv, pc \in {"merge", "map", "protect", "user"}, NEW i \in 1 .. Len(segments)
    PROVE  /\ i \in 1 .. Len(Wanted) /\ Wanted[i] \in ElfSegment
           /\ segments[i].start = Moved(Wanted[i].start) /\ segments[i].start \in Nat
           /\ segments[i].ty = Wanted[i].ty /\ segments[i].flags = Wanted[i].flags
           /\ segments[i].offset = Wanted[i].offset /\ segments[i].filesz = Wanted[i].filesz
           /\ segments[i].len = Wanted[i].len
<1>1. Wanted \in Seq(ElfSegment) /\ Len(segments) = Len(Wanted)
  BY RelocatedLen, FileAssumption DEF Book, ElfInv, Wanted
<1>2. segments = [j \in 1 .. Len(Wanted) |->
                    [Wanted[j] EXCEPT !.start = @ + offset_to_apply(Wanted)]]
  BY DEF ElfInv, relocated, remap, Wanted
<1>3. i \in 1 .. Len(Wanted) /\ Wanted[i] \in ElfSegment
  BY <1>1
<1>4. segments[i] = [Wanted[i] EXCEPT !.start = @ + offset_to_apply(Wanted)]
  BY <1>2, <1>3
<1>5. segments[i].start \in Nat
  BY FileAssumption DEF Book, ElfInv, Wanted
<1>6. QED
  BY <1>3, <1>4, <1>5 DEF ElfSegment, Moved

\* Heap and stack are mapped before load is called.
LEMMA EarlyStep ==
    ASSUME MapHeapPage \/ InitHeap \/ MapStackPage
    PROVE  pc' \in {"heap", "stack", "panicked"} /\ UNCHANGED <<memory_map, mem>>
BY DEF MapHeapPage, InitHeap, MapStackPage, map_page

\* From map_to to enter_user_mode the segments and pages_to_map are only read.
LEMMA LateStep ==
    ASSUME MapElfPage \/ CopySegment \/ StartProtect \/ ProtectPage \/ EnterUserMode
    PROVE  /\ pc \in {"map", "protect"} /\ pc' \in {"map", "protect", "user", "panicked"}
           /\ UNCHANGED <<memory_map, file, elf>>
<1>1. CASE MapElfPage
  BY <1>1 DEF MapElfPage, map_page
<1>2. CASE CopySegment
  BY <1>2 DEF CopySegment
<1>3. CASE StartProtect \/ ProtectPage \/ EnterUserMode
  BY <1>3 DEF StartProtect, ProtectPage, EnterUserMode
<1>4. QED
  BY <1>1, <1>2, <1>3

LEMMA MergeFlags ==
    ASSUME NEW a, NEW b, NEW g \in {"USER_ACCESSIBLE", "WRITABLE"}
    PROVE  g \in merge(a, b) <=> g \in a \/ g \in b
BY DEF merge

\* One round of load's merging adds one segment to the union.
LEMMA UnionGrows ==
    ASSUME NEW map, NEW segs, NEW n \in Nat, UnionOf(map, segs, n)
    PROVE  UnionOf(merge_segment(map, segs[n + 1]), segs, n + 1)
<1> DEFINE s == segs[n + 1]
           new == merge_segment(map, s)
<1>1. /\ DOMAIN new = DOMAIN map \cup pages(s)
      /\ \A p \in DOMAIN new :
            new[p] = IF p \notin DOMAIN map THEN s.flags
                     ELSE IF p \in pages(s) THEN merge(map[p], s.flags) ELSE map[p]
  BY DEF merge_segment
<1> HIDE DEF new
<1>2. \A i : i \in 1 .. n + 1 <=> i \in 1 .. n \/ i = n + 1
  OBVIOUS
<1>3. ASSUME NEW p PROVE p \in DOMAIN new <=> \E i \in 1 .. n + 1 : p \in pages(segs[i])
  BY Zenon, <1>1, <1>2 DEF UnionOf
<1>4. ASSUME NEW p \in DOMAIN new, NEW g \in {"USER_ACCESSIBLE", "WRITABLE"}
      PROVE  g \in new[p]
                <=> \E i \in 1 .. n + 1 : p \in pages(segs[i]) /\ g \in segs[i].flags
  <2>1. (\E i \in 1 .. n + 1 : p \in pages(segs[i]) /\ g \in segs[i].flags)
          <=> \/ \E i \in 1 .. n : p \in pages(segs[i]) /\ g \in segs[i].flags
              \/ p \in pages(s) /\ g \in s.flags
    BY Zenon, <1>2
  <2>2. CASE p \notin DOMAIN map
    <3>1. p \in pages(s) /\ new[p] = s.flags
      BY Zenon, <1>1, <2>2
    <3>2. ~ \E i \in 1 .. n : p \in pages(segs[i])
      BY Zenon, <2>2 DEF UnionOf
    <3>3. QED
      BY Zenon, <2>1, <3>1, <3>2
  <2>3. CASE p \in DOMAIN map
    <3>1. g \in map[p] <=> \E i \in 1 .. n : p \in pages(segs[i]) /\ g \in segs[i].flags
      BY Zenon, <2>3 DEF UnionOf
    <3>2. CASE p \in pages(s)
      <4>1. new[p] = merge(map[p], s.flags)
        BY Zenon, <1>1, <2>3, <3>2
      <4>2. g \in new[p] <=> g \in map[p] \/ g \in s.flags
        BY <4>1, MergeFlags
      <4>3. QED
        BY Zenon, <2>1, <3>1, <3>2, <4>2
    <3>3. CASE p \notin pages(s)
      <4>1. new[p] = map[p]
        BY Zenon, <1>1, <2>3, <3>3
      <4>2. QED
        BY Zenon, <2>1, <3>1, <3>3, <4>1
    <3>4. QED
      BY <3>2, <3>3
  <2>4. QED
    BY <2>2, <2>3
<1>5. QED
  BY <1>3, <1>4 DEF UnionOf, new

LEMMA NothingMerged ==
    ASSUME NEW segs
    PROVE  UnionOf(<<>>, segs, 0)
BY DEF UnionOf

LEMMA MergeInvStep == IInv /\ MergeInv /\ [Next]_vars => MergeInv'
<1> SUFFICES ASSUME IInv, MergeInv, [Next]_vars PROVE MergeInv'
  OBVIOUS
<1>1. CASE MergeSegment
  <2>1. /\ pc = "merge" /\ pc' = "merge" /\ segments' = segments /\ idx' = idx + 1
        /\ pages_to_map' = merge_segment(pages_to_map, segments[idx]) /\ idx <= Len(segments)
    BY <1>1 DEF MergeSegment
  <2>2. idx \in Nat /\ idx >= 1 /\ Len(segments) \in Nat
    BY <2>1, RelocatedLen DEF IInv, Book, ElfInv, TypeOK
  <2>3. UnionOf(merge_segment(pages_to_map, segments[idx - 1 + 1]), segments, idx - 1 + 1)
    BY <2>1, <2>2, UnionGrows DEF MergeInv
  <2>4. idx - 1 + 1 = idx /\ idx' - 1 = idx /\ idx' <= Len(segments') + 1
    BY <2>1, <2>2
  <2>5. UnionOf(pages_to_map', segments', idx' - 1)
    BY <2>1, <2>3, <2>4
  <2>6. QED
    BY <2>1, <2>4, <2>5 DEF MergeInv
<1>2. CASE ParseElf
  <2>1. CASE pc' = "panicked"
    BY <2>1 DEF MergeInv
  <2>2. CASE pc' = "merge" /\ pages_to_map' = <<>> /\ idx' = 1
    <3>1. Len(segments') \in Nat
      BY <1>2, <2>2, RelocatedLen DEF ParseElf, IInv, Book
    <3>2. UnionOf(pages_to_map', segments', idx' - 1) /\ idx' <= Len(segments') + 1
      BY <2>2, <3>1, NothingMerged
    <3>3. QED
      BY <2>2, <3>2 DEF MergeInv
  <2>3. QED
    BY <1>2, <2>1, <2>2 DEF ParseElf
<1>3. CASE StartMap
  <2>1. pc = "merge" /\ pc' = "map" /\ idx > Len(segments) /\ UNCHANGED elf
    BY <1>3 DEF StartMap
  <2>2. idx - 1 = Len(segments)
    BY <2>1, RelocatedLen DEF IInv, Book, ElfInv, TypeOK, MergeInv
  <2>3. UnionOf(pages_to_map', segments', Len(segments'))
    BY <2>1, <2>2 DEF MergeInv, elf
  <2>4. QED
    BY <2>1, <2>3 DEF MergeInv
<1>4. CASE MapHeapPage \/ InitHeap \/ MapStackPage
  BY <1>4, EarlyStep DEF MergeInv
<1>5. CASE MapElfPage \/ CopySegment \/ StartProtect \/ ProtectPage \/ EnterUserMode
  <2>1. /\ pc \in {"map", "protect"} /\ pc' \in {"map", "protect", "user", "panicked"}
        /\ UNCHANGED <<segments, pages_to_map>>
    BY <1>5, LateStep DEF elf
  <2>2. QED
    BY <2>1 DEF MergeInv
<1>6. CASE UNCHANGED vars
  BY <1>6 DEF vars, MergeInv
<1>7. QED
  BY <1>1, <1>2, <1>3, <1>4, <1>5, <1>6 DEF Next

-----------------------------------------------------------------------------
\* What map_page leaves when no unwrap fails.
LEMMA Mapped ==
    ASSUME IInv, NEW p, NEW flags, map_page(p, flags), UNCHANGED <<memory_map, file>>,
           pc' # "panicked"
    PROVE  /\ Grants(page_table', tables', p, flags)
           /\ p \notin DOMAIN page_table /\ DOMAIN page_table' = DOMAIN page_table \cup {p}
           /\ \A q \in DOMAIN page_table : page_table'[q] = page_table[q]
           /\ todo' = todo \ {p} /\ page_table'[p].frame \in Taken'
<1>1. /\ todo' = todo \ {p} /\ p \notin DOMAIN page_table
      /\ DOMAIN page_table' = DOMAIN page_table \cup {p}
      /\ page_table'[p].flags = flags /\ page_table'[p].frame \in Taken'
      /\ \A q \in DOMAIN page_table : page_table'[q] = page_table[q]
      /\ DOMAIN tables' = DOMAIN tables \cup {TableOf(p)}
      /\ \A g \in flags : g # "NO_EXECUTE" => g \in tables'[TableOf(p)].flags
  BY Zenon, MapPage DEF IInv
<1>2. p \in DOMAIN page_table' /\ TableOf(p) \in DOMAIN tables'
  BY <1>1
<1>3. QED
  BY <1>1, <1>2 DEF Grants

\* map_page takes no permission away: tables only ever gain flags.
LEMMA MapKeeps ==
    ASSUME IInv, NEW p, NEW flags, map_page(p, flags), UNCHANGED <<memory_map, file>>,
           NEW q, NEW granted, Grants(page_table, tables, q, granted)
    PROVE  Grants(page_table', tables', q, granted)
<1>1. /\ q \in DOMAIN page_table' /\ page_table'[q] = page_table[q]
      /\ TableOf(q) \in DOMAIN tables'
      /\ tables[TableOf(q)].flags \subseteq tables'[TableOf(q)].flags
  BY MapPage DEF IInv, Grants
<1>2. QED
  BY <1>1 DEF Grants

LEMMA InitPermission == Init => PermissionInv
BY KernelAssumption DEF Init, memory_init, PermissionInv

LEMMA PermissionHeap == IInv /\ PermissionInv /\ MapHeapPage => PermissionInv'
<1> SUFFICES ASSUME IInv, PermissionInv, MapHeapPage, pc' # "panicked" PROVE PermissionInv'
  BY DEF PermissionInv
<1> DEFINE flags == {"PRESENT", "WRITABLE"}
<1>1. /\ map_page(Min(todo), flags) /\ pc = "heap" /\ pc' = "heap"
      /\ UNCHANGED <<memory_map, file>>
  BY DEF MapHeapPage, map_page
<1>2. "USER_ACCESSIBLE" \notin flags
  OBVIOUS
<1> HIDE DEF flags
<1>3. /\ page_table'[Min(todo)].flags = flags
      /\ DOMAIN page_table' = DOMAIN page_table \cup {Min(todo)}
      /\ \A q \in DOMAIN page_table : page_table'[q] = page_table[q]
  BY <1>1, Mapped DEF Grants
<1>4. \A p \in DOMAIN page_table' :
         "USER_ACCESSIBLE" \in page_table'[p].flags => p \in StackPages
  BY <1>1, <1>2, <1>3 DEF PermissionInv
<1>5. QED
  BY <1>1, <1>4 DEF PermissionInv

LEMMA PermissionStack == IInv /\ PermissionInv /\ MapStackPage => PermissionInv'
<1> SUFFICES ASSUME IInv, PermissionInv, MapStackPage, pc' # "panicked" PROVE PermissionInv'
  BY DEF PermissionInv
<1> DEFINE p == Min(todo)
<1>1. /\ map_page(p, StackFlags) /\ pc = "stack" /\ pc' = "stack"
      /\ UNCHANGED <<memory_map, file>>
  BY DEF MapStackPage, map_page, StackFlags
<1>2. p \in StackPages /\ todo \subseteq StackPages
  BY MinIsMember DEF MapStackPage, IInv, TypeOK, PermissionInv
<1> HIDE DEF p
<1>3. /\ Grants(page_table', tables', p, StackFlags) /\ todo' = todo \ {p}
      /\ DOMAIN page_table' = DOMAIN page_table \cup {p}
      /\ \A q \in DOMAIN page_table : page_table'[q] = page_table[q]
  BY <1>1, Mapped
<1>4. ASSUME NEW q \in StackPages
      PROVE  q \in todo' \/ Grants(page_table', tables', q, StackFlags)
  <2>1. q = p \/ q \in todo' \/ Grants(page_table, tables, q, StackFlags)
    BY <1>1, <1>3 DEF PermissionInv
  <2>2. QED
    BY <1>1, <1>3, <2>1, MapKeeps
<1>5. \A q \in DOMAIN page_table' :
         "USER_ACCESSIBLE" \in page_table'[q].flags => q \in StackPages
  BY <1>1, <1>2, <1>3 DEF PermissionInv
<1>6. todo' \subseteq StackPages
  BY <1>2, <1>3
<1>7. QED
  BY <1>1, <1>4, <1>5, <1>6 DEF PermissionInv

LEMMA PermissionElf == IInv /\ PermissionInv /\ MapElfPage => PermissionInv'
<1> SUFFICES ASSUME IInv, PermissionInv, MapElfPage, pc' # "panicked" PROVE PermissionInv'
  BY DEF PermissionInv
<1> DEFINE p == Min(todo)
           flags == pages_to_map[p] \cup {"WRITABLE"}
<1>1. /\ map_page(p, flags) /\ pc = "map" /\ pc' = "map"
      /\ UNCHANGED <<memory_map, file, pages_to_map>>
  BY DEF MapElfPage, map_page, elf
<1>2. p \in DOMAIN pages_to_map /\ todo \subseteq DOMAIN pages_to_map
  BY <1>1, MinIsMember DEF MapElfPage, IInv, TypeOK, PermissionInv
<1>3. \A q : q = p => ProgramFlags(q)' = flags
  BY <1>1 DEF ProgramFlags
<1>4. \A q : ProgramFlags(q)' = ProgramFlags(q)
  BY <1>1 DEF ProgramFlags
<1> HIDE DEF p, flags
<1>5. /\ Grants(page_table', tables', p, flags) /\ todo' = todo \ {p}
      /\ p \notin DOMAIN page_table /\ DOMAIN page_table' = DOMAIN page_table \cup {p}
      /\ \A q \in DOMAIN page_table : page_table'[q] = page_table[q]
  BY <1>1, Mapped
<1>6. \A q \in StackPages : Grants(page_table, tables, q, StackFlags)
  BY <1>1 DEF PermissionInv
<1>7. \A q \in StackPages : Grants(page_table', tables', q, StackFlags)
  BY <1>1, <1>6, MapKeeps
<1>8. p \notin StackPages
  BY <1>5, <1>6 DEF Grants
<1>9. ASSUME NEW q \in DOMAIN pages_to_map, q \notin todo'
      PROVE  q \notin StackPages /\ Grants(page_table', tables', q, ProgramFlags(q)')
  <2>1. CASE q = p
    BY <1>3, <1>5, <1>8, <2>1
  <2>2. CASE q # p
    <3>1. q \notin StackPages /\ Grants(page_table, tables, q, ProgramFlags(q))
      BY <1>1, <1>5, <1>9, <2>2 DEF PermissionInv
    <3>2. Grants(page_table', tables', q, ProgramFlags(q))
      BY <1>1, <3>1, MapKeeps
    <3>3. QED
      BY <1>4, <3>1, <3>2
  <2>3. QED
    BY <2>1, <2>2
<1>10. \A q \in DOMAIN page_table' :
         "USER_ACCESSIBLE" \in page_table'[q].flags => q \in StackPages \cup DOMAIN pages_to_map
  BY <1>1, <1>2, <1>5 DEF PermissionInv
<1>11. todo' \subseteq DOMAIN pages_to_map
  BY <1>2, <1>5
<1>12. QED
  BY <1>1, <1>7, <1>9, <1>10, <1>11 DEF PermissionInv

LEMMA PermissionProtect == IInv /\ PermissionInv /\ ProtectPage => PermissionInv'
<1> SUFFICES ASSUME IInv, PermissionInv, ProtectPage PROVE PermissionInv'
  OBVIOUS
<1> DEFINE p == Min(todo)
           final == pages_to_map[p]
<1>1. /\ pc = "protect" /\ pc' = "protect" /\ todo' = todo \ {p}
      /\ UNCHANGED <<tables, pages_to_map>>
      /\ page_table' = IF "WRITABLE" \in final THEN page_table
                       ELSE with(page_table, p, entry(page_table[p].frame, final))
  BY DEF ProtectPage, final_flags, elf
<1>2. p \in todo /\ todo \subseteq DOMAIN pages_to_map
  BY <1>1, MinIsMember DEF ProtectPage, IInv, TypeOK, PermissionInv
<1>3. p \notin StackPages /\ Grants(page_table, tables, p, final \cup {"WRITABLE"})
  BY <1>1, <1>2 DEF PermissionInv, ProgramFlags
<1> HIDE DEF p, final
<1>4. /\ DOMAIN page_table' = DOMAIN page_table /\ page_table'[p].flags = final
      /\ \A q \in DOMAIN page_table : q # p => page_table'[q] = page_table[q]
  <2>1. CASE "WRITABLE" \in final
    <3>1. final \cup {"WRITABLE"} = final
      BY <2>1
    <3>2. QED
      BY <1>1, <1>3, <2>1, <3>1 DEF Grants
  <2>2. CASE "WRITABLE" \notin final
    BY <1>1, <1>3, <2>2 DEF Grants, with, entry
  <2>3. QED
    BY <2>1, <2>2
<1>5. Grants(page_table', tables', p, final)
  BY <1>1, <1>3, <1>4 DEF Grants
<1>6. ASSUME NEW q, NEW flags, q # p, Grants(page_table, tables, q, flags)
      PROVE  Grants(page_table', tables', q, flags)
  BY <1>1, <1>4, <1>6 DEF Grants
<1>7. \A q \in StackPages : Grants(page_table', tables', q, StackFlags)
  BY <1>1, <1>3, <1>6 DEF PermissionInv
<1>8. ASSUME NEW q \in DOMAIN pages_to_map
      PROVE  q \notin StackPages /\ Grants(page_table', tables', q, ProgramFlags(q)')
  <2>1. CASE q = p
    <3>1. ProgramFlags(q)' = final
      BY <1>1, <2>1 DEF ProgramFlags, final
    <3>2. QED
      BY <1>3, <1>5, <2>1, <3>1
  <2>2. CASE q # p
    <3>1. ProgramFlags(q)' = ProgramFlags(q)
      BY <1>1, <2>2 DEF ProgramFlags
    <3>2. q \notin StackPages /\ Grants(page_table, tables, q, ProgramFlags(q))
      BY <1>1 DEF PermissionInv
    <3>3. QED
      BY <1>6, <2>2, <3>1, <3>2
  <2>3. QED
    BY <2>1, <2>2
<1>9. \A q \in DOMAIN page_table' :
         "USER_ACCESSIBLE" \in page_table'[q].flags => q \in StackPages \cup DOMAIN pages_to_map
  BY <1>1, <1>2, <1>4 DEF PermissionInv
<1>10. todo' \subseteq DOMAIN pages_to_map
  BY <1>1, <1>2
<1>11. QED
  BY <1>1, <1>7, <1>8, <1>9, <1>10 DEF PermissionInv

LEMMA PermissionOther ==
    ASSUME IInv, PermissionInv,
           \/ InitHeap \/ ParseElf \/ MergeSegment \/ StartMap \/ CopySegment
           \/ StartProtect \/ EnterUserMode
    PROVE  PermissionInv'
<1>1. UNCHANGED <<page_table, tables>>
  BY DEF InitHeap, ParseElf, MergeSegment, StartMap, CopySegment, StartProtect, EnterUserMode
<1>2. CASE InitHeap
  BY <1>1, <1>2 DEF InitHeap, PermissionInv
<1>3. CASE ParseElf
  BY <1>1, <1>3 DEF ParseElf, PermissionInv
<1>4. CASE MergeSegment
  BY <1>1, <1>4 DEF MergeSegment, PermissionInv
<1>5. CASE StartMap
  BY <1>1, <1>5 DEF StartMap, elf, PermissionInv
<1>6. CASE CopySegment
  <2>1. /\ pc = "map" /\ pc' \in {"map", "panicked"}
        /\ UNCHANGED <<todo, pages_to_map>>
    BY <1>6 DEF CopySegment, elf
  <2>2. pc' = "map" => \A p : ProgramFlags(p)' = ProgramFlags(p)
    BY <2>1 DEF ProgramFlags
  <2>3. QED
    BY <1>1, <2>1, <2>2 DEF PermissionInv
<1>7. CASE StartProtect
  <2>1. /\ pc = "map" /\ pc' = "protect" /\ todo = {} /\ todo' = DOMAIN pages_to_map
        /\ UNCHANGED pages_to_map
    BY <1>7 DEF StartProtect, elf
  <2>2. \A p \in DOMAIN pages_to_map : ProgramFlags(p)' = ProgramFlags(p)
    BY <2>1 DEF ProgramFlags
  <2>3. QED
    BY <1>1, <2>1, <2>2 DEF PermissionInv
<1>8. CASE EnterUserMode
  <2>1. /\ pc = "protect" /\ pc' = "user" /\ todo = {} /\ UNCHANGED <<todo, pages_to_map>>
    BY <1>8 DEF EnterUserMode, elf
  <2>2. \A p \in DOMAIN pages_to_map : ProgramFlags(p)' = ProgramFlags(p)
    BY <2>1 DEF ProgramFlags
  <2>3. QED
    BY <1>1, <2>1, <2>2 DEF PermissionInv
<1>9. QED
  BY <1>2, <1>3, <1>4, <1>5, <1>6, <1>7, <1>8

LEMMA PermissionStep == IInv /\ PermissionInv /\ [Next]_vars => PermissionInv'
<1>1. PermissionInv /\ UNCHANGED vars => PermissionInv'
  BY DEF vars, PermissionInv, ProgramFlags
<1>2. QED
  BY <1>1, PermissionHeap, PermissionStack, PermissionElf, PermissionProtect, PermissionOther
  DEF Next

-----------------------------------------------------------------------------
\* An address is its page and its offset in the page.
LEMMA AddressOf ==
    ASSUME NEW a \in Nat, NEW p \in Nat, NEW o \in 0 .. PAGE - 1
    PROVE  PageOf(a) = p /\ a % PAGE = o <=> a = p * PAGE + o
<1>1. PAGE \in Nat /\ PAGE > 0
  BY SizeAssumption
<1>2. ASSUME a \div PAGE = p, a % PAGE = o PROVE a = p * PAGE + o
  BY Z3, <1>1, <1>2
<1>3. ASSUME a = p * PAGE + o PROVE a \div PAGE = p
  BY Z3, <1>1, <1>3
<1>4. ASSUME a = p * PAGE + o PROVE a % PAGE = o
  BY Z3, <1>1, <1>4
<1>5. QED
  BY Zenon, <1>2, <1>3, <1>4 DEF PageOf

\* `pages` counts the pages of the bytes, and the one that begins where they end.
LEMMA PagesOfBytes ==
    ASSUME NEW start \in Nat, NEW len \in Nat \ {0}
    PROVE  /\ \A a \in start .. start + len - 1 :
                 PageOf(a) \in PageOf(start) .. PageOf(start + len)
           /\ \A p \in PageOf(start) .. PageOf(start + len) :
                 \/ \E a \in start .. start + len - 1 : PageOf(a) = p
                 \/ start + len = p * PAGE
<1>1. PAGE \in Nat /\ PAGE > 0
  BY SizeAssumption
<1>2. ASSUME NEW a \in Nat PROVE a \div PAGE \in Nat
  BY Z3, <1>1
<1>3. ASSUME NEW a \in Nat, NEW b \in Nat, a <= b PROVE a \div PAGE <= b \div PAGE
  BY Z3, <1>1, <1>3
<1>4. ASSUME NEW a \in Nat, NEW p \in Nat PROVE p * PAGE <= a <=> p <= a \div PAGE
  <2>1. ASSUME p * PAGE <= a PROVE p <= a \div PAGE
    BY Z3, <1>1, <2>1
  <2>2. ASSUME p <= a \div PAGE PROVE p * PAGE <= a
    BY Z3, <1>1, <2>2
  <2>3. QED
    BY <2>1, <2>2
<1>5. \A a \in start .. start + len - 1 : PageOf(a) \in PageOf(start) .. PageOf(start + len)
  BY <1>2, <1>3 DEF PageOf
<1>6. ASSUME NEW p \in PageOf(start) .. PageOf(start + len), start + len # p * PAGE
      PROVE  \E a \in start .. start + len - 1 : PageOf(a) = p
  <2>1. CASE p = PageOf(start)
    BY <2>1
  <2>2. CASE p # PageOf(start)
    <3>1. p \in Nat /\ p > start \div PAGE /\ p <= (start + len) \div PAGE
      BY <1>2, <2>2 DEF PageOf
    <3>2. ~(p * PAGE <= start) /\ p * PAGE <= start + len
      <4>1. start + len \in Nat /\ ~(p <= start \div PAGE)
        BY <1>2, <3>1
      <4>2. QED
        BY Zenon, <1>4, <3>1, <4>1
    <3>3. p * PAGE \in Nat
      BY <1>1, <3>1
    <3>4. p * PAGE \in start .. start + len - 1
      BY <1>6, <3>2, <3>3
    <3>5. PageOf(p * PAGE) = p
      <4>1. 0 \in 0 .. PAGE - 1 /\ p * PAGE = p * PAGE + 0
        BY <1>1, <3>3
      <4>2. QED
        BY <3>1, <3>3, <4>1, AddressOf
    <3>6. QED
      BY <3>4, <3>5
  <2>3. QED
    BY <2>1, <2>2
<1>7. QED
  BY <1>5, <1>6

LEMMA MaxOfLast ==
    ASSUME NEW n \in Int, NEW S, n \in S, S \subseteq Int, \A i \in S : i <= n
    PROVE  Max(S) = n
<1>1. \A y \in S : n >= y
  OBVIOUS
<1> DEFINE Largest(x) == x \in S /\ \A y \in S : x >= y
<1>2. \E x : Largest(x)
  BY <1>1
<1>3. Max(S) = CHOOSE x : Largest(x)
  BY Zenon DEF Max
<1>4. Largest(Max(S))
  BY Zenon, <1>2, <1>3
<1> DEFINE m == Max(S)
<1>5. m \in Int /\ m >= n /\ m <= n
  BY Zenon, <1>4
<1> HIDE DEF m
<1>6. m = n
  BY <1>5
<1>7. QED
  BY <1>6 DEF m

LEMMA MaxIsMember ==
    ASSUME NEW n \in Nat, NEW S, S \subseteq 1 .. n, S # {}
    PROVE  Max(S) \in S
<1> DEFINE D == {n - i : i \in S}
           Largest(x) == x \in S /\ \A y \in S : x >= y
<1>1. D \subseteq Nat /\ D # {}
  <2>1. \A i \in S : n - i \in Nat
    OBVIOUS
  <2>2. QED
    BY Zenon, <2>1
<1> HIDE DEF D
<1>2. PICK d \in D : \A e \in D : <<e, d>> \notin Less
  BY <1>1, LessIsWellFounded, WFMin
<1>3. PICK m \in S : d = n - m
  BY DEF D
<1>4. ASSUME NEW i \in S PROVE m >= i
  <2>1. n - i \in D /\ <<n - i, d>> \in Nat \X Nat
    BY <1>1 DEF D
  <2>2. ~(n - i < d)
    BY <1>2, <2>1 DEF Less
  <2>3. QED
    BY <1>3, <2>2
<1>5. \E x : Largest(x)
  BY <1>4
<1>6. Max(S) = CHOOSE x : Largest(x)
  BY Zenon DEF Max
<1>7. QED
  BY Zenon, <1>5, <1>6

Here(segs, n, a) ==
    {i \in 1 .. n : /\ segs[i].ty = "Load"
                    /\ a - segs[i].start \in 0 .. segs[i].filesz - 1}

\* A segment overwrites the image where it has bytes and leaves the rest.
LEMMA ImageGrows ==
    ASSUME NEW segs, NEW n \in Nat, NEW a
    PROVE  LET s == segs[n + 1]
           IN  ImageUpTo(segs, n + 1, a) =
                  IF s.ty = "Load" /\ a - s.start \in 0 .. s.filesz - 1
                  THEN s.offset + a - s.start ELSE ImageUpTo(segs, n, a)
<1> DEFINE s == segs[n + 1]
           wins == s.ty = "Load" /\ a - s.start \in 0 .. s.filesz - 1
<1>1. \A i : i \in 1 .. n + 1 <=> i \in 1 .. n \/ i = n + 1
  OBVIOUS
<1>2. CASE wins
  <2>1. n + 1 \in Here(segs, n + 1, a)
    BY <1>2 DEF Here
  <2>2. Max(Here(segs, n + 1, a)) = n + 1
    <3>1. \A i \in Here(segs, n + 1, a) : i \in Int /\ i <= n + 1
      BY DEF Here
    <3>2. QED
      BY <2>1, <3>1, MaxOfLast
  <2>3. Here(segs, n + 1, a) # {}
    BY <2>1
  <2>4. ImageUpTo(segs, n + 1, a) = s.offset + a - s.start
    BY Zenon, <2>2, <2>3 DEF ImageUpTo, Here
  <2>5. QED
    BY <1>2, <2>4
<1>3. CASE ~wins
  <2>1. Here(segs, n + 1, a) = Here(segs, n, a)
    BY Zenon, <1>1, <1>3 DEF Here
  <2>2. QED
    BY Zenon, <1>3, <2>1 DEF ImageUpTo, Here
<1>4. QED
  BY <1>2, <1>3

LEMMA HoldsOn ==
    ASSUME NEW segs, NEW n \in Nat, segs[n + 1].ty # "Load", NEW m, NEW f, NEW p,
           Holds(m, f, p, segs, n)
    PROVE  Holds(m, f, p, segs, n + 1)
<1>1. \A a : ImageUpTo(segs, n + 1, a) = ImageUpTo(segs, n, a)
  BY ImageGrows
<1>2. QED
  BY <1>1 DEF Holds

LEMMA NoImage ==
    ASSUME NEW segs, NEW a
    PROVE  ImageUpTo(segs, 0, a) = Stale
BY DEF ImageUpTo

\* copy_from_slice through the page table: page p, on frame f of its own, gets
\* the bytes of the segment that belong there.
LEMMA CopyLands ==
    ASSUME IInv, pc = "map", idx \in 1 .. Len(segments), segments[idx].ty = "Load",
           CopySegment, pc' = "map", NEW p \in DOMAIN pages_to_map, p \in DOMAIN page_table,
           Holds(mem, page_table[p].frame, p, segments, idx - 1)
    PROVE  Holds(mem', page_table[p].frame, p, segments, idx)
<1> DEFINE s == segments[idx]
           bytes == 0 .. s.filesz - 1
           f == page_table[p].frame
           Lands(i, g, o) == page_table[PageOf(s.start + i)].frame = g /\ (s.start + i) % PAGE = o
           here(g, o) == {i \in bytes : Lands(i, g, o)}
<1>1. /\ \A i \in bytes : PageOf(s.start + i) \in DOMAIN page_table
      /\ mem' = [g \in DOMAIN mem |-> [o \in 0 .. PAGE - 1 |->
                   IF here(g, o) = {} THEN mem[g][o] ELSE s.offset + Max(here(g, o))]]
  BY DEF CopySegment, copied, Allowed
<1>2. s.start \in Nat /\ s.offset \in Nat /\ s.filesz \in Nat
  BY Relocation DEF IInv, ElfSegment
<1>3. p \in Nat /\ PAGE \in Nat /\ f \in DOMAIN mem
  BY SizeAssumption DEF IInv, HeapInv, Holds
<1>4. ASSUME NEW i \in bytes, NEW o \in 0 .. PAGE - 1
      PROVE  Lands(i, f, o) <=> s.start + i = p * PAGE + o
  <2>1. PageOf(s.start + i) = p <=> page_table[PageOf(s.start + i)].frame = f
    BY <1>1 DEF IInv, FramesAreUsedOnce
  <2>2. s.start + i \in Nat
    BY <1>2
  <2>3. QED
    BY <1>3, <2>1, <2>2, AddressOf
<1> HIDE DEF s, f, Lands
<1>5. ASSUME NEW o \in 0 .. PAGE - 1
      PROVE  mem'[f][o] = ImageUpTo(segments, idx, p * PAGE + o)
  <2> DEFINE a == p * PAGE + o
  <2>1. a \in Int
    BY <1>3
  <2>2. mem'[f][o] = IF here(f, o) = {} THEN mem[f][o] ELSE s.offset + Max(here(f, o))
    BY <1>1, <1>3
  <2>3. mem[f][o] = ImageUpTo(segments, idx - 1, a)
    BY DEF Holds, f
  <2>4. ImageUpTo(segments, idx, a) =
          IF a - s.start \in bytes THEN s.offset + a - s.start
          ELSE ImageUpTo(segments, idx - 1, a)
    <3>1. idx - 1 \in Nat /\ idx - 1 + 1 = idx
      OBVIOUS
    <3>2. QED
      BY <3>1, ImageGrows DEF s
  <2>5. \A i \in bytes : Lands(i, f, o) <=> i = a - s.start
    <3> SUFFICES ASSUME NEW i \in bytes PROVE Lands(i, f, o) <=> i = a - s.start
      OBVIOUS
    <3>1. Lands(i, f, o) <=> s.start + i = a
      BY <1>4
    <3> HIDE DEF a
    <3>2. QED
      BY <1>2, <2>1, <3>1
  <2> HIDE DEF a
  <2>6. CASE a - s.start \in bytes
    <3>1. a - s.start \in here(f, o) /\ \A i \in here(f, o) : i = a - s.start
      BY <2>5, <2>6
    <3>2. Max(here(f, o)) = a - s.start
      <4>1. a - s.start \in Int /\ here(f, o) \subseteq Int
        BY <1>2, <2>1
      <4>2. \A i \in here(f, o) : i <= a - s.start
        BY <3>1, <4>1
      <4> HIDE DEF here
      <4>3. QED
        BY <3>1, <4>1, <4>2, MaxOfLast
    <3>3. here(f, o) # {}
      BY <3>1
    <3> HIDE DEF here, bytes
    <3>4. mem'[f][o] = s.offset + (a - s.start)
      BY <2>2, <3>2, <3>3
    <3>5. s.offset + (a - s.start) = s.offset + a - s.start
      BY <1>2, <2>1
    <3>6. QED
      BY <2>4, <2>6, <3>4, <3>5 DEF a
  <2>7. CASE a - s.start \notin bytes
    <3>1. here(f, o) = {}
      BY <2>5, <2>7
    <3> HIDE DEF here, bytes
    <3>2. QED
      BY <2>2, <2>3, <2>4, <2>7, <3>1 DEF a
  <2>8. QED
    BY <2>6, <2>7
<1>6. f \in DOMAIN mem'
  BY <1>1, <1>3
<1>7. QED
  BY <1>5, <1>6 DEF Holds, f

LEMMA InitImage == Init => ImageInv
<1> SUFFICES ASSUME Init PROVE ImageInv
  OBVIOUS
<1>1. pc = "heap" /\ mem = [f \in Range(Usable) |-> [o \in 0 .. PAGE - 1 |-> Stale]]
  BY DEF Init, Usable
<1>2. QED
  BY <1>1 DEF ImageInv

\* Until the program is mapped nothing is written.
LEMMA ImageEarly ==
    ASSUME IInv, ImageInv,
           MapHeapPage \/ InitHeap \/ MapStackPage \/ ParseElf \/ MergeSegment \/ StartMap
    PROVE  ImageInv'
<1>1. UNCHANGED <<mem, Usable>>
  BY EarlyStep DEF ParseElf, MergeSegment, StartMap, Usable
<1>2. pc \in {"heap", "stack", "merge"}
  BY DEF MapHeapPage, InitHeap, MapStackPage, ParseElf, MergeSegment, StartMap
<1>3. CASE MapHeapPage \/ InitHeap \/ MapStackPage \/ ParseElf \/ MergeSegment
  <2>1. pc' \in {"heap", "stack", "merge", "panicked"}
    BY <1>3, EarlyStep DEF ParseElf, MergeSegment
  <2>2. QED
    BY <1>1, <1>2, <2>1 DEF ImageInv
<1>4. CASE StartMap
  <2>1. /\ pc' = "map" /\ idx' = 1 /\ todo' = DOMAIN pages_to_map' /\ segments' = segments
        /\ Len(segments) \in Nat
    BY <1>4, RelocatedLen DEF StartMap, elf, IInv, Book, ElfInv
  <2>2. QED
    BY <1>1, <1>2, <2>1 DEF ImageInv
<1>5. QED
  BY <1>3, <1>4

LEMMA ImageMap ==
    ASSUME IInv, ImageInv, MapElfPage
    PROVE  ImageInv'
<1> DEFINE p == Min(todo)
           flags == pages_to_map[p] \cup {"WRITABLE"}
<1>1. /\ pc = "map" /\ map_page(p, flags) /\ pc' \in {"map", "panicked"} /\ todo # {}
      /\ UNCHANGED <<memory_map, file, mem, pages_to_map, segments, idx>>
  BY DEF MapElfPage, map_page, elf
<1>2. UNCHANGED Usable
  BY <1>1 DEF Usable
<1>3. idx = 1 /\ \A f \in DOMAIN mem, o \in 0 .. PAGE - 1 : mem[f][o] = Stale
  BY <1>1 DEF ImageInv
<1> HIDE DEF p, flags
<1>4. CASE pc' = "panicked"
  BY <1>1, <1>2, <1>4 DEF ImageInv
<1>5. CASE pc' = "map"
  <2>1. /\ \A q \in DOMAIN page_table : page_table'[q] = page_table[q]
        /\ todo' = todo \ {p} /\ page_table'[p].frame \in Taken'
    BY <1>1, <1>5, Mapped
  <2>2. page_table'[p].frame \in DOMAIN mem
    BY <1>2, <2>1 DEF Taken, ImageInv, Range
  <2>3. Holds(mem, page_table'[p].frame, p, segments, 0)
    BY <1>3, <2>2, NoImage DEF Holds
  <2>4. ASSUME NEW q \in DOMAIN pages_to_map, q \notin todo'
        PROVE  Holds(mem, page_table'[q].frame, q, segments, 0)
    <3>1. CASE q = p
      BY <2>3, <3>1
    <3>2. CASE q # p
      <4>1. q \notin todo
        BY <2>1, <2>4, <3>2
      <4>2. Holds(mem, page_table[q].frame, q, segments, idx - 1) /\ q \in DOMAIN page_table
        BY <1>1, <4>1 DEF ImageInv, IInv, HeapInv
      <4>3. QED
        BY <1>3, <2>1, <4>2
    <3>3. QED
      BY <3>1, <3>2
  <2>5. idx' - 1 = 0 /\ idx' <= Len(segments') + 1
    BY <1>1, <1>3 DEF ImageInv
  <2>6. \A q \in DOMAIN pages_to_map' :
           q \in todo' \/ Holds(mem', page_table'[q].frame, q, segments', idx' - 1)
    BY <1>1, <2>4, <2>5
  <2>7. DOMAIN mem' = Range(Usable')
    BY <1>1, <1>2 DEF ImageInv
  <2>8. QED
    BY <1>1, <1>3, <1>5, <2>5, <2>6, <2>7 DEF ImageInv
<1>6. QED
  BY <1>1, <1>4, <1>5

LEMMA ImageCopy ==
    ASSUME IInv, ImageInv, CopySegment
    PROVE  ImageInv'
<1>1. /\ pc = "map" /\ todo = {} /\ pc' \in {"map", "panicked"} /\ idx <= Len(segments)
      /\ UNCHANGED <<memory_map, page_table, pages_to_map, segments, todo>> /\ idx' = idx + 1
  BY DEF CopySegment, elf
<1>2. idx \in 1 .. Len(segments) /\ Len(segments) \in Nat
  BY <1>1, RelocatedLen DEF IInv, TypeOK, Book, ElfInv
<1>3. DOMAIN mem' = Range(Usable')
  <2>1. UNCHANGED Usable
    BY <1>1 DEF Usable
  <2>2. DOMAIN mem' = DOMAIN mem
    BY DEF CopySegment
  <2>3. QED
    BY <2>1, <2>2 DEF ImageInv
<1>4. CASE pc' = "panicked"
  BY <1>3, <1>4 DEF ImageInv
<1>5. CASE pc' = "map"
  <2>1. ASSUME NEW p \in DOMAIN pages_to_map
        PROVE  Holds(mem', page_table[p].frame, p, segments, idx)
    <3>1. Holds(mem, page_table[p].frame, p, segments, idx - 1) /\ p \in DOMAIN page_table
      BY <1>1 DEF ImageInv, IInv, HeapInv
    <3>2. CASE segments[idx].ty = "Load"
      BY <1>1, <1>2, <1>5, <3>1, <3>2, CopyLands
    <3>3. CASE segments[idx].ty # "Load"
      <4>1. mem' = mem
        BY <3>3 DEF CopySegment
      <4>2. idx - 1 \in Nat /\ idx - 1 + 1 = idx
        BY <1>2
      <4>3. QED
        BY <3>1, <3>3, <4>1, <4>2, HoldsOn
    <3>4. QED
      BY <3>2, <3>3
  <2>2. idx' - 1 = idx /\ idx' <= Len(segments') + 1 /\ idx' # 1
    BY <1>1, <1>2
  <2>3. \A p \in DOMAIN pages_to_map' :
           Holds(mem', page_table'[p].frame, p, segments', idx' - 1)
    BY <1>1, <2>1, <2>2
  <2>4. QED
    BY <1>1, <1>3, <1>5, <2>2, <2>3 DEF ImageInv
<1>6. QED
  BY <1>1, <1>4, <1>5

\* After the copy the loader changes flags only.
LEMMA ImageLate ==
    ASSUME IInv, ImageInv, StartProtect \/ ProtectPage \/ EnterUserMode
    PROVE  ImageInv'
<1>1. /\ UNCHANGED <<memory_map, mem, pages_to_map, segments>>
      /\ pc \in {"map", "protect"} /\ pc' \in {"protect", "user"}
  BY DEF StartProtect, ProtectPage, EnterUserMode, elf
<1>2. UNCHANGED Usable
  BY <1>1 DEF Usable
<1>3. \A p \in DOMAIN pages_to_map : page_table'[p].frame = page_table[p].frame
  <2>1. CASE StartProtect \/ EnterUserMode
    BY <2>1 DEF StartProtect, EnterUserMode
  <2>2. CASE ProtectPage
    <3>1. \A p \in DOMAIN pages_to_map : p \in DOMAIN page_table
      BY <2>2 DEF ProtectPage, IInv, HeapInv
    <3>2. QED
      BY <2>2, <3>1 DEF ProtectPage, with, entry
  <2>3. QED
    BY <2>1, <2>2
<1>4. \A p \in DOMAIN pages_to_map :
         Holds(mem, page_table[p].frame, p, segments, Len(segments))
  <2>1. CASE pc = "protect"
    BY <2>1 DEF ImageInv
  <2>2. CASE pc = "map"
    <3>1. todo = {} /\ idx > Len(segments)
      BY <2>2 DEF StartProtect, ProtectPage, EnterUserMode
    <3>2. idx - 1 = Len(segments)
      BY <2>2, <3>1, RelocatedLen DEF ImageInv, IInv, TypeOK, Book, ElfInv
    <3>3. QED
      BY <2>2, <3>1, <3>2 DEF ImageInv
  <2>3. QED
    BY <1>1, <2>1, <2>2
<1>5. \A p \in DOMAIN pages_to_map' :
         Holds(mem', page_table'[p].frame, p, segments', Len(segments'))
  BY <1>1, <1>3, <1>4
<1>6. QED
  BY <1>1, <1>2, <1>5 DEF ImageInv

LEMMA ImageStep == IInv /\ ImageInv /\ [Next]_vars => ImageInv'
<1>1. ImageInv /\ UNCHANGED vars => ImageInv'
  BY DEF vars, ImageInv, Usable
<1>2. QED
  BY <1>1, ImageEarly, ImageMap, ImageCopy, ImageLate DEF Next

-----------------------------------------------------------------------------
\* A page of the program can be read or written in user mode if a segment with a
\* byte on it asks for that, and otherwise only if one that ends where the page
\* begins does, whatever the segments of the file, their order and the pages they
\* share; the stack can be both, no other page either.  (Execution is not: see
\* ExecutablePagesStayExecutable.)
THEOREM Permissions == Spec => []PermissionsAreTheUnion
<1>1. Init => MergeInv /\ PermissionInv
  BY InitPermission DEF Init, MergeInv
<1>2. IInv /\ MergeInv /\ PermissionInv => PermissionsAreTheUnion
  <2> SUFFICES ASSUME IInv, MergeInv, PermissionInv, pc = "user" PROVE PermissionsAreTheUnion
    BY DEF PermissionsAreTheUnion
  <2>1. ASSUME NEW p \in DOMAIN pages_to_map, NEW g \in Rights
        PROVE  Allowed(p, g)
                 <=> \E i \in 1 .. Len(segments) :
                        p \in pages(segments[i]) /\ g \in segments[i].flags
    <3>1. Grants(page_table, tables, p, pages_to_map[p])
      BY DEF PermissionInv, ProgramFlags
    <3>2. Allowed(p, g) <=> g \in pages_to_map[p]
      BY <3>1 DEF Grants, Allowed, Rights
    <3>3. g \in pages_to_map[p]
            <=> \E i \in 1 .. Len(segments) : p \in pages(segments[i]) /\ g \in segments[i].flags
      BY DEF MergeInv, UnionOf, Rights
    <3>4. QED
      BY Zenon, <3>2, <3>3
  <2>2. 1 .. Len(segments) = WantedIndices
    BY RelocatedLen DEF IInv, Book, ElfInv, WantedIndices
  <2>3. ASSUME NEW i \in 1 .. Len(segments)
        PROVE  /\ segments[i].flags = Wanted[i].flags
               /\ \A a \in Moved(Wanted[i].start) .. Moved(Wanted[i].start) + Wanted[i].len - 1 :
                     PageOf(a) \in pages(segments[i])
               /\ \A p \in pages(segments[i]) :
                     UsesPage(Wanted[i], p) \/ EndsAtPage(Wanted[i], p)
    <3>1. /\ segments[i].start = Moved(Wanted[i].start) /\ segments[i].start \in Nat
          /\ segments[i].len = Wanted[i].len /\ segments[i].flags = Wanted[i].flags
          /\ Wanted[i] \in ElfSegment
      BY Relocation DEF IInv
    <3>2. segments[i].len \in Nat \ {0}
      BY <3>1 DEF ElfSegment
    <3>3. /\ \A a \in segments[i].start .. segments[i].start + segments[i].len - 1 :
                PageOf(a) \in pages(segments[i])
          /\ \A p \in pages(segments[i]) :
                \/ \E a \in segments[i].start .. segments[i].start + segments[i].len - 1 :
                      PageOf(a) = p
                \/ segments[i].start + segments[i].len = p * PAGE
      BY Zenon, <3>1, <3>2, PagesOfBytes DEF pages
    <3>4. QED
      BY Zenon, <3>1, <3>3 DEF UsesPage, EndsAtPage
  <2>4. ASSUME NEW i \in WantedIndices, NEW g \in Rights, g \in Wanted[i].flags,
               NEW a \in Moved(Wanted[i].start) .. Moved(Wanted[i].start) + Wanted[i].len - 1
        PROVE  Allowed(PageOf(a), g)
    <3>1. i \in 1 .. Len(segments) /\ PageOf(a) \in pages(segments[i])
                                   /\ g \in segments[i].flags
      BY <2>2, <2>3, <2>4
    <3>2. PageOf(a) \in DOMAIN pages_to_map
      BY <3>1 DEF MergeInv, UnionOf
    <3>3. QED
      BY Zenon, <2>1, <3>1, <3>2
  <2>5. ASSUME NEW p \in DOMAIN pages_to_map, NEW g \in Rights, Allowed(p, g)
        PROVE  \E i \in WantedIndices :
                  g \in Wanted[i].flags /\ (UsesPage(Wanted[i], p) \/ EndsAtPage(Wanted[i], p))
    BY Zenon, <2>1, <2>2, <2>3, <2>5
  <2>6. ASSUME NEW p \in StackPages, NEW g \in Rights PROVE Allowed(p, g)
    <3>1. Grants(page_table, tables, p, StackFlags)
      BY DEF PermissionInv
    <3>2. QED
      BY <3>1 DEF Grants, Allowed, StackFlags, Rights
  <2>7. ASSUME NEW p \in DOMAIN page_table \ (DOMAIN pages_to_map \cup StackPages)
        PROVE  ~Allowed(p, "USER_ACCESSIBLE")
    BY DEF PermissionInv, Allowed
  <2>8. QED
    BY <2>4, <2>5, <2>6, <2>7 DEF PermissionsAreTheUnion
<1>3. QED
  BY <1>1, <1>2, Invariance, MergeInvStep, PermissionStep, PTL DEF Spec

\* User mode starts with the image the file describes: every byte of a loaded
\* segment is at its moved address, read through the final page table, where
\* segments overlap the later one wins, and no other byte of the program's
\* pages has been written.  No copy of a segment lands on a page it is not
\* meant for, because no frame backs two pages.
THEOREM ImageLoaded == Spec => []ImageIsLoaded
<1>1. IInv /\ ImageInv => ImageIsLoaded
  <2> SUFFICES ASSUME IInv, ImageInv, pc = "user" PROVE ImageIsLoaded
    BY DEF ImageIsLoaded
  <2>1. 1 .. Len(segments) = WantedIndices
    BY RelocatedLen DEF IInv, Book, ElfInv, WantedIndices
  <2>2. \A i \in WantedIndices :
           /\ segments[i].ty = Wanted[i].ty /\ segments[i].start = Moved(Wanted[i].start)
           /\ segments[i].filesz = Wanted[i].filesz /\ segments[i].offset = Wanted[i].offset
    BY <2>1, Relocation DEF IInv
  <2>3. ASSUME NEW a PROVE ImageUpTo(segments, Len(segments), a) = Image(a)
    <3> DEFINE here == {i \in WantedIndices :
                          /\ Wanted[i].ty = "Load"
                          /\ a - Moved(Wanted[i].start) \in 0 .. Wanted[i].filesz - 1}
    <3>1. here = {i \in 1 .. Len(segments) :
                    /\ segments[i].ty = "Load"
                    /\ a - segments[i].start \in 0 .. segments[i].filesz - 1}
      BY <2>1, <2>2
    <3>2. Image(a) = IF here = {} THEN Stale
                     ELSE Wanted[Max(here)].offset + a - Moved(Wanted[Max(here)].start)
      BY DEF Image
    <3>3. ImageUpTo(segments, Len(segments), a) =
             IF here = {} THEN Stale
             ELSE segments[Max(here)].offset + a - segments[Max(here)].start
      BY Zenon, <3>1 DEF ImageUpTo
    <3>4. here # {} => Max(here) \in WantedIndices
      <4>1. here \subseteq 1 .. Len(Wanted) /\ Len(Wanted) \in Nat
        BY RelocatedLen DEF WantedIndices, IInv, Book
      <4> HIDE DEF here
      <4>2. here # {} => Max(here) \in here
        BY <4>1, MaxIsMember
      <4>3. QED
        BY <4>1, <4>2 DEF WantedIndices
    <3> HIDE DEF here
    <3>5. QED
      BY <2>2, <3>2, <3>3, <3>4
  <2>4. \A p \in DOMAIN pages_to_map, o \in 0 .. PAGE - 1 :
           mem[page_table[p].frame][o] = Image(p * PAGE + o)
    BY <2>3 DEF ImageInv, Holds
  <2>5. entry_point = Moved(file.entry)
    BY DEF IInv, ElfInv, relocated, remap, Moved, Wanted
  <2>6. QED
    BY <2>4, <2>5 DEF ImageIsLoaded
<1>2. QED
  BY <1>1, Invariance, InitImage, ImageStep, PTL DEF Spec
=============================================================================
