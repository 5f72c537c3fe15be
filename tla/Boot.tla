-------------------------------- MODULE Boot --------------------------------
(***************************************************************************)
(* kernel_main from memory::init to enter_user_mode: the kernel heap, the  *)
(* user stack and the program are mapped page by page with frames of the   *)
(* boot-time allocator (memory.rs, allocator/mod.rs, main.rs), and the ELF *)
(* loader (elf/) relocates, maps, copies and write-protects the segments.  *)
(* Interrupts are off throughout.  Frames are numbers; the four levels of  *)
(* page tables are one level of tables, which map_to creates on demand out *)
(* of the same allocator.  Any unwrap that fails ends in "panicked".       *)
(***************************************************************************)
EXTENDS Integers, Sequences, FiniteSetsExt

CONSTANTS
    PAGE,                  \* bytes in a page
    TABLE,                 \* pages under one page table
    MemoryMaps,            \* memory maps the bootloader may pass
    KernelPages,           \* page -> [frame, flags], as the bootloader left it
    KernelTables,          \* table -> [frame, flags]
    HEAP_START, HEAP_SIZE,
    StackPages,
    LOAD_TEXT_SECTION_AT,
    Files                  \* programs: [len, entry, headers]

ASSUME SizeAssumption ==
    /\ PAGE \in Nat \ {0} /\ TABLE \in Nat \ {0}
    /\ HEAP_START \in Nat /\ HEAP_SIZE \in Nat \ {0}
    /\ StackPages \subseteq Nat
    /\ LOAD_TEXT_SECTION_AT \in Nat

VARIABLES
    pc, memory_map, file,
    next,                  \* BootInfoFrameAllocator.next
    page_table, tables,    \* page -> [frame, flags], table -> [frame, flags]
    mem,                   \* frame -> offset -> byte; a byte is its file offset
    heap,                  \* ALLOCATOR.init has been called
    segments, entry_point, pages_to_map,
    todo, idx              \* progress of the current loop over pages, segments

elf  == <<segments, entry_point, pages_to_map>>
vars == <<pc, memory_map, file, next, page_table, tables, mem, heap,
          segments, entry_point, pages_to_map, todo, idx>>

Stale == -1                \* what a frame holds before it is written
None == -1
PageOf(a) == a \div PAGE
TableOf(p) == p \div TABLE

-----------------------------------------------------------------------------
\* Frames and page tables

\* The frames of the usable regions of a memory map, in order.
usable_frames(map) ==
    MapThenFoldSet(LAMBDA a, b : a \o b, <<>>,
        LAMBDA i : [j \in 1 .. map[i].end - map[i].start |-> map[i].start + j - 1],
        Min, {i \in DOMAIN map : map[i].type = "Usable"})

KernelFrames ==
    {KernelPages[p].frame : p \in DOMAIN KernelPages}
        \cup {KernelTables[t].frame : t \in DOMAIN KernelTables}

\* BootInfoFrameAllocator::init: "all frames that are marked as `USABLE` in it
\* are really unused", and the regions do not overlap.  Unused means that nothing
\* is in them: the bootloader's window on all of physical memory, through which
\* the kernel reaches the tables, maps these frames a second time and is left out
\* here, in KernelPages and in the properties.
ASSUME FrameAssumption ==
    \A map \in MemoryMaps :
        /\ usable_frames(map) \in Seq(Nat)
        /\ \A i, j \in 1 .. Len(usable_frames(map)) :
              usable_frames(map)[i] = usable_frames(map)[j] => i = j
        /\ \A i \in 1 .. Len(usable_frames(map)) : usable_frames(map)[i] \notin KernelFrames

\* The bootloader uses no frame twice and maps no page for user mode; the window
\* on physical memory aside, whose pages are the kernel's own.
ASSUME KernelAssumption ==
    /\ \A p \in DOMAIN KernelPages : KernelPages[p].frame \in Nat
    /\ \A t \in DOMAIN KernelTables : KernelTables[t].frame \in Nat
    /\ \A p, q \in DOMAIN KernelPages : KernelPages[p].frame = KernelPages[q].frame => p = q
    /\ \A t, u \in DOMAIN KernelTables : KernelTables[t].frame = KernelTables[u].frame => t = u
    /\ \A p \in DOMAIN KernelPages, t \in DOMAIN KernelTables :
          KernelPages[p].frame # KernelTables[t].frame
    /\ \A p \in DOMAIN KernelPages : "USER_ACCESSIBLE" \notin KernelPages[p].flags

\* A mutated form of frame: the first frame of all comes twice.
frame_saturating(n) ==
    LET usable == usable_frames(memory_map)
    IN  IF n < Len(usable) THEN usable[IF n = 0 THEN 1 ELSE n] ELSE None

\* What allocate_frame returns when `next` is n.
frame(n) ==
    LET usable == usable_frames(memory_map)
    IN  IF n < Len(usable) THEN usable[n + 1] ELSE None

\* A mutated form of unwrap: a missing frame is not noticed.
unwrap_unchecked(f) == TRUE

unwrap(f) == f # None

\* A mutated form of frames_taken: a table is allocated every time.
frames_taken_greedy(f, fresh) == 2

frames_taken(f, fresh) == IF f # None /\ fresh THEN 2 ELSE 1

entry(f, flags) == [frame |-> f, flags |-> flags]
with(map, k, v) == [x \in DOMAIN map \cup {k} |-> IF x = k THEN v ELSE map[x]]

\* allocate_frame().unwrap() and map_to(..).unwrap() for the next page of a
\* loop.  map_to allocates the table if it is missing and gives it, or adds to
\* it, the flags PRESENT, WRITABLE and USER_ACCESSIBLE of the page.
map_page(p, flags) ==
    LET f      == frame(next)
        fresh  == TableOf(p) \notin DOMAIN tables
        parent == flags \ {"NO_EXECUTE"}
        t      == IF fresh THEN entry(frame(next + 1), parent)
                  ELSE entry(tables[TableOf(p)].frame, tables[TableOf(p)].flags \cup parent)
    IN  /\ next' = next + frames_taken(f, fresh)
        /\ IF unwrap(f) /\ unwrap(t.frame) /\ p \notin DOMAIN page_table
           THEN /\ page_table' = with(page_table, p, entry(f, flags))
                /\ tables' = with(tables, TableOf(p), t)
                /\ todo' = todo \ {p} /\ UNCHANGED pc
           ELSE pc' = "panicked" /\ UNCHANGED <<page_table, tables, todo>>

\* What the processor allows: the flags of the page and of its table.
Allowed(p, flag) ==
    /\ p \in DOMAIN page_table
    /\ flag \in page_table[p].flags /\ flag \in tables[TableOf(p)].flags

-----------------------------------------------------------------------------
\* Program headers and segments

KnownTypes == {"Load", "Note"}
PageTableFlags == {"PRESENT", "USER_ACCESSIBLE", "WRITABLE", "NO_EXECUTE"}
ElfSegment ==
    [ty : KnownTypes, flags : SUBSET PageTableFlags, offset : Nat, filesz : Nat,
     start : Nat, len : Nat \ {0}]

\* parse_segment_flags
segment_flags(h) ==
    {"PRESENT"} \cup (IF "R" \in h.flags THEN {"USER_ACCESSIBLE"} ELSE {})
                \cup (IF "W" \in h.flags THEN {"WRITABLE"} ELSE {})
                \cup (IF "X" \in h.flags THEN {} ELSE {"NO_EXECUTE"})

\* The segments load keeps: of a known type, not Null, not empty in memory.
parse(headers) ==
    LET kept == SelectSeq(headers, LAMBDA h : h.ty \in KnownTypes /\ h.memsz # 0)
    IN  [i \in 1 .. Len(kept) |->
            [ty |-> kept[i].ty, flags |-> segment_flags(kept[i]), offset |-> kept[i].offset,
             filesz |-> kept[i].filesz, start |-> kept[i].vaddr, len |-> kept[i].memsz]]

Executable(s) == "NO_EXECUTE" \notin s.flags
TextIndices(segs) == {i \in 1 .. Len(segs) : Executable(segs[i])}

\* default_text_addr is the last executable segment's.
offset_to_apply(segs) == LOAD_TEXT_SECTION_AT - segs[Max(TextIndices(segs))].start

\* ElfFile::remap
remap(segs, start, by) ==
    [segments |-> [i \in 1 .. Len(segs) |-> [segs[i] EXCEPT !.start = @ + by]],
     entry |-> start + by]

\* VirtualMapDestination::pages: up to the page of start + len.
pages(s) == PageOf(s.start) .. PageOf(s.start + s.len)

\* The closure given to and_modify.
merge(current, new) ==
    LET both == current \cup new
    IN  IF "NO_EXECUTE" \notin both \/ "NO_EXECUTE" \notin new
        THEN both \ {"NO_EXECUTE"} ELSE both

\* The pages of one segment entered into pages_to_map.
merge_segment(map, s) ==
    [p \in DOMAIN map \cup pages(s) |->
        IF p \notin DOMAIN map THEN s.flags
        ELSE IF p \in pages(s) THEN merge(map[p], s.flags) ELSE map[p]]

\* The segments load maps and copies.
relocated(f) ==
    LET segs == parse(f.headers) IN remap(segs, f.entry, offset_to_apply(segs))

\* The fields of a header are unsigned, and programs are linked so that, moved,
\* they start at or above address zero.
ASSUME FileAssumption ==
    \A f \in Files :
        /\ parse(f.headers) \in Seq(ElfSegment)
        /\ TextIndices(parse(f.headers)) # {} =>
              \A i \in 1 .. Len(relocated(f).segments) :
                  relocated(f).segments[i].start \in Nat

-----------------------------------------------------------------------------
\* A mutated form of HeapPages: the last page is left out.
HeapPagesExclusive == PageOf(HEAP_START) .. PageOf(HEAP_START + HEAP_SIZE - 1) - 1

HeapPages == PageOf(HEAP_START) .. PageOf(HEAP_START + HEAP_SIZE - 1)

\* memory::init: the mapper works on the tables the bootloader left.
memory_init == page_table = KernelPages /\ tables = KernelTables

Init ==
    /\ pc = "heap"
    /\ memory_map \in MemoryMaps /\ file \in Files
    /\ next = 0
    /\ memory_init
    /\ mem = [f \in Range(usable_frames(memory_map)) |-> [o \in 0 .. PAGE - 1 |-> Stale]]
    /\ heap = FALSE
    /\ segments = <<>> /\ entry_point = 0 /\ pages_to_map = <<>>
    /\ todo = HeapPages /\ idx = 1

\* init_kernel_heap, one page
MapHeapPage ==
    /\ pc = "heap" /\ todo # {}
    /\ map_page(Min(todo), {"PRESENT", "WRITABLE"})
    /\ UNCHANGED <<memory_map, file, mem, heap, elf, idx>>

\* ALLOCATOR.init; init_thread_data is the first to allocate.
InitHeap ==
    /\ pc = "heap" /\ todo = {}
    /\ heap' = TRUE
    /\ todo' = StackPages
    /\ pc' = "stack"
    /\ UNCHANGED <<memory_map, file, next, page_table, tables, mem, elf, idx>>

MapStackPage ==
    /\ pc = "stack" /\ todo # {}
    /\ map_page(Min(todo), {"PRESENT", "USER_ACCESSIBLE", "WRITABLE"})
    /\ UNCHANGED <<memory_map, file, mem, heap, elf, idx>>

\* load up to remap; it unwraps the address of an executable segment.
ParseElf ==
    /\ pc = "stack" /\ todo = {}
    /\ IF TextIndices(parse(file.headers)) = {}
       THEN pc' = "panicked" /\ UNCHANGED <<elf, idx>>
       ELSE /\ segments' = relocated(file).segments
            /\ entry_point' = relocated(file).entry
            /\ pages_to_map' = <<>> /\ idx' = 1
            /\ pc' = "merge"
    /\ UNCHANGED <<memory_map, file, next, page_table, tables, mem, heap, todo>>

\* The permissions of a page are gathered from the segments that use it.
MergeSegment ==
    /\ pc = "merge" /\ idx <= Len(segments)
    /\ pages_to_map' = merge_segment(pages_to_map, segments[idx])
    /\ idx' = idx + 1
    /\ UNCHANGED <<pc, memory_map, file, next, page_table, tables, mem, heap,
                   segments, entry_point, todo>>

StartMap ==
    /\ pc = "merge" /\ idx > Len(segments)
    /\ pc' = "map"
    /\ todo' = DOMAIN pages_to_map /\ idx' = 1
    /\ UNCHANGED <<memory_map, file, next, page_table, tables, mem, heap, elf>>

\* Every page is mapped writable for now.
MapElfPage ==
    /\ pc = "map" /\ todo # {}
    /\ map_page(Min(todo), pages_to_map[Min(todo)] \cup {"WRITABLE"})
    /\ UNCHANGED <<memory_map, file, mem, heap, elf, idx>>

\* A mutated form of copied: as many bytes as the segment has in memory.
copied_in_memory(s) == 0 .. s.len - 1

copied(s) == 0 .. s.filesz - 1

\* Copy of a Load segment to its address through the page table; a page that
\* is not mapped or not writable faults, a range outside the file panics.
CopySegment ==
    /\ pc = "map" /\ todo = {} /\ idx <= Len(segments)
    /\ LET s        == segments[idx]
           bytes    == copied(s)
           Lands(i, f, o) ==
               LET a == s.start + i
               IN  page_table[PageOf(a)].frame = f /\ a % PAGE = o
           writable == \A i \in bytes : Allowed(PageOf(s.start + i), "WRITABLE")
       IN  CASE s.ty # "Load" -> UNCHANGED <<pc, mem>>
             [] s.ty = "Load" /\ s.offset + s.filesz <= file.len /\ writable ->
                   /\ mem' = [f \in DOMAIN mem |-> [o \in 0 .. PAGE - 1 |->
                                LET here == {i \in bytes : Lands(i, f, o)}
                                IN  IF here = {} THEN mem[f][o] ELSE s.offset + Max(here)]]
                   /\ UNCHANGED pc
             [] OTHER -> pc' = "panicked" /\ UNCHANGED mem
    /\ idx' = idx + 1
    /\ UNCHANGED <<memory_map, file, next, page_table, tables, heap, elf, todo>>

StartProtect ==
    /\ pc = "map" /\ todo = {} /\ idx > Len(segments)
    /\ pc' = "protect"
    /\ todo' = DOMAIN pages_to_map
    /\ UNCHANGED <<memory_map, file, next, page_table, tables, mem, heap, elf, idx>>

\* A mutated form of final_flags: those the page was mapped with.
flags_as_mapped(p) == page_table[p].flags

final_flags(p) == pages_to_map[p]

\* update_flags for the pages that are not to be writable.
ProtectPage ==
    /\ pc = "protect" /\ todo # {}
    /\ LET p == Min(todo)
       IN  /\ page_table' = IF "WRITABLE" \in pages_to_map[p] THEN page_table
                            ELSE with(page_table, p, entry(page_table[p].frame, final_flags(p)))
           /\ todo' = todo \ {p}
    /\ UNCHANGED <<pc, memory_map, file, next, tables, mem, heap, elf, idx>>

EnterUserMode ==
    /\ pc = "protect" /\ todo = {}
    /\ pc' = "user"
    /\ UNCHANGED <<memory_map, file, next, page_table, tables, mem, heap, elf, todo, idx>>

Next ==
    \/ MapHeapPage \/ InitHeap \/ MapStackPage \/ ParseElf \/ MergeSegment
    \/ StartMap \/ MapElfPage \/ CopySegment \/ StartProtect \/ ProtectPage
    \/ EnterUserMode

Spec == Init /\ [][Next]_vars

\* Nothing else runs: kernel_main goes on.
FairSpec == Spec /\ WF_vars(Next)

-----------------------------------------------------------------------------
\* The segments of the file, where they belong once the text is in place.
Wanted == parse(file.headers)
Moved(a) == a + offset_to_apply(Wanted)
WantedIndices == 1 .. Len(Wanted)

\* The segment has a byte on the page; the page begins right after its last byte.
UsesPage(s, p) ==
    \E a \in Moved(s.start) .. Moved(s.start) + s.len - 1 : PageOf(a) = p
EndsAtPage(s, p) == Moved(s.start) + s.len = p * PAGE

TypeOK ==
    /\ pc \in {"heap", "stack", "merge", "map", "protect", "user", "panicked"}
    /\ next \in Nat /\ idx \in Nat \ {0}
    /\ heap \in BOOLEAN
    /\ \A p \in DOMAIN page_table : page_table[p].frame \in Nat
    /\ \A t \in DOMAIN tables : tables[t].frame \in Nat
    /\ todo \subseteq Nat

\* No frame backs two pages or tables, nor a page and a table, so neither the
\* kernel, the stack, the program nor the page tables overwrite each other.
FramesAreUsedOnce ==
    /\ \A p, q \in DOMAIN page_table : page_table[p].frame = page_table[q].frame => p = q
    /\ \A t, u \in DOMAIN tables : tables[t].frame = tables[u].frame => t = u
    /\ \A p \in DOMAIN page_table, t \in DOMAIN tables :
          page_table[p].frame # tables[t].frame

\* The heap is only allocated from once all of it is mapped, for the kernel
\* alone.
HeapIsBacked ==
    heap => \A a \in HEAP_START .. HEAP_START + HEAP_SIZE - 1 :
                /\ Allowed(PageOf(a), "WRITABLE")
                /\ ~Allowed(PageOf(a), "USER_ACCESSIBLE")

\* The byte the file wants at address a, Stale if none.
Image(a) ==
    LET here == {i \in WantedIndices : /\ Wanted[i].ty = "Load"
                                       /\ a - Moved(Wanted[i].start) \in 0 .. Wanted[i].filesz - 1}
    IN  IF here = {} THEN Stale
        ELSE Wanted[Max(here)].offset + a - Moved(Wanted[Max(here)].start)

\* User mode starts with the file bytes of every loaded segment at their
\* addresses, through the final page table, and the entry point moved with
\* them.  Nothing else on the program's pages is written: the rest of a segment
\* that is larger in memory than in the file is what the frames held before.
ImageIsLoaded ==
    pc = "user" =>
        /\ \A p \in DOMAIN pages_to_map, o \in 0 .. PAGE - 1 :
              mem[page_table[p].frame][o] = Image(p * PAGE + o)
        /\ entry_point = Moved(file.entry)

Rights == {"USER_ACCESSIBLE", "WRITABLE"}

\* Every page with a byte of a segment can be read, or written, if the segment
\* asks for that, and no page can be that no segment asks for.  The page that
\* begins where a segment ends, which `pages` counts too, may have what that
\* segment asks for as well.  The stack can be both, pages of the kernel neither.
PermissionsAreTheUnion ==
    pc = "user" =>
        /\ \A i \in WantedIndices, g \in Rights : g \in Wanted[i].flags =>
              \A a \in Moved(Wanted[i].start) .. Moved(Wanted[i].start) + Wanted[i].len - 1 :
                  Allowed(PageOf(a), g)
        /\ \A p \in DOMAIN pages_to_map, g \in Rights : Allowed(p, g) =>
              \E i \in WantedIndices :
                  g \in Wanted[i].flags /\ (UsesPage(Wanted[i], p) \/ EndsAtPage(Wanted[i], p))
        /\ \A p \in StackPages, g \in Rights : Allowed(p, g)
        /\ \A p \in DOMAIN page_table \ (DOMAIN pages_to_map \cup StackPages) :
              ~Allowed(p, "USER_ACCESSIBLE")

\* elf/types.rs: pages "Returns the pages used by thes section", so a page with
\* bytes of the program on it allows nothing but what segments with a byte on it
\* ask for.  (The page after a segment that ends on a page boundary is counted
\* too, so that the text there is writable if that segment is.)
PermissionsAreOfThePagesUsed ==
    pc = "user" =>
        \A p \in DOMAIN pages_to_map, g \in Rights :
            /\ Allowed(p, g)
            /\ \E i \in WantedIndices : UsesPage(Wanted[i], p)
            => \E i \in WantedIndices : g \in Wanted[i].flags /\ UsesPage(Wanted[i], p)

\* The program has text, collides with nothing mapped before it, is all in the
\* file, and there are frames for every page (as `pages` counts them) and table.
Fits ==
    LET segs    == relocated(file).segments
        program == UNION {pages(segs[i]) : i \in 1 .. Len(segs)}
        before  == HeapPages \cup StackPages
        all     == before \cup program
    IN  /\ TextIndices(Wanted) # {}
        /\ \A i \in WantedIndices :
              Wanted[i].ty = "Load" => Wanted[i].offset + Wanted[i].filesz <= file.len
        /\ program \cap (before \cup DOMAIN KernelPages) = {}
        /\ Cardinality(all) + Cardinality({TableOf(p) : p \in all} \ DOMAIN KernelTables)
              <= Len(usable_frames(memory_map))

\* A program that fits is started: no unwrap on the way can fail, no copy
\* faults.
BootSucceeds == Fits => <>(pc = "user")

\* elf/mod.rs: "if either one is executable, clear execute bit".  (The flags
\* are merged before the test, so the bit survives when the later segment is
\* not executable.)
ExecutablePagesStayExecutable ==
    pc = "user" =>
        \A i \in 1 .. Len(segments) : Executable(segments[i]) =>
            \A a \in segments[i].start .. segments[i].start + segments[i].len - 1 :
                "NO_EXECUTE" \notin page_table[PageOf(a)].flags
=============================================================================
