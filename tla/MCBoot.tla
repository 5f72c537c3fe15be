------------------------------- MODULE MCBoot -------------------------------
\* Small instances of Boot: pages of two bytes, eight pages under a table.
EXTENDS Boot, TLC

\* Frames 3 and 4 hold the kernel and its page table.
Region(a, b, t) == [start |-> a, end |-> b, type |-> t]
MCMemoryMaps ==
    {<<Region(1, 3, "Usable"), Region(3, 5, "Kernel"), Region(5, 16, "Usable")>>,
     <<Region(1, 3, "Usable"), Region(3, 5, "Kernel"), Region(5, 12, "Usable")>>}

\* The kernel and the program share a table, as they do at the upper levels.
MCKernelPages == 6 :> [frame |-> 3, flags |-> {"PRESENT", "WRITABLE"}]
MCKernelTables == 0 :> [frame |-> 4, flags |-> {"PRESENT", "WRITABLE"}]

\* Text, and one more segment that may share its pages, come before it, or
\* collide with the kernel.
Header(ty, flags, offset, filesz, vaddr, memsz) ==
    [ty |-> ty, flags |-> flags, offset |-> offset, filesz |-> filesz,
     vaddr |-> vaddr, memsz |-> memsz]
Texts == {Header("Load", f, 0, n, 3, n) : f \in {{"R", "X"}, {"X"}}, n \in 1 .. 3}
Others ==
    {Header(ty, f, 3, sz[1], v, sz[2]) :
        ty \in {"Load", "Note", "Null"}, f \in {{"R"}, {"R", "W"}, {"W"}, {"R", "X"}},
        sz \in {<<0, 0>>, <<0, 2>>, <<1, 1>>, <<1, 3>>, <<2, 2>>},
        v \in {0, 1, 4, 5, 6, 7, 8}}

\* Load segments of a well-formed file do not overlap.  A file may also have no
\* text, or be cut short.
Apart(h, g) ==
    h.ty = "Load" /\ g.ty = "Load" =>
        h.vaddr + h.memsz <= g.vaddr \/ g.vaddr + g.memsz <= h.vaddr
Pairs == {p \in Texts \X Others : Apart(p[1], p[2])}
MCFiles ==
    [len : {5}, entry : {3}, headers : {<<p[1], p[2]>> : p \in Pairs}
                                        \cup {<<p[2], p[1]>> : p \in Pairs}]
      \cup [len : {1, 5}, entry : {3}, headers : {<<Header("Load", {"R"}, 0, 1, 3, 1)>>,
                                                  <<Header("Load", {"R", "X"}, 0, 2, 3, 2)>>}]
=============================================================================
