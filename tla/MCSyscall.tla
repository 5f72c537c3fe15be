----------------------------- MODULE MCSyscall -----------------------------
\* Small instances of Syscall: 32 addresses, pages of two bytes, canonical
\* halves of eight bytes.
EXTENDS Syscall, TLC

\* Page 0 is unmapped; 1 is user data, 2 user text, 3 and 12 kernel memory.
MCPageFlags ==
    1 :> {"USER", "WRITABLE"} @@ 2 :> {"USER"} @@ 3 :> {"WRITABLE"}
      @@ 12 :> {"WRITABLE"}
\* Every buffer there is, and one call of each other kind (259 is 3 as a u8).
MCRequests ==
    [num : {1, 2}, ptr : 0 .. 31, len : 0 .. 31]
      \cup [num : {3, 4, 259}, ptr : {2}, len : {1}]
MCContexts == {[rip |-> 7, rsp |-> 50], [rip |-> 8, rsp |-> 60]}
=============================================================================
