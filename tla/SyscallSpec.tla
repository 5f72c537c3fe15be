---------------------------- MODULE SyscallSpec ----------------------------
(***************************************************************************)
(* What a system call is to the program that makes it: one request, served *)
(* at once, after which the program goes on where it was with the value of *)
(* the call.  Buffers are described byte by byte; there are no registers,  *)
(* stacks, pages to walk or interrupts here.                               *)
(***************************************************************************)
EXTENDS Integers

CONSTANTS USIZE, HALF, PAGE, PageFlags, Requests, Contexts   \* as in Syscall

VARIABLES
    state,      \* "boot", "user", "called", "served", "exited" or "panicked"
    where,      \* [rip, rsp] of the program
    request,    \* the call in progress
    value,      \* what it returns
    shown       \* the addresses of the bytes it prints

vars == <<state, where, request, value, shown>>

Read == 1
Write == 2
Exit == 3
NoRequest == [num |-> 0, ptr |-> 0, len |-> 0]
Buffer(r) == r.ptr .. r.ptr + r.len - 1

\* What the program could itself do to the bytes of the buffer.
Needed(r) == IF r.num = Read THEN {"USER", "WRITABLE"} ELSE {"USER"}
Good(r) ==
    /\ r.len > 0
    /\ \A a \in Buffer(r) : /\ a \div PAGE \in DOMAIN PageFlags
                            /\ Needed(r) \subseteq PageFlags[a \div PAGE]

\* A call may bring the machine down if its buffer is empty, or does not lie
\* in the lower half of the address space.
Fatal(r) == r.len = 0 \/ r.ptr + r.len > HALF

Init ==
    /\ state = "boot" /\ where = [rip |-> 0, rsp |-> 0]
    /\ request = NoRequest /\ value = 0 /\ shown = {}

Start(c) ==
    /\ state = "boot"
    /\ state' = "user" /\ where' = c
    /\ UNCHANGED <<request, value, shown>>

Call(c, r) ==
    /\ state = "user"
    /\ state' = "called" /\ where' = c /\ request' = r /\ value' = 0
    /\ UNCHANGED shown

Answer(v, bytes) == state' = "served" /\ value' = v /\ shown' = bytes
Stop(s) == state' = s /\ UNCHANGED <<value, shown>>

Serve ==
    /\ state = "called"
    /\ \/ request.num \notin {Read, Write, Exit} /\ Answer(0, {})
       \/ request.num = Read /\ Good(request) /\ Answer(request.len, {})
       \/ request.num = Write /\ Good(request) /\ Answer(request.len, Buffer(request))
       \/ request.num \in {Read, Write} /\ ~Good(request) /\ Answer(USIZE - 1, {})
       \/ request.num \in {Read, Write} /\ Fatal(request) /\ Stop("panicked")
       \/ request.num = Exit /\ Stop("exited")
    /\ UNCHANGED <<where, request>>

\* The program goes on where it made the call.
Return ==
    /\ state = "served"
    /\ state' = "user" /\ request' = NoRequest /\ shown' = {}
    /\ UNCHANGED <<where, value>>

Next ==
    \/ \E c \in Contexts : Start(c) \/ \E r \in Requests : Call(c, r)
    \/ Serve \/ Return

Spec == Init /\ [][Next]_vars
=============================================================================
