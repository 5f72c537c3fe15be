------------------------------ MODULE Syscall ------------------------------
(***************************************************************************)
(* System calls, from the stub of the user library (syscall/src/lib.rs) to *)
(* the sysret that leaves the kernel: the naked entry code (handler.rs),   *)
(* which switches GS base and stack by hand, the dispatcher, the checks of *)
(* user buffers (syscall/mod.rs) and the three calls (io.rs, process.rs).  *)
(*                                                                         *)
(* The steps are the instructions of the entry code, because an interrupt  *)
(* taken in user mode or after exit runs between them on whatever GS base  *)
(* and stack it finds.  Addresses and lengths are machine words; the two   *)
(* canonical halves of the address space have HALF bytes each.  Overflow   *)
(* panics, as in the dev profile that `cargo run` builds.                  *)
(***************************************************************************)
EXTENDS Integers, Sequences

CONSTANTS
    USIZE,            \* number of values of a usize
    HALF,             \* bytes in each canonical half of the address space
    PAGE,             \* bytes in a page
    PageFlags,        \* the page table: mapped page -> its flags
    Requests,         \* the calls user code makes: [num, ptr, len]
    Contexts,         \* [rip, rsp] of user code when it makes a call
    KTOP,             \* rsp at the entry of kernel_main
    RSP0              \* TSS privilege_stack_table[0]

ASSUME WordAssumption ==
    /\ USIZE \in Nat /\ HALF \in Nat /\ PAGE \in Nat \ {0}
    /\ 0 < HALF /\ 4 * HALF <= USIZE
    /\ Requests \subseteq [num : Nat, ptr : 0 .. USIZE - 1, len : 0 .. USIZE - 1]

\* kernel_main maps user memory in the lower half only (its stack below
\* 0xDEAE0000, the program at 0x660000).
ASSUME UserMemoryIsLow ==
    \A p \in DOMAIN PageFlags :
        p \in Nat /\ ("USER" \in PageFlags[p] => (p + 1) * PAGE <= HALF)

ASSUME StackAssumption ==
    /\ KTOP \in Nat /\ RSP0 \in Nat
    /\ Contexts \subseteq [rip : Nat, rsp : Nat]

ISIZE_MAX == USIZE \div 2 - 1
Read == 1
Write == 2
Exit == 3

VARIABLES
    cpl,          \* "user" or "kernel"
    pc,           \* next instruction of the thread
    rsp,
    interrupts,   \* the interrupt flag
    gs, kgs,      \* GS base and KERNEL_GS_BASE: "thread" or "user"
    rcx, r11, rax,
    thread,       \* ThreadData
    kstack,       \* what the entry code has pushed on the kernel stack
    req,          \* the arguments of the call
    frame,        \* the frame of the interrupt being handled
    irq,          \* an interrupt is being handled
    \* history
    caller,       \* rip and rsp of the user code that made the call
    result,       \* what inner() returned
    out           \* the user bytes print_bytes was given

regs == <<rcx, r11, rax>>
gsb  == <<gs, kgs>>
call == <<req, caller>>
done == <<result, out>>
intr == <<frame, irq>>
vars == <<cpl, pc, rsp, interrupts, gs, kgs, rcx, r11, rax, thread,
          kstack, req, frame, irq, caller, result, out>>

None == -1
NoCall == [num |-> 0, ptr |-> 0, len |-> 0]
NoResult == [tag |-> "none", val |-> 0]
Bytes(r) == r.ptr .. r.ptr + r.len - 1

-----------------------------------------------------------------------------
\* User buffers

\* x86_64::VirtAddr::try_new: canonical as it is, or once bit 47 is extended.
try_new(a) ==
    IF a < HALF \/ a >= USIZE - HALF THEN a
    ELSE IF a < 2 * HALF THEN a + USIZE - 2 * HALF
    ELSE None

\* `addr + n` on a VirtAddr; None where it panics.
virt_add(addr, n) == IF addr + n < USIZE THEN try_new(addr + n) ELSE None

check_user_addr(page, access) ==
    /\ page \in DOMAIN PageFlags
    /\ "USER" \in PageFlags[page]
    /\ access = "ReadWrite" => "WRITABLE" \in PageFlags[page]

\* Page::range_inclusive.
range_inclusive(first, last) ==
    {p \in 0 .. USIZE \div PAGE : first \div PAGE <= p /\ p <= last \div PAGE}

\* A mutated form of construct_user_slice: only the first page is checked.
construct_first_page(ptr, bytes, access) ==
    LET addr == try_new(ptr)
    IN  IF addr # None /\ bytes \in 1 .. ISIZE_MAX /\ check_user_addr(addr \div PAGE, access)
        THEN "ok" ELSE "InvalidArgument"

\* construct_user_slice and construct_user_slice_mut.  A length of zero makes
\* `bytes - 1` overflow; an end outside the canonical halves panics.
construct_user_slice(ptr, bytes, access) ==
    LET addr == try_new(ptr)
        last == virt_add(addr, bytes - 1)
    IN  IF addr = None \/ bytes > ISIZE_MAX THEN "InvalidArgument"
        ELSE IF bytes = 0 \/ last = None THEN "panic"
        ELSE IF \A p \in range_inclusive(addr, last) : check_user_addr(p, access)
        THEN "ok" ELSE "InvalidArgument"

-----------------------------------------------------------------------------
\* kernel_main has called init_thread_data; interrupts have never been on.
Init ==
    /\ cpl = "kernel" /\ pc = "boot"
    /\ rsp = KTOP /\ interrupts = FALSE
    /\ gs = "thread" /\ kgs = "user"
    /\ rcx = 0 /\ r11 = FALSE /\ rax = 0
    /\ thread = [kernel_rsp |-> KTOP, user_tmp_rsp |-> 0]
    /\ kstack = <<>>
    /\ req = NoCall /\ caller = [rip |-> 0, rsp |-> 0]
    /\ frame = [cpl |-> "kernel", rsp |-> 0] /\ irq = FALSE
    /\ result = NoResult /\ out = {}

\* enter_user_mode: swapgs, sysretq to the entry point with the flags of
\* user_mode_flags.
EnterUserMode(c) ==
    /\ pc = "boot"
    /\ rcx' = c.rip /\ r11' = TRUE
    /\ rsp' = c.rsp
    /\ gs' = kgs /\ kgs' = gs
    /\ cpl' = "user" /\ pc' = "user" /\ interrupts' = TRUE
    /\ UNCHANGED <<rax, thread, kstack, call, intr, done>>

\* A mutated form of UserSyscall: SFMask does not clear the interrupt flag.
SyscallKeepsFlags(c, r) ==
    /\ pc = "user" /\ ~irq
    /\ req' = r
    /\ caller' = c
    /\ rsp' = c.rsp
    /\ rcx' = c.rip /\ r11' = interrupts /\ rax' = 0
    /\ cpl' = "kernel" /\ pc' = "swapgs"
    /\ UNCHANGED <<interrupts, gsb, thread, kstack, intr, done>>

\* The stub and the syscall instruction: rcx and r11 take the return address
\* and the flags, SFMask clears the interrupt flag, LStar gives the target.
UserSyscall(c, r) ==
    /\ pc = "user" /\ ~irq
    /\ req' = r
    /\ caller' = c
    /\ rsp' = c.rsp
    /\ rcx' = c.rip /\ r11' = interrupts /\ rax' = 0
    /\ interrupts' = FALSE
    /\ cpl' = "kernel" /\ pc' = "swapgs"
    /\ UNCHANGED <<gsb, thread, kstack, intr, done>>

SwapGsIn ==
    /\ pc = "swapgs" /\ ~irq
    /\ gs' = kgs /\ kgs' = gs
    /\ pc' = "save_user_rsp"
    /\ UNCHANGED <<cpl, rsp, interrupts, regs, thread, kstack, call, intr, done>>

\* `mov gs:[user_tmp_rsp], rsp`
SaveUserRsp ==
    /\ pc = "save_user_rsp" /\ ~irq
    /\ thread' = [thread EXCEPT !.user_tmp_rsp = rsp]
    /\ pc' = "load_kernel_rsp"
    /\ UNCHANGED <<cpl, rsp, interrupts, gsb, regs, kstack, call, intr, done>>

\* `mov rsp, gs:[kernel_rsp]`
LoadKernelRsp ==
    /\ pc = "load_kernel_rsp" /\ ~irq
    /\ rsp' = thread.kernel_rsp
    /\ pc' = "push"
    /\ UNCHANGED <<cpl, interrupts, gsb, regs, thread, kstack, call, intr, done>>

\* `push rcx; push r11`, and the third argument goes from r10 to rcx.
PushRegs ==
    /\ pc = "push" /\ ~irq
    /\ kstack' = <<r11, rcx>> \o kstack
    /\ rsp' = rsp - 2
    /\ rcx' = req.len
    /\ pc' = "inner"
    /\ UNCHANGED <<cpl, interrupts, gsb, r11, rax, thread, call, intr, done>>

\* A mutated form of neg_err: the negation is not reduced to a word.
neg_err_wide(e) == USIZE - (IF e = "NoSys" THEN 0 ELSE 1)

\* -(e as u8 as isize) as usize
neg_err(e) == (USIZE - (IF e = "NoSys" THEN 0 ELSE 1)) % USIZE

Return(v, tag) ==
    /\ rax' = v
    /\ result' = [tag |-> tag, val |-> v]
    /\ pc' = "pop"

\* A mutated form of Known: the number is truncated to a u8.
KnownTruncated(num) == num % 256 \in {Read, Write, Exit}

\* syscall_num.try_into() twice: to a u8, then to a Syscall.
Known(num) == num \in 0 .. 255 /\ num \in {Read, Write, Exit}

\* The call may leave anything in the scratch registers.
Clobbered == r11' \in BOOLEAN /\ rcx' \in {0} \cup {c.rip : c \in Contexts}

\* No such system call.
InnerNoSys ==
    /\ pc = "inner" /\ ~irq
    /\ ~Known(req.num)
    /\ Return(neg_err("NoSys"), "NoSys")
    /\ Clobbered
    /\ UNCHANGED <<cpl, rsp, interrupts, gsb, thread, kstack, call, intr,
                   out>>

\* io::write and io::read with a buffer that passes the checks.  read returns
\* the length and stores nothing.
InnerIo ==
    /\ pc = "inner" /\ ~irq
    /\ Known(req.num) /\ req.num % 256 \in {Read, Write}
    /\ LET access == IF req.num % 256 = Read THEN "ReadWrite" ELSE "ReadOnly"
       IN  construct_user_slice(req.ptr, req.len, access) = "ok"
    /\ out' = IF req.num % 256 = Write THEN Bytes(req) ELSE {}
    /\ Return(req.len, "ok")
    /\ Clobbered
    /\ UNCHANGED <<cpl, rsp, interrupts, gsb, thread, kstack, call, intr>>

\* A buffer that fails the checks; a panic stops the machine in hlt_loop with
\* interrupts off.
InnerBadBuffer ==
    /\ pc = "inner" /\ ~irq
    /\ Known(req.num) /\ req.num % 256 \in {Read, Write}
    /\ LET access == IF req.num % 256 = Read THEN "ReadWrite" ELSE "ReadOnly"
           slice  == construct_user_slice(req.ptr, req.len, access)
       IN  /\ slice # "ok"
           /\ IF slice = "panic"
              THEN pc' = "panicked" /\ UNCHANGED <<rax, result>>
              ELSE Return(neg_err("InvalidArgument"), "InvalidArgument")
    /\ Clobbered
    /\ UNCHANGED <<cpl, rsp, interrupts, gsb, thread, kstack, call, intr,
                   out>>

\* process::exit: interrupts on, hlt_loop for ever, on the kernel stack.
InnerExit ==
    /\ pc = "inner" /\ ~irq
    /\ Known(req.num) /\ req.num % 256 = Exit
    /\ interrupts' = TRUE
    /\ pc' = "exited"
    /\ UNCHANGED <<cpl, rsp, gsb, regs, thread, kstack, call, intr, done>>

\* A mutated form of PopRegs: the two are popped in the order they were pushed.
PopRegsSwapped ==
    /\ pc = "pop" /\ ~irq
    /\ rcx' = IF kstack[1] THEN 1 ELSE 0
    /\ r11' = (kstack[2] # 0)
    /\ kstack' = Tail(Tail(kstack))
    /\ rsp' = rsp + 2
    /\ pc' = "save_kernel_rsp"
    /\ UNCHANGED <<cpl, interrupts, gsb, rax, thread, call, intr, done>>

\* `pop r11; pop rcx`
PopRegs ==
    /\ pc = "pop" /\ ~irq
    /\ r11' = kstack[1]
    /\ rcx' = kstack[2]
    /\ kstack' = Tail(Tail(kstack))
    /\ rsp' = rsp + 2
    /\ pc' = "save_kernel_rsp"
    /\ UNCHANGED <<cpl, interrupts, gsb, rax, thread, call, intr, done>>

\* A mutated form of SaveKernelRsp: the value of before the pops is stored.
SaveKernelRspEarly ==
    /\ pc = "save_kernel_rsp" /\ ~irq
    /\ thread' = [thread EXCEPT !.kernel_rsp = rsp - 2]
    /\ pc' = "restore_user_rsp"
    /\ UNCHANGED <<cpl, rsp, interrupts, gsb, regs, kstack, call, intr, done>>

\* `mov gs:[kernel_rsp], rsp`
SaveKernelRsp ==
    /\ pc = "save_kernel_rsp" /\ ~irq
    /\ thread' = [thread EXCEPT !.kernel_rsp = rsp]
    /\ pc' = "restore_user_rsp"
    /\ UNCHANGED <<cpl, rsp, interrupts, gsb, regs, kstack, call, intr, done>>

\* `mov rsp, gs:[user_tmp_rsp]`
RestoreUserRsp ==
    /\ pc = "restore_user_rsp" /\ ~irq
    /\ rsp' = thread.user_tmp_rsp
    /\ pc' = "swapgs_back"
    /\ UNCHANGED <<cpl, interrupts, gsb, regs, thread, kstack, call, intr, done>>

\* A mutated form of SwapGsOut: the instruction is missing.
SwapGsMissing ==
    /\ pc = "swapgs_back" /\ ~irq
    /\ pc' = "sysret"
    /\ UNCHANGED <<cpl, rsp, interrupts, gsb, regs, thread, kstack, call, intr, done>>

SwapGsOut ==
    /\ pc = "swapgs_back" /\ ~irq
    /\ gs' = kgs /\ kgs' = gs
    /\ pc' = "sysret"
    /\ UNCHANGED <<cpl, rsp, interrupts, regs, thread, kstack, call, intr, done>>

\* `sysretq`: user code goes on at rcx with the flags in r11.
Sysret ==
    /\ pc = "sysret" /\ ~irq
    /\ cpl' = "user" /\ pc' = "user"
    /\ interrupts' = r11
    /\ req' = NoCall /\ result' = NoResult /\ out' = {}
    /\ UNCHANGED <<rsp, gsb, regs, thread, kstack, caller, intr>>

-----------------------------------------------------------------------------
\* The timer or the keyboard interrupts: from user mode the CPU switches to
\* RSP0, in the kernel it stays on the current stack; GS base is left alone.
IrqEnter ==
    /\ interrupts
    /\ irq' = TRUE
    /\ frame' = [cpl |-> cpl, rsp |-> rsp]
    /\ cpl' = "kernel"
    /\ rsp' = IF cpl = "user" THEN RSP0 ELSE rsp
    /\ interrupts' = FALSE
    /\ UNCHANGED <<pc, gsb, regs, thread, kstack, call, done>>

\* iretq; the flag was set when the interrupt was taken.
IrqReturn ==
    /\ irq
    /\ irq' = FALSE
    /\ cpl' = frame.cpl /\ rsp' = frame.rsp /\ interrupts' = TRUE
    /\ frame' = [cpl |-> "kernel", rsp |-> 0]
    /\ UNCHANGED <<pc, gsb, regs, thread, kstack, call, done>>

Next ==
    \/ \E c \in Contexts :
          \/ EnterUserMode(c)
          \/ \E r \in Requests : UserSyscall(c, r)
    \/ SwapGsIn \/ SaveUserRsp \/ LoadKernelRsp \/ PushRegs
    \/ InnerNoSys \/ InnerIo \/ InnerBadBuffer \/ InnerExit
    \/ PopRegs \/ SaveKernelRsp \/ RestoreUserRsp \/ SwapGsOut \/ Sysret
    \/ IrqEnter \/ IrqReturn

Spec == Init /\ [][Next]_vars

-----------------------------------------------------------------------------
InHandler == {"save_user_rsp", "load_kernel_rsp", "push", "inner", "pop",
              "save_kernel_rsp", "restore_user_rsp", "swapgs_back"}

Labels == InHandler \cup {"boot", "user", "swapgs", "sysret", "exited", "panicked"}

TypeOK ==
    /\ cpl \in {"user", "kernel"}
    /\ pc \in Labels
    /\ rsp \in Int
    /\ interrupts \in BOOLEAN /\ irq \in BOOLEAN
    /\ gs \in {"thread", "user"} /\ kgs \in {"thread", "user"}
    /\ rcx \in Nat /\ r11 \in BOOLEAN /\ rax \in 0 .. USIZE - 1
    /\ thread \in [kernel_rsp : Int, user_tmp_rsp : Int]
    /\ kstack \in {<<>>} \cup (BOOLEAN \X Nat)
    /\ req \in Requests \cup {NoCall}
    /\ frame \in [cpl : {"user", "kernel"}, rsp : Int]
    /\ caller \in [rip : Nat, rsp : Nat]

\* sysret resumes the caller: at its return address, on its stack, with its
\* interrupt flag, although rcx, r11 and rsp were all overwritten on the way.
CallerIsResumed ==
    pc = "sysret" => rcx = caller.rip /\ rsp = caller.rsp /\ r11 = TRUE

\* One kernel stack is enough: between calls it is empty and ThreadData holds
\* its top, however many calls were made.
KernelStackIsEmpty ==
    pc \in {"user", "swapgs", "save_user_rsp", "load_kernel_rsp"} =>
        kstack = <<>> /\ thread.kernel_rsp = KTOP

\* GS base points to ThreadData wherever the entry code uses it, and never
\* while user code runs: every path executes swapgs an even number of times.
GsFollowsTheMode ==
    /\ pc \in InHandler => gs = "thread"
    /\ cpl = "user" => gs = "user"

\* The calling thread is never interrupted on the kernel stack while a call
\* that will return is in progress (exit, which never returns, is).
KernelStackIsNotShared ==
    irq => pc \in {"user", "exited"}

\* Every byte write prints, and every byte read may store to, is on a mapped
\* page that user code may itself read (write).
BuffersAreUserMemory ==
    pc = "pop" /\ result.tag = "ok" =>
        \A a \in Bytes(req) :
            /\ a \div PAGE \in DOMAIN PageFlags
            /\ "USER" \in PageFlags[a \div PAGE]
            /\ req.num = Read => "WRITABLE" \in PageFlags[a \div PAGE]

\* To the program a call is one step (module SyscallSpec): it goes on exactly
\* where it was, with the value and output that the number and the bytes of the
\* buffer call for, whatever the entry code and interrupts did meanwhile.
Position ==
    IF pc = "user" THEN [rip |-> rcx, rsp |-> IF irq THEN frame.rsp ELSE rsp] ELSE caller

Stage ==
    CASE pc \in {"boot", "user", "exited", "panicked"} -> pc
      [] pc \in {"swapgs", "save_user_rsp", "load_kernel_rsp", "push", "inner"} -> "called"
      [] OTHER -> "served"

Program == INSTANCE SyscallSpec WITH
    state <- Stage, where <- Position, request <- req, shown <- out,
    value <- IF Stage \in {"user", "served"} THEN rax ELSE 0
ImplementsSyscallSpec == Program!Spec

\* syscall/mod.rs, with_thread_data: "This also means that `with_thread_data`
\* can be accessed during interrupts to obtain access to kernel data".  (An
\* interrupt taken in user mode runs with the user's GS base.)
HandlersSeeThreadData == irq => gs = "thread"
=============================================================================
