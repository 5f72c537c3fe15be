--------------------------- MODULE SyscallProofs ---------------------------
(***************************************************************************)
(* The entry code of system calls restores what it must, for every number  *)
(* of calls, user context and buffer.  The inductive invariant gives the   *)
(* contents of GS base, the stack pointers and the saved registers at      *)
(* every instruction.                                                      *)
(***************************************************************************)
EXTENDS Syscall, TLAPS

AtEntry == {"swapgs", "save_user_rsp", "load_kernel_rsp"}
AtExit == {"swapgs_back", "sysret"}

\* Interrupts are on, or one is being handled, only in user code and after
\* exit.
Flags ==
    /\ irq \/ interrupts => pc \in {"user", "exited"}
    /\ irq => ~interrupts
    /\ pc = "user" /\ ~irq => interrupts /\ cpl = "user"
    /\ pc = "user" /\ irq => frame.cpl = "user"
    /\ pc # "user" => cpl = "kernel" /\ (irq => frame.cpl = "kernel")

GsBases ==
    IF pc \in {"user", "swapgs", "sysret"}
    THEN gs = "user" /\ kgs = "thread"
    ELSE gs = "thread" /\ kgs = "user"

Stacks ==
    /\ thread.kernel_rsp = KTOP
    /\ pc \in {"inner", "pop"} => kstack = <<TRUE, caller.rip>> /\ rsp = KTOP - 2
    /\ pc \notin {"inner", "pop", "exited", "panicked"} => kstack = <<>>
    /\ pc \in {"push", "save_kernel_rsp"} => rsp = KTOP
    /\ pc \in AtEntry \cup AtExit => rsp = caller.rsp
    /\ pc \in InHandler \ {"save_user_rsp"} => thread.user_tmp_rsp = caller.rsp
    /\ pc \in AtEntry \cup AtExit \cup {"push", "save_kernel_rsp", "restore_user_rsp"}
          => rcx = caller.rip /\ r11 = TRUE

Calls ==
    pc \in InHandler \cup {"swapgs"} => req \in Requests

\* A call has printed nothing before it is served.
Quiet ==
    /\ Stage # "served" => out = {}
    /\ pc = "boot" => rax = 0

IInv == TypeOK /\ Flags /\ GsBases /\ Stacks /\ Calls /\ BuffersAreUserMemory /\ Quiet

-----------------------------------------------------------------------------
\* Division by the page size is monotonic.
LEMMA PageOrder ==
    ASSUME NEW a \in Nat, NEW b \in Nat, a <= b
    PROVE  a \div PAGE \in Nat /\ a \div PAGE <= b \div PAGE
<1>1. PAGE \in Nat /\ PAGE > 0 BY WordAssumption
<1>. DEFINE p == a \div PAGE
            q == b \div PAGE
<1>2. p \in Nat /\ q \in Nat BY <1>1
<1>3. PAGE * p <= a /\ b < PAGE * (q + 1) BY <1>1
<1>4. p < q + 1
  <2>. SUFFICES ASSUME p >= q + 1 PROVE FALSE BY <1>2
  <2>. HIDE DEF p, q
  <2>1. PAGE * p >= PAGE * (q + 1) BY <1>1, <1>2
  <2>. QED BY <1>1, <1>2, <1>3, <2>1
<1>. QED BY <1>2, <1>4

\* A slice the kernel constructs lies in pages that passed check_user_addr:
\* the first page is user memory, hence low, so `ptr` was not sign-extended.
LEMMA SliceIsChecked ==
    ASSUME NEW ptr \in 0 .. USIZE - 1, NEW bytes \in 0 .. USIZE - 1, NEW access,
           construct_user_slice(ptr, bytes, access) = "ok"
    PROVE  \A a \in ptr .. ptr + bytes - 1 : check_user_addr(a \div PAGE, access)
<1>. DEFINE addr == try_new(ptr)
            last == virt_add(addr, bytes - 1)
<1>1. /\ addr # None /\ bytes # 0 /\ last # None
      /\ \A p \in range_inclusive(addr, last) : check_user_addr(p, access)
  BY DEF construct_user_slice
<1>2. addr \in Nat /\ addr >= ptr /\ (addr = ptr \/ addr >= HALF) /\ addr < USIZE
  BY <1>1, WordAssumption DEF try_new, None
<1>. HIDE DEF addr
<1>3. addr + (bytes - 1) < USIZE /\ last = try_new(addr + (bytes - 1))
  BY <1>1 DEF virt_add
<1>4. last \in Nat /\ last >= addr + (bytes - 1)
  BY <1>1, <1>2, <1>3, WordAssumption DEF try_new, None
<1>. HIDE DEF last
<1>5. ASSUME NEW a \in addr .. addr + bytes - 1
      PROVE  a \div PAGE \in range_inclusive(addr, last)
  <2>1. a \in Nat /\ addr <= a /\ a <= last /\ a <= USIZE /\ USIZE \in Nat
    BY <1>2, <1>3, <1>4, WordAssumption
  <2>2. /\ a \div PAGE \in Nat
        /\ addr \div PAGE <= a \div PAGE
        /\ a \div PAGE <= last \div PAGE
        /\ a \div PAGE <= USIZE \div PAGE
        /\ USIZE \div PAGE \in Nat
    BY <1>2, <1>4, <2>1, PageOrder
  <2>. QED BY <2>2 DEF range_inclusive
<1>6. check_user_addr(addr \div PAGE, access)
  BY <1>1, <1>2, <1>5
<1>7. addr < HALF
  <2>. DEFINE p == addr \div PAGE
  <2>1. p \in Nat /\ (p + 1) * PAGE <= HALF
    BY <1>6, UserMemoryIsLow DEF check_user_addr
  <2>2. addr < (p + 1) * PAGE BY <1>2, WordAssumption
  <2>3. (p + 1) * PAGE \in Nat BY <2>1, WordAssumption
  <2>. HIDE DEF p
  <2>. QED BY <1>2, <2>1, <2>2, <2>3, WordAssumption
<1>8. addr = ptr BY <1>2, <1>7, WordAssumption
<1>. QED BY <1>1, <1>5, <1>8

\* An error code is a word.
LEMMA ErrorIsWord ==
    ASSUME NEW e
    PROVE  neg_err(e) \in 0 .. USIZE - 1
BY WordAssumption DEF neg_err

\* Pushing a pair on an empty stack, and popping it.
LEMMA PushPair ==
    ASSUME NEW x, NEW y
    PROVE  <<x, y>> \o <<>> = <<x, y>> /\ Tail(Tail(<<x, y>>)) = <<>>
<1>1. <<x, y>> \o <<>> = <<x, y>> OBVIOUS
<1>2. Tail(<<x, y>>) = <<y>> OBVIOUS
<1>3. Tail(<<y>>) = <<>> OBVIOUS
<1>. QED BY <1>1, <1>2, <1>3

-----------------------------------------------------------------------------
LEMMA InitIInv == Init => IInv
<1>. SUFFICES ASSUME Init PROVE IInv OBVIOUS
<1>. USE WordAssumption, StackAssumption DEF Init
<1>1. TypeOK
  <2>1. interrupts \in BOOLEAN /\ irq \in BOOLEAN /\ r11 \in BOOLEAN OBVIOUS
  <2>2. kstack \in {<<>>} \cup (BOOLEAN \X Nat) OBVIOUS
  <2>3. rsp \in Int /\ rcx \in Nat /\ rax \in 0 .. USIZE - 1 OBVIOUS
  <2>4. /\ thread \in [kernel_rsp : Int, user_tmp_rsp : Int]
        /\ caller \in [rip : Nat, rsp : Nat]
        /\ frame \in [cpl : {"user", "kernel"}, rsp : Int]
        /\ req \in Requests \cup {NoCall}
    OBVIOUS
  <2>5. /\ pc \in Labels /\ cpl \in {"user", "kernel"}
        /\ gs \in {"thread", "user"} /\ kgs \in {"thread", "user"}
    BY DEF Labels
  <2>. QED BY <2>1, <2>2, <2>3, <2>4, <2>5 DEF TypeOK
<1>2. Flags BY DEF Flags
<1>3. GsBases BY DEF GsBases
<1>4. Stacks BY DEF Stacks, InHandler, AtEntry, AtExit
<1>5. Calls BY DEF Calls, InHandler
<1>6. BuffersAreUserMemory BY DEF BuffersAreUserMemory
<1>7. Quiet BY DEF Quiet, Stage
<1>. QED BY <1>1, <1>2, <1>3, <1>4, <1>5, <1>6, <1>7 DEF IInv

-----------------------------------------------------------------------------

\* Every step keeps the types.
LEMMA TypeStep == TypeOK /\ Stacks /\ Calls /\ Next => TypeOK'
<1>. SUFFICES ASSUME TypeOK, Stacks, Calls, Next PROVE TypeOK' OBVIOUS
<1>. USE WordAssumption, StackAssumption
     DEF TypeOK, regs, gsb, call, done, intr, Labels, InHandler
<1>1. ASSUME NEW c \in Contexts, EnterUserMode(c) PROVE TypeOK'
  BY <1>1 DEF EnterUserMode
<1>2. ASSUME NEW c \in Contexts, NEW r \in Requests, UserSyscall(c, r)
      PROVE  TypeOK'
  <2>1. interrupts' \in BOOLEAN /\ irq' \in BOOLEAN BY <1>2 DEF UserSyscall
  <2>2. r11' \in BOOLEAN BY <1>2 DEF UserSyscall
  <2>3. kstack' \in {<<>>} \cup (BOOLEAN \X Nat) BY <1>2 DEF UserSyscall
  <2>4. rsp' \in Int /\ rcx' \in Nat BY <1>2 DEF UserSyscall
  <2>5. rax' \in 0 .. USIZE - 1 BY <1>2 DEF UserSyscall
  <2>6. /\ thread' \in [kernel_rsp : Int, user_tmp_rsp : Int]
        /\ caller' \in [rip : Nat, rsp : Nat]
        /\ frame' \in [cpl : {"user", "kernel"}, rsp : Int]
    BY <1>2 DEF UserSyscall
  <2>7. req' \in Requests \cup {NoCall} BY <1>2 DEF UserSyscall
  <2>8. /\ pc' \in Labels /\ cpl' \in {"user", "kernel"}
        /\ gs' \in {"thread", "user"} /\ kgs' \in {"thread", "user"}
    BY <1>2 DEF UserSyscall
  <2>. QED BY <2>1, <2>2, <2>3, <2>4, <2>5, <2>6, <2>7, <2>8 DEF TypeOK
<1>3. CASE SwapGsIn BY <1>3 DEF SwapGsIn
<1>4. CASE SaveUserRsp BY <1>4 DEF SaveUserRsp
<1>5. CASE LoadKernelRsp BY <1>5 DEF LoadKernelRsp
<1>6. CASE PushRegs
  <2>1. interrupts' \in BOOLEAN /\ irq' \in BOOLEAN BY <1>6 DEF PushRegs, Stacks, Calls
  <2>2. r11' \in BOOLEAN BY <1>6 DEF PushRegs, Stacks, Calls
  <2>3. kstack' \in {<<>>} \cup (BOOLEAN \X Nat) 
    <3>1. kstack = <<>> BY <1>6 DEF PushRegs, Stacks
    <3>2. kstack' = <<r11, rcx>> BY <1>6, <3>1, PushPair DEF PushRegs
    <3>. QED BY <3>2
  <2>4. rsp' \in Int /\ rcx' \in Nat BY <1>6 DEF PushRegs, Stacks, Calls
  <2>5. rax' \in 0 .. USIZE - 1 BY <1>6 DEF PushRegs, Stacks, Calls
  <2>6. /\ thread' \in [kernel_rsp : Int, user_tmp_rsp : Int]
        /\ caller' \in [rip : Nat, rsp : Nat]
        /\ frame' \in [cpl : {"user", "kernel"}, rsp : Int]
    BY <1>6 DEF PushRegs, Stacks, Calls
  <2>7. req' \in Requests \cup {NoCall} BY <1>6 DEF PushRegs, Stacks, Calls
  <2>8. /\ pc' \in Labels /\ cpl' \in {"user", "kernel"}
        /\ gs' \in {"thread", "user"} /\ kgs' \in {"thread", "user"}
    BY <1>6 DEF PushRegs, Stacks, Calls
  <2>. QED BY <2>1, <2>2, <2>3, <2>4, <2>5, <2>6, <2>7, <2>8 DEF TypeOK
<1>7. CASE InnerNoSys
  <2>1. interrupts' \in BOOLEAN /\ irq' \in BOOLEAN BY <1>7 DEF InnerNoSys, Return, Clobbered
  <2>2. r11' \in BOOLEAN BY <1>7 DEF InnerNoSys, Return, Clobbered
  <2>3. kstack' \in {<<>>} \cup (BOOLEAN \X Nat) BY <1>7 DEF InnerNoSys, Return, Clobbered
  <2>4. rsp' \in Int /\ rcx' \in Nat BY <1>7 DEF InnerNoSys, Return, Clobbered
  <2>5. rax' \in 0 .. USIZE - 1 BY <1>7, ErrorIsWord DEF InnerNoSys, Return, Clobbered
  <2>6. /\ thread' \in [kernel_rsp : Int, user_tmp_rsp : Int]
        /\ caller' \in [rip : Nat, rsp : Nat]
        /\ frame' \in [cpl : {"user", "kernel"}, rsp : Int]
    BY <1>7 DEF InnerNoSys, Return, Clobbered
  <2>7. req' \in Requests \cup {NoCall} BY <1>7 DEF InnerNoSys, Return, Clobbered
  <2>8. /\ pc' \in Labels /\ cpl' \in {"user", "kernel"}
        /\ gs' \in {"thread", "user"} /\ kgs' \in {"thread", "user"}
    BY <1>7 DEF InnerNoSys, Return, Clobbered
  <2>. QED BY <2>1, <2>2, <2>3, <2>4, <2>5, <2>6, <2>7, <2>8 DEF TypeOK
<1>8. CASE InnerIo
  <2>1. interrupts' \in BOOLEAN /\ irq' \in BOOLEAN BY <1>8 DEF InnerIo, Return, Clobbered, Calls
  <2>2. r11' \in BOOLEAN BY <1>8 DEF InnerIo, Return, Clobbered, Calls
  <2>3. kstack' \in {<<>>} \cup (BOOLEAN \X Nat) BY <1>8 DEF InnerIo, Return, Clobbered, Calls
  <2>4. rsp' \in Int /\ rcx' \in Nat BY <1>8 DEF InnerIo, Return, Clobbered, Calls
  <2>5. rax' \in 0 .. USIZE - 1 BY <1>8 DEF InnerIo, Return, Clobbered, Calls
  <2>6. /\ thread' \in [kernel_rsp : Int, user_tmp_rsp : Int]
        /\ caller' \in [rip : Nat, rsp : Nat]
        /\ frame' \in [cpl : {"user", "kernel"}, rsp : Int]
    BY <1>8 DEF InnerIo, Return, Clobbered, Calls
  <2>7. req' \in Requests \cup {NoCall} BY <1>8 DEF InnerIo, Return, Clobbered, Calls
  <2>8. /\ pc' \in Labels /\ cpl' \in {"user", "kernel"}
        /\ gs' \in {"thread", "user"} /\ kgs' \in {"thread", "user"}
    BY <1>8 DEF InnerIo, Return, Clobbered, Calls
  <2>. QED BY <2>1, <2>2, <2>3, <2>4, <2>5, <2>6, <2>7, <2>8 DEF TypeOK
<1>9. CASE InnerBadBuffer
  <2>1. interrupts' \in BOOLEAN /\ irq' \in BOOLEAN BY <1>9 DEF InnerBadBuffer, Return, Clobbered
  <2>2. r11' \in BOOLEAN BY <1>9 DEF InnerBadBuffer, Return, Clobbered
  <2>3. kstack' \in {<<>>} \cup (BOOLEAN \X Nat) BY <1>9 DEF InnerBadBuffer, Return, Clobbered
  <2>4. rsp' \in Int /\ rcx' \in Nat BY <1>9 DEF InnerBadBuffer, Return, Clobbered
  <2>5. rax' \in 0 .. USIZE - 1 BY <1>9, ErrorIsWord DEF InnerBadBuffer, Return, Clobbered
  <2>6. /\ thread' \in [kernel_rsp : Int, user_tmp_rsp : Int]
        /\ caller' \in [rip : Nat, rsp : Nat]
        /\ frame' \in [cpl : {"user", "kernel"}, rsp : Int]
    BY <1>9 DEF InnerBadBuffer, Return, Clobbered
  <2>7. req' \in Requests \cup {NoCall} BY <1>9 DEF InnerBadBuffer, Return, Clobbered
  <2>8. /\ pc' \in Labels /\ cpl' \in {"user", "kernel"}
        /\ gs' \in {"thread", "user"} /\ kgs' \in {"thread", "user"}
    BY <1>9 DEF InnerBadBuffer, Return, Clobbered
  <2>. QED BY <2>1, <2>2, <2>3, <2>4, <2>5, <2>6, <2>7, <2>8 DEF TypeOK
<1>10. CASE InnerExit BY <1>10 DEF InnerExit
<1>11. CASE PopRegs
  <2>1. interrupts' \in BOOLEAN /\ irq' \in BOOLEAN BY <1>11 DEF PopRegs, Stacks
  <2>2. r11' \in BOOLEAN BY <1>11 DEF PopRegs, Stacks
  <2>3. kstack' \in {<<>>} \cup (BOOLEAN \X Nat) BY <1>11, PushPair DEF PopRegs, Stacks
  <2>4. rsp' \in Int /\ rcx' \in Nat BY <1>11 DEF PopRegs, Stacks
  <2>5. rax' \in 0 .. USIZE - 1 BY <1>11 DEF PopRegs, Stacks
  <2>6. /\ thread' \in [kernel_rsp : Int, user_tmp_rsp : Int]
        /\ caller' \in [rip : Nat, rsp : Nat]
        /\ frame' \in [cpl : {"user", "kernel"}, rsp : Int]
    BY <1>11 DEF PopRegs, Stacks
  <2>7. req' \in Requests \cup {NoCall} BY <1>11 DEF PopRegs, Stacks
  <2>8. /\ pc' \in Labels /\ cpl' \in {"user", "kernel"}
        /\ gs' \in {"thread", "user"} /\ kgs' \in {"thread", "user"}
    BY <1>11 DEF PopRegs, Stacks
  <2>. QED BY <2>1, <2>2, <2>3, <2>4, <2>5, <2>6, <2>7, <2>8 DEF TypeOK
<1>12. CASE SaveKernelRsp BY <1>12 DEF SaveKernelRsp
<1>13. CASE RestoreUserRsp BY <1>13 DEF RestoreUserRsp
<1>14. CASE SwapGsOut BY <1>14 DEF SwapGsOut
<1>15. CASE Sysret BY <1>15 DEF Sysret
<1>16. CASE IrqEnter
  <2>1. interrupts' \in BOOLEAN /\ irq' \in BOOLEAN BY <1>16 DEF IrqEnter
  <2>2. r11' \in BOOLEAN BY <1>16 DEF IrqEnter
  <2>3. kstack' \in {<<>>} \cup (BOOLEAN \X Nat) BY <1>16 DEF IrqEnter
  <2>4. rsp' \in Int /\ rcx' \in Nat BY <1>16 DEF IrqEnter
  <2>5. rax' \in 0 .. USIZE - 1 BY <1>16 DEF IrqEnter
  <2>6. /\ thread' \in [kernel_rsp : Int, user_tmp_rsp : Int]
        /\ caller' \in [rip : Nat, rsp : Nat]
        /\ frame' \in [cpl : {"user", "kernel"}, rsp : Int]
    BY <1>16 DEF IrqEnter
  <2>7. req' \in Requests \cup {NoCall} BY <1>16 DEF IrqEnter
  <2>8. /\ pc' \in Labels /\ cpl' \in {"user", "kernel"}
        /\ gs' \in {"thread", "user"} /\ kgs' \in {"thread", "user"}
    BY <1>16 DEF IrqEnter
  <2>. QED BY <2>1, <2>2, <2>3, <2>4, <2>5, <2>6, <2>7, <2>8 DEF TypeOK
<1>17. CASE IrqReturn
  <2>1. interrupts' \in BOOLEAN /\ irq' \in BOOLEAN BY <1>17 DEF IrqReturn
  <2>2. r11' \in BOOLEAN BY <1>17 DEF IrqReturn
  <2>3. kstack' \in {<<>>} \cup (BOOLEAN \X Nat) BY <1>17 DEF IrqReturn
  <2>4. rsp' \in Int /\ rcx' \in Nat BY <1>17 DEF IrqReturn
  <2>5. rax' \in 0 .. USIZE - 1 BY <1>17 DEF IrqReturn
  <2>6. /\ thread' \in [kernel_rsp : Int, user_tmp_rsp : Int]
        /\ caller' \in [rip : Nat, rsp : Nat]
        /\ frame' \in [cpl : {"user", "kernel"}, rsp : Int]
    BY <1>17 DEF IrqReturn
  <2>7. req' \in Requests \cup {NoCall} BY <1>17 DEF IrqReturn
  <2>8. /\ pc' \in Labels /\ cpl' \in {"user", "kernel"}
        /\ gs' \in {"thread", "user"} /\ kgs' \in {"thread", "user"}
    BY <1>17 DEF IrqReturn
  <2>. QED BY <2>1, <2>2, <2>3, <2>4, <2>5, <2>6, <2>7, <2>8 DEF TypeOK
<1>. QED
  BY <1>1, <1>2, <1>3, <1>4, <1>5, <1>6, <1>7, <1>8, <1>9, <1>10, <1>11, <1>12,
     <1>13, <1>14, <1>15, <1>16, <1>17 DEF Next

\* Interrupts stay off in the entry code.
LEMMA FlagsStep == TypeOK /\ Flags /\ Stacks /\ Next => Flags'
<1>. SUFFICES ASSUME TypeOK, Flags, Stacks, Next PROVE Flags' OBVIOUS
<1>. USE DEF TypeOK, Flags, Stacks, AtExit, regs, gsb, call, done, intr, Labels, InHandler
<1>1. ASSUME NEW c \in Contexts, EnterUserMode(c) PROVE Flags'
  BY <1>1 DEF EnterUserMode
<1>2. ASSUME NEW c \in Contexts, NEW r \in Requests, UserSyscall(c, r)
      PROVE  Flags'
  BY <1>2 DEF UserSyscall
<1>3. CASE SwapGsIn BY <1>3 DEF SwapGsIn
<1>4. CASE SaveUserRsp BY <1>4 DEF SaveUserRsp
<1>5. CASE LoadKernelRsp BY <1>5 DEF LoadKernelRsp
<1>6. CASE PushRegs BY <1>6 DEF PushRegs
<1>7. CASE InnerNoSys BY <1>7 DEF InnerNoSys, Return, Clobbered
<1>8. CASE InnerIo BY <1>8 DEF InnerIo, Return, Clobbered
<1>9. CASE InnerBadBuffer BY <1>9 DEF InnerBadBuffer, Return, Clobbered
<1>10. CASE InnerExit BY <1>10 DEF InnerExit
<1>11. CASE PopRegs BY <1>11 DEF PopRegs
<1>12. CASE SaveKernelRsp BY <1>12 DEF SaveKernelRsp
<1>13. CASE RestoreUserRsp BY <1>13 DEF RestoreUserRsp
<1>14. CASE SwapGsOut BY <1>14 DEF SwapGsOut
<1>15. CASE Sysret BY <1>15 DEF Sysret
<1>16. CASE IrqEnter BY <1>16 DEF IrqEnter
<1>17. CASE IrqReturn BY <1>17 DEF IrqReturn
<1>. QED
  BY <1>1, <1>2, <1>3, <1>4, <1>5, <1>6, <1>7, <1>8, <1>9, <1>10, <1>11, <1>12,
     <1>13, <1>14, <1>15, <1>16, <1>17 DEF Next

\* swapgs is executed in pairs.
LEMMA GsStep == TypeOK /\ Flags /\ GsBases /\ Next => GsBases'
<1>. SUFFICES ASSUME TypeOK, Flags, GsBases, Next PROVE GsBases' OBVIOUS
<1>. USE DEF TypeOK, Flags, GsBases, regs, gsb, call, done, intr
<1>1. ASSUME NEW c \in Contexts, EnterUserMode(c) PROVE GsBases'
  BY <1>1 DEF EnterUserMode
<1>2. ASSUME NEW c \in Contexts, NEW r \in Requests, UserSyscall(c, r)
      PROVE  GsBases'
  BY <1>2 DEF UserSyscall
<1>3. CASE SwapGsIn BY <1>3 DEF SwapGsIn
<1>4. CASE SaveUserRsp BY <1>4 DEF SaveUserRsp
<1>5. CASE LoadKernelRsp BY <1>5 DEF LoadKernelRsp
<1>6. CASE PushRegs BY <1>6 DEF PushRegs
<1>7. CASE InnerNoSys BY <1>7 DEF InnerNoSys, Return, Clobbered
<1>8. CASE InnerIo BY <1>8 DEF InnerIo, Return, Clobbered
<1>9. CASE InnerBadBuffer BY <1>9 DEF InnerBadBuffer, Return, Clobbered
<1>10. CASE InnerExit BY <1>10 DEF InnerExit
<1>11. CASE PopRegs BY <1>11 DEF PopRegs
<1>12. CASE SaveKernelRsp BY <1>12 DEF SaveKernelRsp
<1>13. CASE RestoreUserRsp BY <1>13 DEF RestoreUserRsp
<1>14. CASE SwapGsOut BY <1>14 DEF SwapGsOut
<1>15. CASE Sysret BY <1>15 DEF Sysret
<1>16. CASE IrqEnter BY <1>16 DEF IrqEnter
<1>17. CASE IrqReturn BY <1>17 DEF IrqReturn
<1>. QED
  BY <1>1, <1>2, <1>3, <1>4, <1>5, <1>6, <1>7, <1>8, <1>9, <1>10, <1>11, <1>12,
     <1>13, <1>14, <1>15, <1>16, <1>17 DEF Next

\* The saved registers and the stack pointers keep their values.
LEMMA StacksStep == TypeOK /\ Flags /\ Stacks /\ Next => Stacks'
<1>. SUFFICES ASSUME TypeOK, Flags, Stacks, Next PROVE Stacks' OBVIOUS
<1>. USE StackAssumption
     DEF TypeOK, Flags, Stacks, AtEntry, AtExit, InHandler, regs, gsb, call, done, intr
<1>1. ASSUME NEW c \in Contexts, EnterUserMode(c) PROVE Stacks'
  BY <1>1 DEF EnterUserMode
<1>2. ASSUME NEW c \in Contexts, NEW r \in Requests, UserSyscall(c, r)
      PROVE  Stacks'
  BY <1>2 DEF UserSyscall
<1>3. CASE SwapGsIn BY <1>3 DEF SwapGsIn
<1>4. CASE SaveUserRsp BY <1>4 DEF SaveUserRsp
<1>5. CASE LoadKernelRsp BY <1>5 DEF LoadKernelRsp
<1>6. CASE PushRegs
  <2>1. kstack = <<>> /\ rcx = caller.rip /\ r11 = TRUE /\ rsp = KTOP BY <1>6 DEF PushRegs
  <2>2. kstack' = <<TRUE, caller.rip>> BY <1>6, <2>1, PushPair DEF PushRegs
  <2>. QED BY <1>6, <2>1, <2>2 DEF PushRegs
<1>7. CASE InnerNoSys BY <1>7 DEF InnerNoSys, Return, Clobbered
<1>8. CASE InnerIo BY <1>8 DEF InnerIo, Return, Clobbered
<1>9. CASE InnerBadBuffer BY <1>9 DEF InnerBadBuffer, Return, Clobbered
<1>10. CASE InnerExit BY <1>10 DEF InnerExit
<1>11. CASE PopRegs
  <2>1. kstack = <<TRUE, caller.rip>> /\ rsp = KTOP - 2 BY <1>11 DEF PopRegs
  <2>2. kstack' = <<>> /\ r11' = TRUE /\ rcx' = caller.rip
    BY <1>11, <2>1, PushPair DEF PopRegs
  <2>. QED BY <1>11, <2>1, <2>2 DEF PopRegs
<1>12. CASE SaveKernelRsp BY <1>12 DEF SaveKernelRsp
<1>13. CASE RestoreUserRsp BY <1>13 DEF RestoreUserRsp
<1>14. CASE SwapGsOut BY <1>14 DEF SwapGsOut
<1>15. CASE Sysret BY <1>15 DEF Sysret
<1>16. CASE IrqEnter BY <1>16 DEF IrqEnter
<1>17. CASE IrqReturn BY <1>17 DEF IrqReturn
<1>. QED
  BY <1>1, <1>2, <1>3, <1>4, <1>5, <1>6, <1>7, <1>8, <1>9, <1>10, <1>11, <1>12,
     <1>13, <1>14, <1>15, <1>16, <1>17 DEF Next

\* The arguments are kept during a call.
LEMMA CallsStep == TypeOK /\ Calls /\ Next => Calls'
<1>. SUFFICES ASSUME TypeOK, Calls, Next PROVE Calls' OBVIOUS
<1>. USE DEF TypeOK, Calls, InHandler, regs, gsb, call, done, intr
<1>1. ASSUME NEW c \in Contexts, EnterUserMode(c) PROVE Calls'
  BY <1>1 DEF EnterUserMode
<1>2. ASSUME NEW c \in Contexts, NEW r \in Requests, UserSyscall(c, r)
      PROVE  Calls'
  BY <1>2 DEF UserSyscall
<1>3. CASE SwapGsIn BY <1>3 DEF SwapGsIn
<1>4. CASE SaveUserRsp BY <1>4 DEF SaveUserRsp
<1>5. CASE LoadKernelRsp BY <1>5 DEF LoadKernelRsp
<1>6. CASE PushRegs BY <1>6 DEF PushRegs
<1>7. CASE InnerNoSys BY <1>7 DEF InnerNoSys, Return, Clobbered
<1>8. CASE InnerIo BY <1>8 DEF InnerIo, Return, Clobbered
<1>9. CASE InnerBadBuffer BY <1>9 DEF InnerBadBuffer, Return, Clobbered
<1>10. CASE InnerExit BY <1>10 DEF InnerExit
<1>11. CASE PopRegs BY <1>11 DEF PopRegs
<1>12. CASE SaveKernelRsp BY <1>12 DEF SaveKernelRsp
<1>13. CASE RestoreUserRsp BY <1>13 DEF RestoreUserRsp
<1>14. CASE SwapGsOut BY <1>14 DEF SwapGsOut
<1>15. CASE Sysret BY <1>15 DEF Sysret
<1>16. CASE IrqEnter BY <1>16 DEF IrqEnter
<1>17. CASE IrqReturn BY <1>17 DEF IrqReturn
<1>. QED
  BY <1>1, <1>2, <1>3, <1>4, <1>5, <1>6, <1>7, <1>8, <1>9, <1>10, <1>11, <1>12,
     <1>13, <1>14, <1>15, <1>16, <1>17 DEF Next

\* The slice of a call that returns Ok is user memory.
LEMMA BuffersStep == TypeOK /\ Calls /\ BuffersAreUserMemory /\ Next => BuffersAreUserMemory'
<1>. SUFFICES ASSUME TypeOK, Calls, BuffersAreUserMemory, Next PROVE BuffersAreUserMemory' OBVIOUS
<1>. USE DEF BuffersAreUserMemory, Bytes, regs, gsb, call, done, intr
<1>1. ASSUME NEW c \in Contexts, EnterUserMode(c) PROVE BuffersAreUserMemory'
  BY <1>1 DEF EnterUserMode
<1>2. ASSUME NEW c \in Contexts, NEW r \in Requests, UserSyscall(c, r)
      PROVE  BuffersAreUserMemory'
  BY <1>2 DEF UserSyscall
<1>3. CASE SwapGsIn BY <1>3 DEF SwapGsIn
<1>4. CASE SaveUserRsp BY <1>4 DEF SaveUserRsp
<1>5. CASE LoadKernelRsp BY <1>5 DEF LoadKernelRsp
<1>6. CASE PushRegs BY <1>6 DEF PushRegs
<1>7. CASE InnerNoSys BY <1>7 DEF InnerNoSys, Return, Clobbered
<1>8. CASE InnerIo
  <2>. DEFINE access == IF req.num % 256 = Read THEN "ReadWrite" ELSE "ReadOnly"
  <2>1. construct_user_slice(req.ptr, req.len, access) = "ok" BY <1>8 DEF InnerIo
  <2>2. req \in Requests BY <1>8 DEF InnerIo, Calls, InHandler
  <2>3. req.ptr \in 0 .. USIZE - 1 /\ req.len \in 0 .. USIZE - 1
    BY <2>2, WordAssumption
  <2>4. req.num = Read => access = "ReadWrite" BY DEF Read
  <2>. HIDE DEF access
  <2>5. \A a \in req.ptr .. req.ptr + req.len - 1 : check_user_addr(a \div PAGE, access)
    BY <2>1, <2>3, SliceIsChecked
  <2>6. req' = req BY <1>8 DEF InnerIo
  <2>. QED BY <2>4, <2>5, <2>6 DEF check_user_addr
<1>9. CASE InnerBadBuffer BY <1>9 DEF InnerBadBuffer, Return, Clobbered
<1>10. CASE InnerExit BY <1>10 DEF InnerExit
<1>11. CASE PopRegs BY <1>11 DEF PopRegs
<1>12. CASE SaveKernelRsp BY <1>12 DEF SaveKernelRsp
<1>13. CASE RestoreUserRsp BY <1>13 DEF RestoreUserRsp
<1>14. CASE SwapGsOut BY <1>14 DEF SwapGsOut
<1>15. CASE Sysret BY <1>15 DEF Sysret
<1>16. CASE IrqEnter BY <1>16 DEF IrqEnter
<1>17. CASE IrqReturn BY <1>17 DEF IrqReturn
<1>. QED
  BY <1>1, <1>2, <1>3, <1>4, <1>5, <1>6, <1>7, <1>8, <1>9, <1>10, <1>11, <1>12,
     <1>13, <1>14, <1>15, <1>16, <1>17 DEF Next

\* Only io::write prints, and sysret ends the call.
LEMMA QuietStep == Quiet /\ Next => Quiet'
<1>. SUFFICES ASSUME Quiet, Next PROVE Quiet' OBVIOUS
<1>. USE DEF Quiet, Stage, regs, gsb, call, done, intr
<1>1. ASSUME NEW c \in Contexts, EnterUserMode(c) PROVE Quiet' BY <1>1 DEF EnterUserMode
<1>2. ASSUME NEW c \in Contexts, NEW r \in Requests, UserSyscall(c, r) PROVE Quiet'
  BY <1>2 DEF UserSyscall
<1>3. CASE SwapGsIn BY <1>3 DEF SwapGsIn
<1>4. CASE SaveUserRsp BY <1>4 DEF SaveUserRsp
<1>5. CASE LoadKernelRsp BY <1>5 DEF LoadKernelRsp
<1>6. CASE PushRegs BY <1>6 DEF PushRegs
<1>7. CASE InnerNoSys BY <1>7 DEF InnerNoSys, Return
<1>8. CASE InnerIo BY <1>8 DEF InnerIo, Return
<1>9. CASE InnerBadBuffer BY <1>9 DEF InnerBadBuffer, Return
<1>10. CASE InnerExit BY <1>10 DEF InnerExit
<1>11. CASE PopRegs BY <1>11 DEF PopRegs
<1>12. CASE SaveKernelRsp BY <1>12 DEF SaveKernelRsp
<1>13. CASE RestoreUserRsp BY <1>13 DEF RestoreUserRsp
<1>14. CASE SwapGsOut BY <1>14 DEF SwapGsOut
<1>15. CASE Sysret BY <1>15 DEF Sysret
<1>16. CASE IrqEnter BY <1>16 DEF IrqEnter
<1>17. CASE IrqReturn BY <1>17 DEF IrqReturn
<1>. QED
  BY <1>1, <1>2, <1>3, <1>4, <1>5, <1>6, <1>7, <1>8, <1>9, <1>10, <1>11, <1>12,
     <1>13, <1>14, <1>15, <1>16, <1>17 DEF Next

-----------------------------------------------------------------------------
\* IInv holds in every reachable state.
THEOREM Inductive == Spec => []IInv
<1>1. Init => IInv BY InitIInv
<1>2. IInv /\ [Next]_vars => IInv'
  <2>. SUFFICES ASSUME IInv, [Next]_vars PROVE IInv' OBVIOUS
  <2>1. CASE Next
    BY <2>1, TypeStep, FlagsStep, GsStep, StacksStep, CallsStep, BuffersStep, QuietStep DEF IInv
  <2>2. CASE UNCHANGED vars
    <3>. USE <2>2 DEF IInv, vars
    <3>1. TypeOK' BY DEF TypeOK
    <3>2. Flags' BY DEF Flags
    <3>3. GsBases' BY DEF GsBases
    <3>4. Stacks' BY DEF Stacks
    <3>5. Calls' BY DEF Calls
    <3>6. BuffersAreUserMemory' BY DEF BuffersAreUserMemory, Bytes
    <3>7. Quiet' BY DEF Quiet, Stage
    <3>. QED BY <3>1, <3>2, <3>3, <3>4, <3>5, <3>6, <3>7
  <2>. QED BY <2>1, <2>2
<1>. QED BY <1>1, <1>2, PTL DEF Spec

\* Registers, stacks, flags and the arguments of the call stay well-typed; in
\* particular what the kernel returns in rax is a word.
THEOREM TypeCorrect == Spec => []TypeOK
<1>1. IInv => TypeOK BY DEF IInv
<1>. QED BY <1>1, Inductive, PTL

\* However many calls were made and interrupts taken, sysret resumes the caller
\* where it was, on its stack and with its flags (handler.rs, syscall_handler).
THEOREM SysretResumesTheCaller == Spec => []CallerIsResumed
<1>1. IInv => CallerIsResumed
  BY DEF IInv, Stacks, AtExit, CallerIsResumed
<1>. QED BY <1>1, Inductive, PTL

\* ThreadData.kernel_rsp is always the top of an empty stack between calls, so
\* the kernel stack does not creep (handler.rs, syscall_handler).
THEOREM KernelStackDoesNotGrow == Spec => []KernelStackIsEmpty
<1>1. IInv => KernelStackIsEmpty BY DEF IInv, Stacks, KernelStackIsEmpty
<1>. QED BY <1>1, Inductive, PTL

\* GS base is ThreadData in the entry code and never in user code, on every
\* path through swapgs (handler.rs, main.rs enter_user_mode).
THEOREM SwapgsIsPaired == Spec => []GsFollowsTheMode
<1>1. IInv => GsFollowsTheMode
  BY DEF IInv, TypeOK, Flags, GsBases, InHandler, GsFollowsTheMode
<1>. QED BY <1>1, Inductive, PTL

\* Interrupt handlers never run on the stack of a call that will return: the
\* mask written by syscall::init and the flags popped by sysret suffice.
THEOREM OneKernelStackSuffices == Spec => []KernelStackIsNotShared
<1>1. IInv => KernelStackIsNotShared BY DEF IInv, Flags, KernelStackIsNotShared
<1>. QED BY <1>1, Inductive, PTL

\* The kernel dereferences user pointers only on pages the user may access, for
\* every page table whose user pages are low, every pointer and every length.
THEOREM SlicesAreUserMemory == Spec => []BuffersAreUserMemory
<1>1. IInv => BuffersAreUserMemory BY DEF IInv
<1>. QED BY <1>1, Inductive, PTL

-----------------------------------------------------------------------------
\* The first byte of a page is on the page.
LEMMA PageStart ==
    ASSUME NEW p \in Nat
    PROVE  p * PAGE \in Nat /\ (p * PAGE) \div PAGE = p
<1>1. PAGE \in Nat /\ PAGE > 0 BY WordAssumption
<1>2. p * PAGE \in Nat BY <1>1
<1>. DEFINE x == p * PAGE
            q == x \div PAGE
<1>. HIDE DEF x
<1>3. x \in Nat BY <1>2 DEF x
<1>4. q \in Nat /\ PAGE * q <= x /\ x < PAGE * (q + 1) BY <1>1, <1>3
<1>. HIDE DEF q
<1>5. q <= p
  <2>. SUFFICES ASSUME q >= p + 1 PROVE FALSE BY <1>4
  <2>1. PAGE * q >= PAGE * (p + 1) BY <1>1, <1>4
  <2>2. PAGE * (p + 1) = x + PAGE BY <1>1 DEF x
  <2>. QED BY <1>1, <1>3, <1>4, <2>1, <2>2
<1>6. p <= q
  <2>. SUFFICES ASSUME p >= q + 1 PROVE FALSE BY <1>4
  <2>1. PAGE * p >= PAGE * (q + 1) BY <1>1, <1>4
  <2>2. PAGE * p = x BY <1>1 DEF x
  <2>. QED BY <1>1, <1>3, <1>4, <2>1, <2>2
<1>. QED BY <1>2, <1>4, <1>5, <1>6 DEF q, x

\* A page that two addresses span has a byte between them.
LEMMA PageHasByte ==
    ASSUME NEW a \in Nat, NEW b \in Nat, a <= b,
           NEW p \in Nat, a \div PAGE <= p, p <= b \div PAGE
    PROVE  \E x \in a .. b : x \div PAGE = p
<1>1. PAGE \in Nat /\ PAGE > 0 BY WordAssumption
<1>2. CASE a \div PAGE = p BY <1>2
<1>3. CASE a \div PAGE # p
  <2>. DEFINE x == p * PAGE
              q == a \div PAGE
              r == b \div PAGE
  <2>1. x \in Nat /\ x \div PAGE = p BY PageStart
  <2>2. q \in Nat /\ r \in Nat /\ q < p /\ p <= r BY <1>1, <1>3
  <2>3. a < PAGE * (q + 1) /\ PAGE * r <= b BY <1>1
  <2>4. x = PAGE * p BY <1>1
  <2>. HIDE DEF x, q, r
  <2>5. PAGE * (q + 1) <= PAGE * p BY <1>1, <2>2
  <2>6. PAGE * p <= PAGE * r BY <1>1, <2>2
  <2>7. a <= x /\ x <= b
    <3>1. PAGE * (q + 1) \in Nat /\ PAGE * r \in Nat BY <1>1, <2>2
    <3>. QED BY <2>1, <2>3, <2>4, <2>5, <2>6, <3>1
  <2>. QED BY <2>1, <2>7
<1>. QED BY <1>2, <1>3

\* A buffer whose every byte the program could use passes the checks: they
\* refuse nothing they need not.
LEMMA GoodIsOk ==
    ASSUME NEW ptr \in 0 .. USIZE - 1, NEW bytes \in 0 .. USIZE - 1, NEW access, bytes > 0,
           \A a \in ptr .. ptr + bytes - 1 : check_user_addr(a \div PAGE, access)
    PROVE  construct_user_slice(ptr, bytes, access) = "ok"
<1>1. /\ USIZE \in Nat /\ HALF \in Nat /\ 4 * HALF <= USIZE /\ 0 < HALF
      /\ PAGE \in Nat /\ PAGE > 0
  BY WordAssumption
<1>. DEFINE last == ptr + bytes - 1
<1>2. last \in Nat /\ ptr \in Nat /\ ptr <= last /\ last \in ptr .. ptr + bytes - 1 BY <1>1
<1>3. last < HALF
  <2>. DEFINE p == last \div PAGE
  <2>1. p \in DOMAIN PageFlags /\ "USER" \in PageFlags[p] BY <1>2 DEF check_user_addr
  <2>2. p \in Nat /\ (p + 1) * PAGE <= HALF BY <2>1, UserMemoryIsLow
  <2>. HIDE DEF last
  <2>3. last < (p + 1) * PAGE BY <1>1, <1>2
  <2>4. (p + 1) * PAGE \in Nat BY <1>1, <2>2
  <2>. HIDE DEF p
  <2>. QED BY <1>1, <1>2, <2>2, <2>3, <2>4
<1>4. try_new(ptr) = ptr /\ virt_add(ptr, bytes - 1) = last
  <2>1. ptr + (bytes - 1) = last /\ last < USIZE /\ ptr < HALF BY <1>1, <1>2, <1>3
  <2>2. try_new(ptr) = ptr BY <2>1 DEF try_new
  <2>. HIDE DEF last
  <2>3. try_new(last) = last BY <1>3 DEF try_new
  <2>. QED BY <2>1, <2>2, <2>3 DEF virt_add
<1>5. bytes <= ISIZE_MAX
  <2>1. bytes <= HALF BY <1>1, <1>3
  <2>2. USIZE \div 2 >= 2 * HALF BY <1>1
  <2>. QED BY <1>1, <2>1, <2>2 DEF ISIZE_MAX
<1>6. ASSUME NEW p \in range_inclusive(ptr, last) PROVE check_user_addr(p, access)
  <2>. HIDE DEF last
  <2>1. p \in Nat /\ ptr \div PAGE <= p /\ p <= last \div PAGE
    BY <1>1 DEF range_inclusive
  <2>2. PICK x \in ptr .. last : x \div PAGE = p BY <1>2, <2>1, PageHasByte
  <2>. QED BY <1>1, <2>2 DEF last
<1>7. ptr # None /\ last # None BY <1>2 DEF None
<1>. HIDE DEF last
<1>8. ~(bytes > ISIZE_MAX) /\ bytes # 0
  BY <1>1, <1>5 DEF ISIZE_MAX
<1>. QED BY <1>4, <1>6, <1>7, <1>8 DEF construct_user_slice

\* The checks panic only on a buffer that is empty or not in the lower half.
LEMMA PanicIsFatal ==
    ASSUME NEW ptr \in 0 .. USIZE - 1, NEW bytes \in 0 .. USIZE - 1, NEW access,
           construct_user_slice(ptr, bytes, access) = "panic"
    PROVE  bytes = 0 \/ ptr + bytes > HALF
<1>. SUFFICES ASSUME bytes # 0, ptr + bytes <= HALF PROVE FALSE
  BY WordAssumption
<1>. DEFINE last == ptr + (bytes - 1)
<1>1. last \in Nat /\ last < HALF /\ last < USIZE /\ ptr < HALF BY WordAssumption
<1>. HIDE DEF last
<1>2. try_new(ptr) = ptr /\ try_new(last) = last /\ last # None
  BY <1>1 DEF try_new, None
<1>3. virt_add(ptr, bytes - 1) = last BY <1>1, <1>2 DEF virt_add, last
<1>. QED BY <1>2, <1>3 DEF construct_user_slice

-----------------------------------------------------------------------------
\* A buffer is good for the program exactly if the checks accept it.
LEMMA ChecksAreExact ==
    ASSUME NEW r \in Requests, r.num \in {Read, Write},
           NEW access, access = IF r.num = Read THEN "ReadWrite" ELSE "ReadOnly"
    PROVE  Program!Good(r) <=> construct_user_slice(r.ptr, r.len, access) = "ok"
<1>1. r.ptr \in 0 .. USIZE - 1 /\ r.len \in 0 .. USIZE - 1 /\ USIZE \in Nat
  BY WordAssumption
<1>2. \A p : check_user_addr(p, access)
         <=> p \in DOMAIN PageFlags /\ Program!Needed(r) \subseteq PageFlags[p]
  BY DEF check_user_addr, Program!Needed, Read, Write, Program!Read
<1>3. Program!Good(r) <=> /\ r.len > 0
                          /\ \A a \in r.ptr .. r.ptr + r.len - 1 : check_user_addr(a \div PAGE, access)
  BY <1>2 DEF Program!Good, Program!Buffer
<1>4. construct_user_slice(r.ptr, r.len, access) = "ok" => r.len > 0
  BY <1>1 DEF construct_user_slice
<1>. QED BY <1>1, <1>3, <1>4, GoodIsOk, SliceIsChecked

\* A step of the entry code before or after the call is served, or of an
\* interrupt, is invisible to the program.
Invisible ==
    SwapGsIn \/ SaveUserRsp \/ LoadKernelRsp \/ PushRegs \/ PopRegs \/ SaveKernelRsp
        \/ RestoreUserRsp \/ SwapGsOut \/ IrqEnter \/ IrqReturn

Value == IF Stage \in {"user", "served"} THEN rax ELSE 0

LEMMA InvisibleStutters ==
    ASSUME IInv, Invisible
    PROVE  UNCHANGED <<Stage, Position, req, Value, out>>
<1>. USE DEF IInv, Flags, Stage, Position, Value, regs, gsb, call, done, intr
<1>1. CASE SwapGsIn BY <1>1 DEF SwapGsIn
<1>2. CASE SaveUserRsp BY <1>2 DEF SaveUserRsp
<1>3. CASE LoadKernelRsp BY <1>3 DEF LoadKernelRsp
<1>4. CASE PushRegs BY <1>4 DEF PushRegs
<1>5. CASE PopRegs BY <1>5 DEF PopRegs
<1>6. CASE SaveKernelRsp BY <1>6 DEF SaveKernelRsp
<1>7. CASE RestoreUserRsp BY <1>7 DEF RestoreUserRsp
<1>8. CASE SwapGsOut BY <1>8 DEF SwapGsOut
<1>9. CASE IrqEnter
  <2>1. ~irq /\ irq' /\ pc' = pc /\ frame'.rsp = rsp BY <1>9 DEF IrqEnter
  <2>. QED BY <1>9, <2>1 DEF IrqEnter
<1>10. CASE IrqReturn BY <1>10 DEF IrqReturn
<1>. QED
  BY <1>1, <1>2, <1>3, <1>4, <1>5, <1>6, <1>7, <1>8, <1>9, <1>10 DEF Invisible

\* The steps of syscall_handler_inner serve the request.
LEMMA InnerServes ==
    ASSUME IInv, InnerNoSys \/ InnerIo \/ InnerBadBuffer \/ InnerExit
    PROVE  Program!Serve
<1>1. /\ pc = "inner" /\ ~irq /\ req' = req /\ caller' = caller
  BY DEF InnerNoSys, InnerIo, InnerBadBuffer, InnerExit, call
<1>2. /\ Stage = "called" /\ Position = caller /\ Value = 0 /\ out = {}
      /\ req \in Requests /\ req.num \in Nat
  BY <1>1, WordAssumption DEF Stage, Position, Value, IInv, Quiet, Calls, InHandler
<1>. DEFINE access == IF req.num = Read THEN "ReadWrite" ELSE "ReadOnly"
<1>3. CASE InnerNoSys
  <2>1. req.num \notin {Read, Write, Exit}
    BY <1>2, <1>3 DEF InnerNoSys, Known, Read, Write, Exit
  <2>2. neg_err("NoSys") = 0 BY WordAssumption DEF neg_err
  <2>3. pc' = "pop" /\ rax' = 0 /\ out' = {} BY <1>2, <1>3, <2>2 DEF InnerNoSys, Return
  <2>4. Stage' = "served" /\ Position' = caller BY <1>1, <2>3 DEF Stage, Position
  <2>. QED
    BY <1>1, <1>2, <2>1, <2>3, <2>4
    DEF Program!Serve, Program!Answer, Read, Write, Exit,
        Program!Read, Program!Write, Program!Exit
<1>4. CASE InnerIo
  <2>1. req.num \in {Read, Write} /\ req.num % 256 = req.num
    BY <1>4 DEF InnerIo, Known, Read, Write, Exit
  <2>2. construct_user_slice(req.ptr, req.len, access) = "ok" BY <1>4, <2>1 DEF InnerIo
  <2>3. Program!Good(req) BY <1>2, <2>1, <2>2, ChecksAreExact
  <2>4. /\ pc' = "pop" /\ rax' = req.len
        /\ out' = IF req.num = Write THEN Program!Buffer(req) ELSE {}
    BY <1>4, <2>1 DEF InnerIo, Return, Bytes, Program!Buffer
  <2>5. Stage' = "served" /\ Position' = caller BY <1>1, <2>4 DEF Stage, Position
  <2>. QED
    BY <1>1, <1>2, <2>1, <2>3, <2>4, <2>5
    DEF Program!Serve, Program!Answer, Read, Write, Program!Read, Program!Write
<1>5. CASE InnerBadBuffer
  <2>1. req.num \in {Read, Write} /\ req.num % 256 = req.num
    BY <1>5 DEF InnerBadBuffer, Known, Read, Write, Exit
  <2>. DEFINE slice == construct_user_slice(req.ptr, req.len, access)
  <2>2. slice # "ok" BY <1>5, <2>1 DEF InnerBadBuffer
  <2>3. ~Program!Good(req) BY <1>2, <2>1, <2>2, ChecksAreExact
  <2>4. out' = {} BY <1>2, <1>5 DEF InnerBadBuffer
  <2>5. CASE slice = "panic"
    <3>1. pc' = "panicked" BY <1>5, <2>1, <2>5 DEF InnerBadBuffer
    <3>2. Stage' = "panicked" /\ Position' = caller BY <1>1, <3>1 DEF Stage, Position
    <3>3. req.ptr \in 0 .. USIZE - 1 /\ req.len \in 0 .. USIZE - 1
      BY <1>2, WordAssumption
    <3>4. Program!Fatal(req) BY <2>5, <3>3, PanicIsFatal DEF Program!Fatal
    <3>. QED
      BY <1>1, <1>2, <2>1, <2>4, <3>2, <3>4
      DEF Program!Serve, Program!Stop, Value, Read, Write, Program!Read, Program!Write
  <2>6. CASE slice # "panic"
    <3>1. neg_err("InvalidArgument") = USIZE - 1 BY WordAssumption DEF neg_err
    <3>2. pc' = "pop" /\ rax' = USIZE - 1 BY <1>5, <2>1, <2>6, <3>1 DEF InnerBadBuffer, Return
    <3>3. Stage' = "served" /\ Position' = caller BY <1>1, <3>2 DEF Stage, Position
    <3>. QED
      BY <1>1, <1>2, <2>1, <2>3, <2>4, <3>2, <3>3
      DEF Program!Serve, Program!Answer, Read, Write, Program!Read, Program!Write
  <2>. QED BY <2>5, <2>6
<1>6. CASE InnerExit
  <2>1. req.num = Exit BY <1>6 DEF InnerExit, Known, Read, Write, Exit
  <2>2. pc' = "exited" /\ out' = out BY <1>6 DEF InnerExit, done
  <2>3. Stage' = "exited" /\ Position' = caller BY <1>1, <2>2 DEF Stage, Position
  <2>. QED
    BY <1>1, <1>2, <2>1, <2>2, <2>3
    DEF Program!Serve, Program!Stop, Exit, Program!Exit
<1>. QED BY <1>3, <1>4, <1>5, <1>6

\* The entry code, the checks of user buffers and the interrupts in between
\* implement the one-step call of SyscallSpec: the program goes on exactly where
\* it made the call, with the value and the output its request calls for.
THEOREM CallsAreAtomic == Spec => ImplementsSyscallSpec
<1>1. Init => Program!Init
  BY DEF Init, Program!Init, Stage, Position, Program!NoRequest, NoCall
<1>2. IInv /\ [Next]_vars => [Program!Next]_Program!vars
  <2>. SUFFICES ASSUME IInv, [Next]_vars PROVE [Program!Next]_Program!vars OBVIOUS
  <2>1. ASSUME NEW c \in Contexts, EnterUserMode(c) PROVE Program!Start(c)
    <3>1. ~irq /\ ~irq' /\ pc = "boot" /\ pc' = "user" /\ rax' = 0 /\ rax = 0
      BY <2>1 DEF EnterUserMode, IInv, Flags, Quiet, intr
    <3>2. Position' = c BY <2>1, <3>1, StackAssumption DEF EnterUserMode, Position
    <3>. QED BY <2>1, <3>1, <3>2 DEF EnterUserMode, Program!Start, Stage, call, done
  <2>2. ASSUME NEW c \in Contexts, NEW r \in Requests, UserSyscall(c, r)
        PROVE  Program!Call(c, r)
    BY <2>2 DEF UserSyscall, Program!Call, Stage, Position, done
  <2>3. CASE Sysret
    <3>1. caller = [rip |-> caller.rip, rsp |-> caller.rsp]
      BY DEF IInv, TypeOK
    <3>2. Position = caller /\ Position' = caller
      BY <2>3, <3>1 DEF Sysret, Position, IInv, Stacks, AtExit, intr, regs
    <3>3. /\ pc = "sysret" /\ pc' = "user" /\ rax' = rax
          /\ req' = NoCall /\ out' = {}
      BY <2>3 DEF Sysret, regs
    <3>4. Stage = "served" /\ Stage' = "user" BY <3>3 DEF Stage
    <3>5. req' = Program!NoRequest BY <3>3 DEF NoCall, Program!NoRequest
    <3>6. Program!Return BY <3>2, <3>3, <3>4, <3>5 DEF Program!Return
    <3>. QED BY <3>6 DEF Program!Next
  <2>4. CASE Invisible
    BY <2>4, InvisibleStutters DEF Program!vars, Value
  <2>5. CASE UNCHANGED vars
    BY <2>5 DEF vars, Program!vars, Stage, Position
  <2>. QED
    BY <2>1, <2>2, <2>3, <2>4, <2>5, InnerServes
    DEF Next, Invisible, Program!Next
<1>. QED BY <1>1, <1>2, Inductive, PTL DEF Spec, ImplementsSyscallSpec, Program!Spec
=============================================================================
