--------------------------- MODULE MachineProofs ---------------------------
(***************************************************************************)
(* Proofs about Machine, for any number of tests and of faults.            *)
(*                                                                         *)
(* IInv says what the code of every context consists of.  Programs and     *)
(* handlers execute different operations, so an iretq always has a context *)
(* to return to and user mode is entered at the bottom only; a lock is     *)
(* followed by its unlock, with interrupts off; after a fault only         *)
(* operations that never return are left.                                  *)
(***************************************************************************)
EXTENDS Machine, SequenceTheorems, TLAPS

Builds == {"kernel", "tests", "overflow"}
Msgs == {"text", "warning", "running", "name", "ok", "error"} \cup Reports
Sps == {"mapped", "unmapped", "noncanonical"}

Silent(ops) == [op : ops, arg : {""}, msg : {""}]
Prints == [op : {"lock", "unlock"}, arg : Devices, msg : Msgs]
Exits(codes) == [op : {"exit"}, arg : codes, msg : {""}]

\* What the programs of build b execute, panics included.
ProgramOps(b) ==
    CASE b = "kernel" ->
            Prints \cup Silent({"gdt_init", "init_idt", "initialize", "kernel_main", "user", "hlt"})
      [] b = "tests" ->
            Prints \cup Exits({"Success", "Failed"})
                   \cup Silent({"gdt_init", "init_idt", "initialize", "for", "test", "hlt"})
      [] OTHER ->
            Prints \cup Exits({"Failed"})
                   \cup Silent({"gdt_init", "init_test_idt", "overflow", "panic", "hlt"})

\* What is left to execute after a fault.
LastOps(b) ==
    IF b = "overflow" THEN Prints \cup Exits({"Success", "Failed"}) \cup Silent({"hlt"})
    ELSE Prints \cup Exits({"Failed"}) \cup Silent({"top_of_stack", "panic", "loop", "hlt"})

\* What the handlers execute.
HandlerOps(b) ==
    IF b = "overflow" THEN Prints \cup Exits({"Success"}) \cup Silent({"hlt"})
    ELSE Prints \cup Exits({"Failed"}) \cup Silent({"top_of_stack", "panic", "loop", "hlt",
                                                    "from_utf8", "iretq", "eoi", "read_port"})

\* A lock is followed by its unlock.
Paired(code) ==
    \A i \in 1 .. Len(code) :
        code[i].op = "lock" =>
            i < Len(code) /\ code[i + 1].op = "unlock" /\ code[i + 1].arg = code[i].arg

Code(ops) == {code \in Seq(ops) : Paired(code)}

\* Interrupts are on in user code, and in ring 0 only in the hlt loop of exit.
IsProgram(c, b) ==
    /\ c \in [ring : {0, 3}, interrupts : BOOLEAN, sp : Sps, code : Code(ProgramOps(b))]
    /\ c.ring = 3 => c.interrupts = TRUE /\ c.code = do("user")
    /\ c.ring = 0 => c.interrupts = FALSE \/ c.code = do("hlt")

IsHandler(c, b) ==
    c \in [ring : {0}, interrupts : {FALSE}, sp : Sps, code : Code(HandlerOps(b))]

Types ==
    /\ build \in Builds
    /\ idt \in (IF build = "overflow" THEN {"none", "TEST_IDT"} ELSE {"none", "IDT"})
    /\ irr \subseteq {"timer", "keyboard"} /\ isr \subseteq {"timer", "keyboard"}
    /\ ps2 \in BOOLEAN /\ pics \in BOOLEAN
    /\ locked \subseteq Devices /\ caught \subseteq Devices /\ faulted \in BOOLEAN
    /\ serial \in Seq(Msgs) /\ screen \subseteq Msgs
    /\ power \in {"on", "reset", "Success", "Failed"}
    /\ faults \in 0 .. MaxFaults /\ left \in 0 .. Tests

\* A program at the bottom and handlers on top of it.
IsBelow(s, b) ==
    /\ s \in Seq(Range(s))
    /\ s # <<>> => IsProgram(s[1], b)
    /\ \A i \in 2 .. Len(s) : IsHandler(s[i], b)

Stack ==
    /\ IsBelow(below, build)
    /\ IF below = <<>> THEN IsProgram(cpu, build) ELSE IsHandler(cpu, build)

\* The code that runs after a fault does not return and is not interrupted.
IsLast(c, b) == c.ring = 0 /\ c.interrupts = FALSE /\ c.code \in Seq(LastOps(b))
Final == faulted /\ power = "on" => IsLast(cpu, build)

\* A lock that is held is about to be released, unless a fault came first.
Unlocking(code, d) == code # <<>> /\ Head(code).op = "unlock" /\ Head(code).arg = d
Held == \A d \in locked : d \in caught \/ Unlocking(cpu.code, d)

IInv == Types /\ Stack /\ Final /\ Held

-----------------------------------------------------------------------------
\* Code

LEMMA TailIsCode ==
    ASSUME NEW S, NEW code \in Code(S), code # <<>>
    PROVE  Tail(code) \in Code(S)
<1>1. code \in Seq(S) /\ Paired(code)
  BY DEF Code
<1>2. Tail(code) \in Seq(S) /\ Len(Tail(code)) = Len(code) - 1 /\ Len(code) \in Nat
  BY <1>1
<1>3. \A i \in 1 .. Len(Tail(code)) : Tail(code)[i] = code[i + 1]
  BY <1>1
<1>4. Paired(Tail(code))
  BY <1>1, <1>2, <1>3 DEF Paired
<1>5. QED
  BY <1>2, <1>4 DEF Code

LEMMA JoinIsCode ==
    ASSUME NEW S, NEW s \in Code(S), NEW t \in Code(S)
    PROVE  s \o t \in Code(S)
<1>1. s \in Seq(S) /\ t \in Seq(S) /\ Paired(s) /\ Paired(t)
  BY DEF Code
<1>2. s \o t \in Seq(S) /\ Len(s \o t) = Len(s) + Len(t) /\ Len(s) \in Nat /\ Len(t) \in Nat
  BY <1>1
<1>3. \A i \in 1 .. Len(s) : (s \o t)[i] = s[i]
  BY <1>1
<1>4. \A i \in Len(s) + 1 .. Len(s \o t) : (s \o t)[i] = t[i - Len(s)]
  BY <1>1
<1>5. Paired(s \o t)
  <2> SUFFICES ASSUME NEW i \in 1 .. Len(s \o t), (s \o t)[i].op = "lock"
               PROVE  /\ i < Len(s \o t) /\ (s \o t)[i + 1].op = "unlock"
                      /\ (s \o t)[i + 1].arg = (s \o t)[i].arg
    BY DEF Paired
  <2>1. CASE i <= Len(s)
    <3>1. i \in 1 .. Len(s) /\ s[i].op = "lock"
      BY <1>2, <1>3, <2>1
    <3>2. i < Len(s) /\ s[i + 1].op = "unlock" /\ s[i + 1].arg = s[i].arg
      BY <1>1, <3>1 DEF Paired
    <3>3. QED
      BY <1>2, <1>3, <3>1, <3>2
  <2>2. CASE i > Len(s)
    <3> DEFINE j == i - Len(s)
    <3>1. j \in 1 .. Len(t) /\ (s \o t)[i] = t[j]
      BY <1>2, <1>4, <2>2
    <3>2. j < Len(t) /\ t[j + 1].op = "unlock" /\ t[j + 1].arg = t[j].arg
      BY <1>1, <3>1 DEF Paired
    <3>3. i + 1 \in Len(s) + 1 .. Len(s \o t) /\ (i + 1) - Len(s) = j + 1 /\ i < Len(s \o t)
      BY <1>2, <2>2, <3>1, <3>2
    <3>4. (s \o t)[i + 1] = t[j + 1]
      BY <1>4, <3>3
    <3>5. QED
      BY <3>1, <3>2, <3>3, <3>4
  <2>3. QED
    BY <1>2, <2>1, <2>2
<1>6. QED
  BY <1>2, <1>5 DEF Code

LEMMA OneIsCode ==
    ASSUME NEW S, NEW r \in S, r.op # "lock"
    PROVE  <<r>> \in Code(S)
<1>1. <<r>> \in Seq(S) /\ Len(<<r>>) = 1 /\ <<r>>[1] = r
  OBVIOUS
<1>2. \A i \in 1 .. Len(<<r>>) : <<r>>[i].op # "lock"
  BY <1>1
<1>3. Paired(<<r>>)
  BY <1>2 DEF Paired
<1>4. QED
  BY <1>1, <1>3 DEF Code

LEMMA DoIsCode ==
    ASSUME NEW S, NEW o, o # "lock", Silent({o}) \subseteq S
    PROVE  do(o) \in Code(S)
<1> DEFINE r == [op |-> o, arg |-> "", msg |-> ""]
<1>1. r \in S /\ r.op # "lock"
  BY DEF Silent
<1>2. do(o) = <<r>>
  BY DEF do, Op
<1> HIDE DEF r
<1>3. QED
  BY <1>1, <1>2, OneIsCode

LEMMA PairIsCode ==
    ASSUME NEW S, NEW r \in S, NEW u \in S, u.op = "unlock", u.arg = r.arg
    PROVE  <<r>> \o <<u>> \in Code(S)
<1> DEFINE s == <<r>> \o <<u>>
<1>1. s \in Seq(S) /\ Len(s) = 2 /\ s[1] = r /\ s[2] = u
  OBVIOUS
<1> HIDE DEF s
<1>2. ASSUME NEW i \in 1 .. Len(s), s[i].op = "lock"
      PROVE  i < Len(s) /\ s[i + 1].op = "unlock" /\ s[i + 1].arg = s[i].arg
  <2>1. i = 1 \/ i = 2
    BY <1>1
  <2>2. i = 1
    BY <1>1, <1>2, <2>1
  <2>3. QED
    BY <1>1, <2>2
<1>3. s \in Code(S)
  BY Zenon, <1>1, <1>2 DEF Code, Paired
<1>4. QED
  BY <1>3 DEF s

LEMMA PrintIsCode ==
    ASSUME NEW S, Prints \subseteq S, NEW d \in Devices, NEW m \in Msgs
    PROVE  print(d, m) \in Code(S)
<1> DEFINE r == [op |-> "lock", arg |-> d, msg |-> m]
           u == [op |-> "unlock", arg |-> d, msg |-> m]
<1>1. r \in S /\ u \in S /\ u.op = "unlock" /\ u.arg = r.arg
  BY DEF Prints
<1>2. print(d, m) = <<r>> \o <<u>>
  BY DEF print, Op
<1> HIDE DEF r, u
<1>3. QED
  BY <1>1, <1>2, PairIsCode

LEMMA ExitIsCode ==
    ASSUME NEW S, NEW c, Exits({c}) \subseteq S, Silent({"hlt"}) \subseteq S
    PROVE  exit_qemu(c) \in Code(S)
<1> DEFINE r == [op |-> "exit", arg |-> c, msg |-> ""]
<1>1. r \in S /\ r.op = "exit"
  BY DEF Exits
<1>2. Op("exit", c, "") = <<r>>
  BY DEF Op
<1>3. Op("exit", c, "") \in Code(S)
  <2> HIDE DEF r
  <2> QED BY <1>1, <1>2, OneIsCode
<1>4. do("hlt") \in Code(S)
  BY DoIsCode
<1>5. QED
  BY <1>3, <1>4, JoinIsCode DEF exit_qemu

\* Which operations programs and handlers have.
LEMMA ProgramHas ==
    ASSUME NEW b \in Builds
    PROVE  /\ Prints \subseteq ProgramOps(b)
           /\ Silent({"hlt"}) \subseteq ProgramOps(b)
           /\ Silent({"gdt_init"}) \subseteq ProgramOps(b)
           /\ b = "kernel" => /\ Silent({"user"}) \subseteq ProgramOps(b)
                              /\ Silent({"kernel_main"}) \subseteq ProgramOps(b)
           /\ b # "kernel" => Exits({"Failed"}) \subseteq ProgramOps(b)
           /\ b = "tests" => /\ Exits({"Success"}) \subseteq ProgramOps(b)
                             /\ Silent({"for"}) \subseteq ProgramOps(b)
                             /\ Silent({"test"}) \subseteq ProgramOps(b)
           /\ b # "overflow" => /\ Silent({"init_idt"}) \subseteq ProgramOps(b)
                                /\ Silent({"initialize"}) \subseteq ProgramOps(b)
           /\ b = "overflow" => /\ Silent({"init_test_idt"}) \subseteq ProgramOps(b)
                                /\ Silent({"overflow"}) \subseteq ProgramOps(b)
                                /\ Silent({"panic"}) \subseteq ProgramOps(b)
BY DEF Builds, ProgramOps, Silent, Exits

LEMMA HandlerHas ==
    ASSUME NEW b \in Builds
    PROVE  /\ Prints \subseteq HandlerOps(b) /\ Silent({"hlt"}) \subseteq HandlerOps(b)
           /\ b = "overflow" => Exits({"Success"}) \subseteq HandlerOps(b)
           /\ b # "overflow" =>
                 /\ Exits({"Failed"}) \subseteq HandlerOps(b)
                 /\ \A o \in {"top_of_stack", "panic", "loop", "from_utf8", "iretq", "eoi",
                              "read_port"} : Silent({o}) \subseteq HandlerOps(b)
BY DEF Builds, HandlerOps, Silent, Exits

LEMMA LastHas ==
    ASSUME NEW b \in Builds
    PROVE  /\ Prints \subseteq LastOps(b) /\ Silent({"hlt"}) \subseteq LastOps(b)
           /\ Exits({"Failed"}) \subseteq LastOps(b)
           /\ b = "overflow" => Exits({"Success"}) \subseteq LastOps(b)
           /\ b # "overflow" => \A o \in {"top_of_stack", "panic", "loop"} :
                                    Silent({o}) \subseteq LastOps(b)
BY DEF Builds, LastOps, Silent, Exits

LEMMA OpOfProgram ==
    ASSUME NEW b \in Builds, NEW r \in ProgramOps(b)
    PROVE  /\ r.op \notin {"from_utf8", "iretq", "eoi", "read_port", "top_of_stack", "loop"}
           /\ r.op \in {"lock", "unlock"} => r \in Prints
           /\ r.op = "exit" => \/ r.arg = "Failed" /\ b # "kernel"
                               \/ r.arg = "Success" /\ b = "tests"
           /\ r.op \in {"user", "kernel_main"} => b = "kernel"
           /\ r.op \in {"for", "test"} => b = "tests"
           /\ r.op \in {"init_idt", "initialize"} => b # "overflow"
           /\ r.op \in {"init_test_idt", "overflow", "panic"} => b = "overflow"
BY DEF Builds, ProgramOps, Silent, Exits, Prints

LEMMA OpOfHandler ==
    ASSUME NEW b \in Builds, NEW r \in HandlerOps(b)
    PROVE  /\ r.op \in {"lock", "unlock"} => r \in Prints
           /\ r.op = "exit" => r.arg = IF b = "overflow" THEN "Success" ELSE "Failed"
           /\ r.op \notin {"user", "kernel_main", "for", "test", "gdt_init", "init_idt",
                           "initialize", "init_test_idt", "overflow"}
           /\ b = "overflow" => r.op \in {"lock", "unlock", "exit", "hlt"}
BY DEF Builds, HandlerOps, Silent, Exits, Prints

LEMMA OpAfterFault ==
    ASSUME NEW b \in Builds, NEW r \in LastOps(b)
    PROVE  /\ r.op \in {"lock", "unlock", "exit", "hlt", "loop", "top_of_stack", "panic"}
           /\ r.op = "exit" => r.arg = "Failed" \/ (b = "overflow" /\ r.arg = "Success")
BY DEF Builds, LastOps, Silent, Exits, Prints

LEMMA MsgFacts ==
    /\ {"text", "warning", "running", "name", "ok", "error", "panic", "divide",
        "double fault", "failed"} \subseteq Msgs
    /\ "WRITER" \in Devices /\ "SERIAL1" \in Devices
BY DEF Msgs, Reports, Devices

LEMMA PanicIsCode ==
    ASSUME NEW S, Prints \subseteq S, Silent({"hlt"}) \subseteq S,
           build # "kernel" => Exits({"Failed"}) \subseteq S
    PROVE  panic_handler \in Code(S)
<1>1. /\ print("WRITER", "panic") \in Code(S) /\ print("SERIAL1", "failed") \in Code(S)
      /\ print("SERIAL1", "error") \in Code(S)
  BY PrintIsCode, MsgFacts
<1>2. do("hlt") \in Code(S)
  BY DoIsCode
<1>3. build # "kernel" => exit_qemu("Failed") \in Code(S)
  BY ExitIsCode
<1>4. print("SERIAL1", "failed") \o print("SERIAL1", "error") \in Code(S)
  BY <1>1, JoinIsCode
<1>5. QED
  BY <1>1, <1>2, <1>3, <1>4, JoinIsCode DEF panic_handler, test_panic_handler

\* Handlers of faults, as far as a table has a gate for them.
LEMMA FaultHandlerIsCode ==
    ASSUME NEW S, Prints \subseteq S, Silent({"hlt"}) \subseteq S,
           idt = "IDT" => /\ Exits({"Failed"}) \subseteq S
                          /\ \A o \in {"top_of_stack", "panic", "loop"} : Silent({o}) \subseteq S,
           idt # "IDT" => Exits({"Success"}) \subseteq S,
           idt \in {"none", "IDT", "TEST_IDT"}, NEW v \in Gates, v \in {"pf", "de", "df"}
    PROVE  Handler(v) \in Code(S)
<1>1. /\ print("WRITER", "divide") \in Code(S) /\ print("WRITER", "double fault") \in Code(S)
      /\ print("SERIAL1", "ok") \in Code(S)
  BY PrintIsCode, MsgFacts
<1>2. CASE idt = "IDT"
  <2>1. do("loop") \in Code(S) /\ do("top_of_stack") \in Code(S) /\ do("panic") \in Code(S)
    BY <1>2, DoIsCode
  <2>2. exit_qemu("Failed") \in Code(S)
    BY <1>2, ExitIsCode
  <2>3. divide_error_handler \in Code(S)
    BY <1>1, <2>1, JoinIsCode DEF divide_error_handler
  <2>4. page_fault_handler \in Code(S)
    BY <2>1, JoinIsCode DEF page_fault_handler
  <2>5. double_fault_handler \in Code(S)
    BY <1>1, <2>2, JoinIsCode DEF double_fault_handler
  <2>6. QED
    BY <1>2, <2>3, <2>4, <2>5 DEF Handler
<1>3. CASE idt # "IDT"
  <2>1. v = "df"
    BY <1>3 DEF Gates
  <2>2. exit_qemu("Success") \in Code(S)
    BY <1>3, ExitIsCode
  <2>3. test_double_fault_handler \in Code(S)
    BY <1>1, <2>2, JoinIsCode DEF test_double_fault_handler
  <2>4. QED
    BY <1>3, <2>1, <2>3 DEF Handler
<1>4. QED
  BY <1>2, <1>3

LEMMA TextIsCode ==
    ASSUME NEW S, Prints \subseteq S
    PROVE  text \in Code(S)
BY PrintIsCode, MsgFacts DEF text

LEMMA ReturningIsCode ==
    ASSUME NEW b \in Builds, b # "overflow"
    PROVE  /\ breakpoint_handler \in Code(HandlerOps(b))
           /\ timer_interrupt_handler \in Code(HandlerOps(b))
           /\ keyboard_interrupt_handler \in Code(HandlerOps(b))
<1> DEFINE S == HandlerOps(b)
<1>1. /\ Prints \subseteq S
      /\ \A o \in {"from_utf8", "iretq", "eoi", "read_port"} : Silent({o}) \subseteq S
  BY HandlerHas
<1> HIDE DEF S
<1>2. /\ do("from_utf8") \in Code(S) /\ do("iretq") \in Code(S) /\ do("eoi") \in Code(S)
      /\ do("read_port") \in Code(S)
  BY <1>1, DoIsCode
<1>3. text \in Code(S) /\ print("WRITER", "warning") \in Code(S)
  BY <1>1, TextIsCode, PrintIsCode, MsgFacts
<1>4. breakpoint_handler \in Code(S)
  <2>1. do("from_utf8") \o text \in Code(S)
    BY <1>2, <1>3, JoinIsCode
  <2>2. QED
    BY <1>2, <2>1, JoinIsCode DEF breakpoint_handler
<1>5. timer_interrupt_handler \in Code(S)
  BY <1>2, JoinIsCode DEF timer_interrupt_handler
<1>6. keyboard_interrupt_handler \in Code(S)
  <2>1. do("read_port") \o print("WRITER", "warning") \in Code(S)
    BY <1>2, <1>3, JoinIsCode
  <2>2. do("read_port") \o print("WRITER", "warning") \o do("eoi") \in Code(S)
    BY <1>2, <2>1, JoinIsCode
  <2>3. QED
    BY <1>2, <2>2, JoinIsCode DEF keyboard_interrupt_handler
<1>7. QED
  BY <1>4, <1>5, <1>6 DEF S

LEMMA HandlerIsCode ==
    ASSUME Types, NEW v \in Gates
    PROVE  /\ Handler(v) \in Code(HandlerOps(build))
           /\ v \in {"pf", "de", "df"} => Handler(v) \in Seq(LastOps(build))
<1>1. idt \in {"none", "IDT", "TEST_IDT"} /\ build \in Builds
  BY DEF Types
<1>2. idt = "IDT" => build # "overflow"
  BY DEF Types
<1>3. idt # "IDT" => v = "df" /\ build = "overflow"
  BY DEF Types, Gates
<1>4. v \in {"pf", "de", "df"} => Handler(v) \in Code(HandlerOps(build))
  BY <1>1, <1>2, <1>3, HandlerHas, FaultHandlerIsCode
<1>5. v \in {"pf", "de", "df"} => Handler(v) \in Code(LastOps(build))
  BY <1>1, <1>2, <1>3, LastHas, FaultHandlerIsCode
<1>6. v \in {"bp", "timer", "keyboard"} => Handler(v) \in Code(HandlerOps(build))
  BY <1>1, <1>2, <1>3, ReturningIsCode DEF Handler
<1>7. v \in {"bp", "de", "df", "pf", "timer", "keyboard"}
  BY <1>1 DEF Gates
<1>8. QED
  BY <1>4, <1>5, <1>6, <1>7 DEF Code

-----------------------------------------------------------------------------
\* Contexts

LEMMA DoHead ==
    ASSUME NEW o
    PROVE  /\ do(o) # <<>> /\ Head(do(o)).op = o /\ Head(do(o)).arg = "" /\ Len(do(o)) = 1
           /\ do(o)[1] = Head(do(o))
<1> DEFINE R == [op : {o}, arg : {""}, msg : {""}]
<1>1. do(o) \in Seq(R) /\ do(o) # <<>> /\ Len(do(o)) = 1
  BY DEF do, Op
<1>2. Head(do(o)) \in R /\ do(o)[1] = Head(do(o))
  <2> HIDE DEF R
  <2> QED BY <1>1
<1>3. QED
  BY <1>1, <1>2

\* Kernel code other than the hlt loop has interrupts off.
LEMMA KernelOp ==
    ASSUME IInv, NEW op, At(op), op # "hlt", op # "user"
    PROVE  /\ cpu.ring = 0 /\ cpu.interrupts = FALSE /\ power = "on" /\ cpu.sp \in Sps
           /\ cpu = [ring |-> 0, interrupts |-> FALSE, sp |-> cpu.sp, code |-> cpu.code]
<1>1. Head(do("hlt")).op = "hlt" /\ Head(do("user")).op = "user"
  BY DoHead
<1>2. cpu.code # do("hlt") /\ cpu.code # do("user")
  BY <1>1 DEF At
<1>3. CASE below = <<>>
  BY <1>2, <1>3 DEF IInv, Stack, IsProgram, At
<1>4. CASE below # <<>>
  BY Zenon, <1>4 DEF IInv, Stack, IsHandler, At
<1>5. QED
  BY Zenon, <1>3, <1>4

\* The next operation is one of the program or of the handler that runs.
LEMMA CpuCode ==
    ASSUME IInv
    PROVE  /\ below = <<>> => cpu.code \in Code(ProgramOps(build))
           /\ below # <<>> => cpu.code \in Code(HandlerOps(build))
BY Zenon DEF IInv, Stack, IsProgram, IsHandler

LEMMA NextOp ==
    ASSUME IInv, NEW op, At(op)
    PROVE  /\ cpu.code # <<>> /\ Head(cpu.code).op = op /\ power = "on" /\ build \in Builds
           /\ below = <<>> => Head(cpu.code) \in ProgramOps(build)
           /\ below # <<>> => Head(cpu.code) \in HandlerOps(build)
           /\ faulted => Head(cpu.code) \in LastOps(build)
<1>1. below = <<>> => cpu.code \in Seq(ProgramOps(build))
  BY CpuCode DEF Code
<1>2. below # <<>> => cpu.code \in Seq(HandlerOps(build))
  BY CpuCode DEF Code
<1>3. cpu.code # <<>> /\ Head(cpu.code).op = op /\ power = "on"
  BY DEF At
<1>4. faulted => cpu.code \in Seq(LastOps(build))
  BY <1>3 DEF IInv, Final, IsLast
<1>5. QED
  BY <1>1, <1>2, <1>3, <1>4 DEF IInv, Types

LEMMA Replaced ==
    ASSUME IInv, build' = build, below' = below, NEW sp \in Sps, NEW code,
           cpu' = [ring |-> 0, interrupts |-> FALSE, sp |-> sp, code |-> code],
           below = <<>> => code \in Code(ProgramOps(build)),
           below # <<>> => code \in Code(HandlerOps(build))
    PROVE  Stack'
<1>1. IsBelow(below', build')
  BY DEF IInv, Stack
<1>2. CASE below = <<>>
  <2>1. IsProgram(cpu', build)
    BY <1>2 DEF IsProgram
  <2>2. QED
    BY <1>1, <1>2, <2>1 DEF Stack
<1>3. CASE below # <<>>
  <2>1. IsHandler(cpu', build)
    BY <1>3 DEF IsHandler
  <2>2. QED
    BY <1>1, <1>3, <2>1 DEF Stack
<1>4. QED
  BY <1>2, <1>3

LEMMA SeqOfItself == ASSUME NEW S, NEW s \in Seq(S) PROVE s \in Seq(Range(s))
<1>1. Len(s) \in Nat /\ s \in [1 .. Len(s) -> S] /\ DOMAIN s = 1 .. Len(s)
  BY LenProperties
<1>2. s \in [1 .. Len(s) -> Range(s)]
  BY <1>1 DEF Range
<1>3. QED
  BY <1>1, <1>2, SeqDef

LEMMA Pushed ==
    ASSUME IInv, build' = build, NEW c,
           below = <<>> => IsProgram(c, build), below # <<>> => IsHandler(c, build),
           below' = Append(below, c), NEW code \in Code(HandlerOps(build)), cpu' = Kernel(code)
    PROVE  Stack' /\ Len(below') = Len(below) + 1 /\ Len(below) \in Nat
<1>1. PICK S : below \in Seq(S)
  BY DEF IInv, Stack, IsBelow
<1>2. below \in Seq(S \cup {c})
  BY <1>1
<1>3. /\ below' \in Seq(S \cup {c}) /\ Len(below') = Len(below) + 1 /\ Len(below) \in Nat
      /\ below' # <<>>
      /\ \A i \in 1 .. Len(below) : below'[i] = below[i]
      /\ below'[Len(below) + 1] = c
  BY <1>2
<1>4. IsProgram(below'[1], build)
  <2>1. CASE below = <<>>
    <3>1. below'[1] = c
      BY <1>2, <1>3, <2>1
    <3>2. QED
      BY <2>1, <3>1
  <2>2. CASE below # <<>>
    <3>1. below'[1] = below[1]
      BY <1>2, <1>3, <2>2
    <3>2. QED
      BY <2>2, <3>1 DEF IInv, Stack, IsBelow
  <2>3. QED
    BY <2>1, <2>2
<1>5. ASSUME NEW i \in 2 .. Len(below')
      PROVE  IsHandler(below'[i], build)
  <2>1. CASE i \in 2 .. Len(below)
    BY <1>3, <2>1 DEF IInv, Stack, IsBelow
  <2>2. CASE i = Len(below) + 1
    <3>1. below # <<>> /\ below'[i] = c
      BY <1>2, <1>3, <1>5, <2>2
    <3>2. QED
      BY <3>1
  <2>3. QED
    BY <1>3, <2>1, <2>2
<1>6. IsBelow(below', build)
  BY Zenon, <1>3, <1>4, <1>5, SeqOfItself DEF IsBelow
<1>7. IsHandler(cpu', build)
  BY DEF Kernel, IsHandler, Sps
<1>8. QED
  BY <1>3, <1>6, <1>7 DEF Stack

Front(s) == SubSeq(s, 1, Len(s) - 1)

LEMMA FrontFacts ==
    ASSUME NEW S, NEW s \in Seq(S), s # <<>>
    PROVE  /\ Front(s) \in Seq(S) /\ Len(Front(s)) = Len(s) - 1 /\ Len(s) \in Nat /\ Len(s) > 0
           /\ \A i \in 1 .. Len(Front(s)) : Front(s)[i] = s[i]
<1> DEFINE n == Len(s) - 1
<1>1. n \in Nat /\ Len(s) = n + 1 /\ Front(s) = SubSeq(s, 1, n)
  BY DEF Front
<1>2. \A i \in 1 .. n : s[i] \in S
  BY <1>1
<1>3. Len(s) \in Nat /\ Len(s) > 0
  BY <1>1
<1> HIDE DEF n
<1>4. 1 \in Int /\ n \in Int
  BY <1>1
<1>5. /\ SubSeq(s, 1, n) \in Seq(S)
      /\ Len(SubSeq(s, 1, n)) = IF 1 <= n THEN n - 1 + 1 ELSE 0
      /\ \A i \in 1 .. n - 1 + 1 : SubSeq(s, 1, n)[i] = s[1 + i - 1]
  BY <1>2, <1>4, SubSeqProperties
<1>6. Len(SubSeq(s, 1, n)) = n
  BY <1>1, <1>5
<1>7. \A i \in 1 .. n : SubSeq(s, 1, n)[i] = s[i]
  BY <1>1, <1>5
<1>8. QED
  BY <1>1, <1>3, <1>5, <1>6, <1>7

LEMMA Popped ==
    ASSUME IInv, build' = build, below # <<>>, cpu' = below[Len(below)],
           below' = SubSeq(below, 1, Len(below) - 1)
    PROVE  /\ Stack' /\ Len(below') = Len(below) - 1 /\ Len(below) \in Nat
           /\ cpu' = below[Len(below)] /\ \A i \in 1 .. Len(below') : below'[i] = below[i]
<1>1. PICK S : below \in Seq(S)
  BY DEF IInv, Stack, IsBelow
<1>2. /\ below' \in Seq(S) /\ Len(below') = Len(below) - 1 /\ Len(below) \in Nat
      /\ Len(below) > 0 /\ cpu' = below[Len(below)]
      /\ \A i \in 1 .. Len(below') : below'[i] = below[i]
  BY <1>1, FrontFacts DEF Front
<1>3. IsBelow(below', build)
  <2>1. below' # <<>> => 1 \in 1 .. Len(below')
    BY <1>2
  <2>2. below' # <<>> => IsProgram(below'[1], build)
    BY <1>2, <2>1 DEF IInv, Stack, IsBelow
  <2>3. \A i \in 2 .. Len(below') : IsHandler(below'[i], build)
    BY <1>2 DEF IInv, Stack, IsBelow
  <2>4. QED
    BY Zenon, <1>2, <2>2, <2>3, SeqOfItself DEF IsBelow
<1>4. CASE below' = <<>>
  <2>1. Len(below) = 1
    <3>1. Len(below') = 0
      <4>1. Len(<<>>) = 0
        OBVIOUS
      <4>2. QED
        BY Zenon, <1>4, <4>1
    <3>2. Len(below') = Len(below) - 1 /\ Len(below) \in Nat
      BY <1>2
    <3>3. QED
      BY <3>1, <3>2
  <2>2. IsProgram(cpu', build)
    BY <1>2, <2>1 DEF IInv, Stack, IsBelow
  <2>3. QED
    BY <1>2, <1>3, <1>4, <2>2 DEF Stack
<1>5. CASE below' # <<>>
  <2>1. Len(below) \in 2 .. Len(below)
    BY <1>2, <1>5
  <2>2. IsHandler(cpu', build)
    BY <1>2, <2>1 DEF IInv, Stack, IsBelow
  <2>3. QED
    BY <1>2, <1>3, <1>5, <2>2 DEF Stack
<1>6. QED
  BY <1>4, <1>5

\* Whatever is not an unlock leaves the locks that matter as they are.
LEMMA HeldStays ==
    ASSUME IInv, cpu.code # <<>> => Head(cpu.code).op # "unlock",
           locked' = locked, caught \subseteq caught'
    PROVE  Held'
BY DEF IInv, Held, Unlocking

LEMMA HeldCaught ==
    ASSUME locked' = locked, caught' = caught \cup locked
    PROVE  Held'
BY DEF Held

-----------------------------------------------------------------------------
\* Every step keeps IInv, and resumes nothing after a fault.

Kept ==
    /\ IInv'
    /\ faulted => Len(below') >= Len(below) /\ cpu'.ring = 0

LEMMA LenIsNat == ASSUME IInv PROVE Len(below) \in Nat
BY DEF IInv, Stack, IsBelow

\* The next operation, with whatever it does to tables, lines and devices.
LEMMA ContinueStep ==
    ASSUME IInv, NEW op, At(op), op # "hlt", op # "user", Continue,
           below' = below, build' = build, faulted' = faulted, Types', Held'
    PROVE  Kept
<1>1. cpu' = [ring |-> 0, interrupts |-> FALSE, sp |-> cpu.sp, code |-> Tail(cpu.code)]
  BY Zenon, KernelOp DEF Continue
<1>2. cpu.sp \in Sps /\ cpu.code # <<>> /\ power = "on"
  BY Zenon, KernelOp DEF At
<1>3. Stack'
  BY Zenon, <1>1, <1>2, CpuCode, TailIsCode, Replaced
<1>4. ASSUME faulted PROVE IsLast(cpu', build')
  <2>1. Tail(cpu.code) \in Seq(LastOps(build))
    BY <1>2, <1>4 DEF IInv, Final, IsLast
  <2>2. QED
    BY <1>1, <2>1 DEF IsLast
<1>5. IInv'
  BY <1>3, <1>4 DEF IInv, Final
<1>6. QED
  BY <1>1, <1>5, LenIsNat DEF Kept

LEMMA PanicStep ==
    ASSUME IInv, NEW op, At(op), op # "hlt", op # "user", build = "overflow" => below = <<>>,
           cpu' = [cpu EXCEPT !.code = panic_handler], below' = below, build' = build,
           faulted' = TRUE, Types', Held'
    PROVE  Kept
<1>1. cpu' = [ring |-> 0, interrupts |-> FALSE, sp |-> cpu.sp, code |-> panic_handler]
  BY Zenon, KernelOp
<1>2. cpu.sp \in Sps /\ build \in Builds
  BY Zenon, KernelOp DEF IInv, Types
<1>3. panic_handler \in Code(ProgramOps(build)) /\ panic_handler \in Code(LastOps(build))
  BY <1>2, PanicIsCode, ProgramHas, LastHas
<1>4. below # <<>> => panic_handler \in Code(HandlerOps(build))
  BY <1>2, PanicIsCode, HandlerHas
<1> HIDE DEF panic_handler
<1>5. Stack'
  BY Zenon, <1>1, <1>2, <1>3, <1>4, Replaced
<1>6. IsLast(cpu', build')
  BY <1>1, <1>3 DEF IsLast, Code
<1>7. IInv'
  BY <1>5, <1>6 DEF IInv, Final
<1>8. QED
  BY <1>1, <1>7, LenIsNat DEF Kept

\* A fault starts a handler that does not return, or resets the CPU.
LEMMA FaultIsDelivered ==
    ASSUME Types, NEW v \in {"pf", "de", "gp"}, NEW sp
    PROVE  \/ Delivered(v, sp) = "reset"
           \/ Delivered(v, sp) \in Gates /\ Delivered(v, sp) \in {"pf", "de", "df"}
<1>1. "gp" \notin Gates
  BY DEF Gates, Types
<1>2. QED
  BY <1>1 DEF Delivered

LEMMA Interrupted ==
    ASSUME IInv, NEW sp \in Sps
    PROVE  /\ below = <<>> => IsProgram([cpu EXCEPT !.sp = sp], build)
           /\ below # <<>> => IsHandler([cpu EXCEPT !.sp = sp], build)
<1>1. CASE below = <<>>
  BY <1>1 DEF IInv, Stack, IsProgram
<1>2. CASE below # <<>>
  BY Zenon, <1>2 DEF IInv, Stack, IsHandler
<1>3. QED
  BY <1>1, <1>2

LEMMA FaultStep ==
    ASSUME IInv, power = "on", NEW v \in {"pf", "de", "gp"}, NEW sp \in Sps, Raise(v, sp),
           build' = build, locked' = locked, faulted' = TRUE, Note,
           power' \in {"on", "reset"} => Types'
    PROVE  Kept
<1>1. Held'
  BY HeldCaught DEF Note
<1>2. CASE Delivered(v, sp) = "reset"
  <2>1. power' = "reset" /\ cpu' = cpu /\ below' = below
    BY <1>2 DEF Raise
  <2>2. faulted => cpu.ring = 0
    BY DEF IInv, Final, IsLast
  <2>3. IInv'
    BY <1>1, <2>1 DEF IInv, Stack, Final
  <2>4. QED
    BY <2>1, <2>2, <2>3, LenIsNat DEF Kept
<1>3. CASE Delivered(v, sp) # "reset"
  <2> DEFINE c == [cpu EXCEPT !.sp = sp]
             code == Handler(Delivered(v, sp))
  <2>1. below' = Append(below, c) /\ cpu' = Kernel(code) /\ power' = power
    BY <1>3 DEF Raise
  <2>2. (below = <<>> => IsProgram(c, build)) /\ (below # <<>> => IsHandler(c, build))
    BY Interrupted
  <2>3. code \in Code(HandlerOps(build)) /\ code \in Seq(LastOps(build))
    BY <1>3, FaultIsDelivered, HandlerIsCode DEF IInv
  <2> HIDE DEF c, code
  <2>4. Stack' /\ Len(below') = Len(below) + 1 /\ Len(below) \in Nat
    BY <2>1, <2>2, <2>3, Pushed
  <2>5. cpu'.ring = 0 /\ IsLast(cpu', build')
    BY <2>1, <2>3 DEF Kernel, IsLast
  <2>6. IInv'
    BY <1>1, <2>1, <2>4, <2>5 DEF IInv, Final
  <2>7. QED
    BY <2>4, <2>5, <2>6 DEF Kept
<1>4. QED
  BY <1>2, <1>3

\* A step before any fault.
LEMMA EarlyStep ==
    ASSUME ~faulted, faulted' = FALSE, Types', Stack', Held'
    PROVE  Kept
BY DEF Kept, IInv, Final

\* Steps that leave the contexts as they are.
LEMMA IdleStep ==
    ASSUME IInv, power = "on", UNCHANGED <<build, cpu, below, locked, caught, faulted>>, Types'
    PROVE  Kept
<1>1. faulted => cpu.ring = 0
  BY DEF IInv, Final, IsLast
<1>2. IInv'
  BY DEF IInv, Stack, Final, IsLast, Held
<1>3. QED
  BY <1>1, <1>2, LenIsNat DEF Kept

LEMMA LoadStep == IInv /\ Load => Kept
<1> SUFFICES ASSUME IInv, Load PROVE Kept
  OBVIOUS
<1>1. /\ below' = below /\ build' = build /\ faulted' = faulted /\ caught' = caught
      /\ locked' = locked /\ Continue
  BY DEF Load, hist, dev
<1>2. PICK op \in {"init_idt", "init_test_idt", "initialize"} : At(op)
  BY DEF Load
<1>3. Held'
  BY <1>1, <1>2, NextOp, HeldStays
<1>4. At("init_idt") => build # "overflow"
  BY NextOp, OpOfProgram, OpOfHandler
<1>5. At("init_test_idt") => build = "overflow"
  BY NextOp, OpOfProgram, OpOfHandler
<1>6. idt' \in (IF build = "overflow" THEN {"none", "TEST_IDT"} ELSE {"none", "IDT"})
  BY <1>4, <1>5 DEF Load, IInv, Types
<1>7. pics' \in BOOLEAN
  BY DEF Load
<1>8. Types'
  BY <1>6, <1>7 DEF Load, IInv, Types, pic, dev, hist
<1>9. QED
  BY <1>1, <1>2, <1>3, <1>8, ContinueStep

\* A context that panics runs the panic handler.
LEMMA PanicsStep == IInv /\ (MayPanic \/ Panic) => Kept
<1> SUFFICES ASSUME IInv, MayPanic \/ Panic PROVE Kept
  OBVIOUS
<1>1. below' = below /\ build' = build /\ locked' = locked
  BY DEF MayPanic, Panic, dev
<1>2. PICK op \in {"gdt_init", "kernel_main", "from_utf8", "panic"} : At(op)
  BY DEF MayPanic, Panic
<1>3. build = "overflow" => below = <<>>
  BY <1>2, NextOp, OpOfHandler
<1>4. CASE Continue /\ faulted' = faulted /\ caught' = caught
  <2>1. Held'
    BY <1>1, <1>2, <1>4, NextOp, HeldStays
  <2>2. Types'
    BY <1>4 DEF MayPanic, Panic, IInv, Types, pic, dev
  <2>3. QED
    BY <1>1, <1>2, <1>4, <2>1, <2>2, ContinueStep
<1>5. CASE cpu' = [cpu EXCEPT !.code = panic_handler] /\ Note
  <2>1. Held'
    BY <1>1, <1>5, HeldCaught DEF Note
  <2>2. Types'
    BY <1>5 DEF MayPanic, Panic, IInv, Types, pic, dev, Note
  <2>3. faulted' = TRUE
    BY <1>5 DEF Note
  <2>4. QED
    BY <1>1, <1>2, <1>3, <1>5, <2>1, <2>2, <2>3, PanicStep
<1>6. QED
  BY <1>4, <1>5 DEF MayPanic, Panic

LEMMA SecondIsNext ==
    ASSUME NEW S, NEW s \in Seq(S), Len(s) > 1
    PROVE  Tail(s) # <<>> /\ Head(Tail(s)) = s[2]
<1> DEFINE t == Tail(s)
<1>1. t \in Seq(S) /\ Len(t) = Len(s) - 1 /\ Len(s) \in Nat
  OBVIOUS
<1>2. t[1] = s[2]
  BY <1>1
<1> HIDE DEF t
<1>3. Len(t) # 0
  BY <1>1
<1>4. t # <<>> /\ Head(t) = t[1]
  BY <1>1, <1>3
<1>5. QED
  BY <1>2, <1>4 DEF t

LEMMA LockStep == IInv /\ Lock => Kept
<1> SUFFICES ASSUME IInv, Lock PROVE Kept
  OBVIOUS
<1>1. /\ below' = below /\ build' = build /\ faulted' = faulted /\ caught' = caught
      /\ Continue /\ At("lock") /\ locked' = locked \cup {Arg}
  BY DEF Lock, hist
<1>2. Head(cpu.code) \in Prints
  BY <1>1, NextOp, OpOfProgram, OpOfHandler
<1>3. Arg \in Devices /\ Msg \in Msgs
  BY <1>2 DEF Prints, Arg, Msg
<1>4. serial' \in Seq(Msgs) /\ screen' \subseteq Msgs
  BY <1>3 DEF Lock, IInv, Types
<1>5. Types'
  BY <1>1, <1>3, <1>4 DEF Lock, IInv, Types, pic, hist
<1>6. cpu'.code = Tail(cpu.code)
  <2>1. cpu = [ring |-> 0, interrupts |-> FALSE, sp |-> cpu.sp, code |-> cpu.code]
    BY Zenon, <1>1, KernelOp
  <2>2. QED
    BY <1>1, <2>1 DEF Continue
<1>7. Unlocking(cpu'.code, Arg)
  <2>1. PICK S : cpu.code \in Code(S)
    BY CpuCode
  <2>2. cpu.code # <<>> /\ Head(cpu.code).op = "lock" /\ cpu.code \in Seq(S) /\ Paired(cpu.code)
    BY <1>1, <2>1 DEF At, Code
  <2>3. Head(cpu.code) = cpu.code[1] /\ Len(cpu.code) \in Nat /\ Len(cpu.code) >= 1
    BY <2>2
  <2>4. Len(cpu.code) > 1 /\ cpu.code[2].op = "unlock" /\ cpu.code[2].arg = cpu.code[1].arg
    BY <2>2, <2>3 DEF Paired
  <2>5. Tail(cpu.code) # <<>> /\ Head(Tail(cpu.code)) = cpu.code[2]
    BY <2>2, <2>4, SecondIsNext
  <2>6. QED
    BY <1>6, <2>3, <2>4, <2>5 DEF Unlocking, Arg
<1>8. \A d \in locked : d \in caught
  BY <1>1 DEF IInv, Held, Unlocking, At
<1>9. Held'
  BY <1>1, <1>7, <1>8 DEF Held
<1>10. QED
  BY <1>1, <1>5, <1>9, ContinueStep

LEMMA UnlockStep == IInv /\ Unlock => Kept
<1> SUFFICES ASSUME IInv, Unlock PROVE Kept
  OBVIOUS
<1>1. /\ below' = below /\ build' = build /\ faulted' = faulted /\ caught' = caught
      /\ Continue /\ At("unlock") /\ locked' = locked \ {Arg}
  BY DEF Unlock, hist
<1>2. Types'
  BY DEF Unlock, IInv, Types, pic, hist
<1>3. \A d \in locked' : d \in caught
  BY <1>1 DEF IInv, Held, Unlocking, Arg
<1>4. Held'
  BY <1>1, <1>3 DEF Held
<1>5. QED
  BY <1>1, <1>2, <1>4, ContinueStep

LEMMA PlainStep == IInv /\ (ReadPort \/ Eoi) => Kept
<1> SUFFICES ASSUME IInv, ReadPort \/ Eoi PROVE Kept
  OBVIOUS
<1>1. /\ below' = below /\ build' = build /\ faulted' = faulted /\ Continue
      /\ locked' = locked /\ caught' = caught
  BY DEF ReadPort, Eoi, hist, dev
<1>2. PICK op \in {"read_port", "eoi"} : At(op)
  BY DEF ReadPort, Eoi
<1>3. Held'
  BY <1>1, <1>2, NextOp, HeldStays
<1>4. Types'
  BY Zenon DEF ReadPort, Eoi, notify_end_of_interrupt, IInv, Types, dev, hist
<1>5. QED
  BY <1>1, <1>2, <1>3, <1>4, ContinueStep

LEMMA ExitStep == IInv /\ Exit => Kept
<1> SUFFICES ASSUME IInv, Exit PROVE Kept
  OBVIOUS
<1>1. /\ At("exit") /\ power = "on" /\ below' = below /\ build' = build /\ faulted' = faulted
      /\ locked' = locked /\ caught' = caught
  BY DEF Exit, At, hist, dev
<1>2. Arg \in {"Success", "Failed"}
  BY <1>1, NextOp, OpOfProgram, OpOfHandler DEF Arg
<1>3. Types'
  BY <1>2 DEF Exit, IInv, Types, pic, dev, hist
<1>4. CASE Continue
  <2>1. Held'
    BY <1>1, NextOp, HeldStays
  <2>2. QED
    BY <1>1, <1>3, <1>4, <2>1, ContinueStep
<1>5. CASE cpu' = cpu
  BY <1>1, <1>3, <1>5, IdleStep
<1>6. QED
  BY <1>4, <1>5 DEF Exit

LEMMA TopOfStackStep == IInv /\ TopOfStack => Kept
<1> SUFFICES ASSUME IInv, TopOfStack PROVE Kept
  OBVIOUS
<1>1. At("top_of_stack") /\ power = "on" /\ build' = build /\ locked' = locked
  BY DEF TopOfStack, At, dev
<1>2. CASE Continue /\ below' = below /\ faulted' = faulted /\ caught' = caught /\ power' = power
  <2>1. Types'
    BY <1>2 DEF TopOfStack, IInv, Types, pic, dev
  <2>2. Held'
    BY <1>1, <1>2, NextOp, HeldStays
  <2>3. QED
    BY <1>1, <1>2, <2>1, <2>2, ContinueStep
<1>3. CASE (Raise("pf", "mapped") \/ Raise("gp", "mapped")) /\ Note
  <2>1. power' \in {"on", "reset"} => Types'
    BY <1>3 DEF TopOfStack, IInv, Types, pic, dev, Note
  <2>2. faulted' = TRUE
    BY <1>3 DEF Note
  <2>3. "mapped" \in Sps
    BY DEF Sps
  <2>4. QED
    BY <1>1, <1>3, <2>1, <2>2, <2>3, FaultStep
<1>4. QED
  BY <1>2, <1>3 DEF TopOfStack

\* Only handlers execute iretq, so there is a context to return to.
LEMMA IretqStep == IInv /\ Iretq => Kept
<1> SUFFICES ASSUME IInv, Iretq PROVE Kept
  OBVIOUS
<1>1. At("iretq") /\ build' = build /\ faulted' = faulted /\ locked' = locked /\ caught' = caught
  BY DEF Iretq, hist, dev
<1>2. ~faulted /\ below # <<>>
  BY <1>1, NextOp, OpOfProgram, OpAfterFault
<1>3. Stack'
  BY <1>1, <1>2, Popped DEF Iretq
<1>4. Held'
  BY <1>1, NextOp, HeldStays
<1>5. Types'
  BY DEF Iretq, IInv, Types, pic, dev, hist
<1>6. faulted' = FALSE
  BY <1>1, <1>2 DEF IInv, Types
<1>7. QED
  BY Zenon, <1>2, <1>3, <1>4, <1>5, <1>6, EarlyStep

LEMMA RunIsCode == run \in Code(ProgramOps("tests"))
<1> DEFINE S == ProgramOps("tests")
<1>1. Prints \subseteq S /\ Silent({"test"}) \subseteq S
  BY ProgramHas DEF Builds
<1> HIDE DEF S
<1>2. print("SERIAL1", "name") \in Code(S) /\ print("SERIAL1", "ok") \in Code(S)
  BY <1>1, PrintIsCode, MsgFacts
<1>3. do("test") \in Code(S)
  BY <1>1, DoIsCode
<1>4. print("SERIAL1", "name") \o do("test") \in Code(S)
  BY <1>2, <1>3, JoinIsCode
<1>5. QED
  BY <1>2, <1>4, JoinIsCode DEF run, S

LEMMA ForStep == IInv /\ For => Kept
<1> SUFFICES ASSUME IInv, For PROVE Kept
  OBVIOUS
<1>1. /\ At("for") /\ build' = build /\ faulted' = faulted /\ locked' = locked
      /\ caught' = caught /\ below' = below
  BY DEF For, hist, dev
<1>2. ~faulted /\ below = <<>> /\ build = "tests"
  BY <1>1, NextOp, OpOfProgram, OpOfHandler, OpAfterFault
<1>3. Held'
  BY <1>1, NextOp, HeldStays
<1>4. Types'
  BY CountAssumption DEF For, IInv, Types, pic, dev, hist
<1>5. CASE Continue
  BY <1>1, <1>3, <1>4, <1>5, ContinueStep
<1>6. CASE cpu' = [cpu EXCEPT !.code = run \o @]
  <2> DEFINE code == run \o cpu.code
  <2>1. cpu' = [cpu EXCEPT !.code = code]
    BY <1>6
  <2>2. code \in Code(ProgramOps(build))
    BY <1>2, CpuCode, RunIsCode, JoinIsCode
  <2> HIDE DEF code
  <2>3. cpu' = [ring |-> 0, interrupts |-> FALSE, sp |-> cpu.sp, code |-> code]
    BY Zenon, <1>1, <2>1, KernelOp
  <2>4. Stack'
    BY Zenon, <1>1, <1>2, <2>2, <2>3, KernelOp, Replaced
  <2>5. faulted' = FALSE
    BY <1>1, <1>2 DEF IInv, Types
  <2>6. QED
    BY Zenon, <1>2, <1>3, <1>4, <2>4, <2>5, EarlyStep
<1>7. QED
  BY <1>5, <1>6 DEF For

LEMMA TestStep == IInv /\ Test => Kept
<1> SUFFICES ASSUME IInv, Test PROVE Kept
  OBVIOUS
<1>1. At("test") /\ build' = build /\ locked' = locked
  BY DEF Test, dev
<1>2. ~faulted /\ below = <<>> /\ build = "tests" /\ cpu.code # <<>>
  BY <1>1, NextOp, OpOfProgram, OpOfHandler, OpAfterFault
<1>3. Tail(cpu.code) \in Code(ProgramOps(build))
  BY <1>2, CpuCode, TailIsCode
<1>4. ASSUME faulted' = faulted, caught' = caught
      PROVE  Held'
  BY <1>1, <1>4, NextOp, HeldStays
<1>5. ASSUME faulted' = faulted, caught' = caught, power' = power
      PROVE  Types' /\ faulted' = FALSE
  <2>1. Types'
    BY <1>5 DEF Test, IInv, Types, pic, dev
  <2>2. QED
    BY <1>2, <1>5, <2>1 DEF IInv, Types
<1>6. CASE Continue /\ UNCHANGED <<below, power, faulted, caught>>
  BY <1>1, <1>4, <1>5, <1>6, ContinueStep
<1>7. CASE /\ cpu' = [cpu EXCEPT !.code = text \o Tail(@)]
           /\ UNCHANGED <<below, power, faulted, caught>>
  <2> DEFINE code == text \o Tail(cpu.code)
  <2>1. cpu' = [cpu EXCEPT !.code = code]
    BY <1>7
  <2>2. code \in Code(ProgramOps(build))
    <3>1. text \in Code(ProgramOps(build))
      BY TextIsCode, ProgramHas DEF IInv, Types
    <3>2. QED
      BY <1>3, <3>1, JoinIsCode
  <2> HIDE DEF code
  <2>3. cpu' = [ring |-> 0, interrupts |-> FALSE, sp |-> cpu.sp, code |-> code]
    BY Zenon, <1>1, <2>1, KernelOp
  <2>4. Stack'
    BY Zenon, <1>1, <1>2, <1>7, <2>2, <2>3, KernelOp, Replaced
  <2>5. QED
    BY <1>2, <1>4, <1>5, <1>7, <2>4, EarlyStep
<1>8. CASE cpu' = [cpu EXCEPT !.code = panic_handler] /\ Note /\ UNCHANGED <<below, power>>
  <2>1. Held'
    BY <1>1, <1>8, HeldCaught DEF Note
  <2>2. Types' /\ faulted' = TRUE
    BY <1>8 DEF Test, IInv, Types, pic, dev, Note
  <2>3. QED
    BY <1>1, <1>2, <1>8, <2>1, <2>2, PanicStep
<1>9. CASE /\ below' = Append(below, [cpu EXCEPT !.code = Tail(@)])
           /\ cpu' = Kernel(breakpoint_handler)
           /\ UNCHANGED <<power, faulted, caught>>
  <2> DEFINE c == [cpu EXCEPT !.code = Tail(@)]
             code == Tail(cpu.code)
             bp == breakpoint_handler
  <2>1. c = [cpu EXCEPT !.code = code]
    OBVIOUS
  <2>2. bp \in Code(HandlerOps(build))
    BY <1>2, ReturningIsCode DEF Builds
  <2> HIDE DEF c, code, bp
  <2>3. c = [ring |-> 0, interrupts |-> FALSE, sp |-> cpu.sp, code |-> code] /\ cpu.sp \in Sps
    BY Zenon, <1>1, <2>1, KernelOp
  <2>4. IsProgram(c, build)
    BY <1>3, <2>3 DEF IsProgram, code
  <2>5. Stack'
    BY <1>1, <1>2, <1>9, <2>2, <2>4, Pushed DEF c, bp
  <2>6. QED
    BY <1>2, <1>4, <1>5, <1>9, <2>5, EarlyStep
<1>10. QED
  BY <1>6, <1>7, <1>8, <1>9 DEF Test

LEMMA FaultsStep == IInv /\ (StackOverflow \/ UserFault \/ KernelFault) => Kept
<1> SUFFICES ASSUME IInv, StackOverflow \/ UserFault \/ KernelFault PROVE Kept
  OBVIOUS
<1>1. power = "on" /\ build' = build /\ locked' = locked /\ faulted' = TRUE /\ Note
  BY DEF StackOverflow, UserFault, KernelFault, At, Note, dev
<1>2. PICK v \in {"pf", "de", "gp"}, sp \in Sps : Raise(v, sp)
  BY DEF StackOverflow, UserFault, KernelFault, Sps
<1>3. faults' \in 0 .. MaxFaults
  BY CountAssumption DEF StackOverflow, UserFault, KernelFault, IInv, Types
<1>4. power' \in {"on", "reset"} => Types'
  BY Zenon, <1>1, <1>3 DEF StackOverflow, UserFault, KernelFault, IInv, Types, pic, dev, Note
<1>5. QED
  BY <1>1, <1>2, <1>4, FaultStep

LEMMA UserStep == IInv /\ (EnterUserMode \/ SystemCall) => Kept
<1> SUFFICES ASSUME IInv, EnterUserMode \/ SystemCall PROVE Kept
  OBVIOUS
<1>1. /\ At("user") /\ below' = below /\ build' = build /\ locked' = locked /\ power' = power
  BY DEF EnterUserMode, SystemCall, dev
<1>2. ~faulted /\ below = <<>> /\ build = "kernel" /\ build \in Builds
  BY <1>1, NextOp, OpOfProgram, OpOfHandler, OpAfterFault
<1>3. ASSUME caught' = caught
      PROVE  Held'
  BY <1>1, <1>3, NextOp, HeldStays
<1>4. ASSUME faulted' = faulted, caught' = caught
      PROVE  Types' /\ faulted' = FALSE
  <2>1. Types'
    BY <1>4 DEF EnterUserMode, SystemCall, IInv, Types, pic, dev, hist
  <2>2. QED
    BY <1>2, <1>4, <2>1 DEF IInv, Types
<1>5. do("user") \in Code(ProgramOps(build)) /\ do("hlt") \in Code(ProgramOps(build))
  BY <1>2, ProgramHas, DoIsCode
<1>6. IsBelow(below', build')
  BY <1>1 DEF IInv, Stack
<1>7. ASSUME IsProgram(cpu', build) PROVE Stack'
  BY <1>1, <1>2, <1>6, <1>7 DEF Stack
<1>8. CASE EnterUserMode
  <2>1. IsProgram(cpu', build)
    BY <1>5, <1>8 DEF EnterUserMode, User, IsProgram, Sps
  <2>2. QED
    BY <1>2, <1>3, <1>4, <1>7, <1>8, <2>1, EarlyStep DEF EnterUserMode, hist
<1>9. ASSUME NEW code \in Code(ProgramOps(build)), cpu' = Kernel(code),
             faulted' = faulted, caught' = caught
      PROVE  Kept
  <2>1. IsProgram(cpu', build)
    BY <1>9 DEF Kernel, IsProgram, Sps
  <2>2. QED
    BY <1>2, <1>3, <1>4, <1>7, <1>9, <2>1, EarlyStep
<1>10. CASE /\ \E output \in {<<>>, text, text \o text} : cpu' = Kernel(output \o do("user"))
            /\ faulted' = faulted /\ caught' = caught
  <2>1. PICK output \in {<<>>, text, text \o text} : cpu' = Kernel(output \o do("user"))
    BY Zenon, <1>10
  <2>2. text \in Code(ProgramOps(build))
    BY <1>2, TextIsCode, ProgramHas
  <2>3. <<>> \in Code(ProgramOps(build))
    BY DEF Code, Paired
  <2>4. output \in Code(ProgramOps(build))
    BY Zenon, <2>1, <2>2, <2>3, JoinIsCode
  <2>5. output \o do("user") \in Code(ProgramOps(build))
    BY <1>5, <2>4, JoinIsCode
  <2>6. QED
    BY <1>9, <1>10, <2>1, <2>5
<1>11. CASE /\ cpu' = [Kernel(do("hlt")) EXCEPT !.interrupts = TRUE]
            /\ faulted' = faulted /\ caught' = caught
  <2>1. cpu' = [ring |-> 0, interrupts |-> TRUE, sp |-> "mapped", code |-> do("hlt")]
    BY Zenon, <1>11 DEF Kernel
  <2>2. IsProgram(cpu', build)
    BY <1>5, <2>1 DEF IsProgram, Sps
  <2>3. QED
    BY <1>2, <1>3, <1>4, <1>7, <1>11, <2>2, EarlyStep
<1>12. CASE SystemCall /\ cpu' = Kernel(panic_handler) /\ Note
  <2>1. panic_handler \in Code(ProgramOps(build)) /\ panic_handler \in Code(LastOps(build))
    BY <1>2, PanicIsCode, ProgramHas, LastHas
  <2> HIDE DEF panic_handler
  <2>2. IsProgram(cpu', build) /\ IsLast(cpu', build)
    BY <1>12, <2>1 DEF Kernel, IsProgram, Sps, IsLast, Code
  <2>3. Held' /\ faulted' = TRUE
    BY <1>1, <1>12, HeldCaught DEF Note
  <2>4. Types'
    BY <1>12 DEF SystemCall, IInv, Types, pic, dev, Note
  <2>5. IInv'
    BY <1>1, <1>7, <2>2, <2>3, <2>4 DEF IInv, Final
  <2>6. QED
    BY <1>2, <2>5 DEF Kept
<1>13. QED
  BY <1>8, <1>10, <1>11, <1>12 DEF SystemCall

\* After a fault interrupts are off.
LEMMA InterruptStep ==
    ASSUME NEW line \in {"timer", "keyboard"}, IInv, Interrupt(line)
    PROVE  Kept
<1>1. /\ power = "on" /\ cpu.interrupts = TRUE /\ build' = build /\ faulted' = faulted
      /\ locked' = locked /\ caught' = caught /\ Raise(Vector(line), cpu.sp)
  <2>1. cpu.interrupts \in BOOLEAN
    BY Zenon DEF IInv, Stack, IsProgram, IsHandler
  <2>2. QED
    BY <2>1 DEF Interrupt, hist, dev
<1>2. ~faulted
  BY <1>1 DEF IInv, Final, IsLast
<1>3. below = <<>> /\ cpu.code \in {do("user"), do("hlt")}
  BY Zenon, <1>1 DEF IInv, Stack, IsProgram, IsHandler
<1>4. Held'
  <2>1. Head(do("user")).op = "user" /\ Head(do("hlt")).op = "hlt"
    BY DoHead
  <2>2. Head(cpu.code).op # "unlock"
    BY <1>3, <2>1
  <2>3. QED
    BY <1>1, <2>2, HeldStays
<1>5. power' \in {"on", "reset"}
  BY <1>1 DEF Raise
<1>6. Types' /\ faulted' = FALSE
  <2>1. Types'
    BY <1>5 DEF Interrupt, IInv, Types, dev, hist
  <2>2. QED
    BY <1>1, <1>2, <2>1 DEF IInv, Types
<1>7. CASE cpu' = cpu /\ below' = below
  BY <1>1, <1>6, <1>7, IdleStep
<1>8. CASE /\ below' = Append(below, [cpu EXCEPT !.sp = cpu.sp])
           /\ Delivered(Vector(line), cpu.sp) \in Gates
           /\ cpu' = Kernel(Handler(Delivered(Vector(line), cpu.sp)))
  <2> DEFINE c == [cpu EXCEPT !.sp = cpu.sp]
             code == Handler(Delivered(Vector(line), cpu.sp))
  <2>1. cpu.sp \in Sps
    BY Zenon DEF IInv, Stack, IsProgram, IsHandler
  <2>2. (below = <<>> => IsProgram(c, build)) /\ (below # <<>> => IsHandler(c, build))
    BY <2>1, Interrupted
  <2>3. code \in Code(HandlerOps(build))
    BY <1>8, HandlerIsCode DEF IInv
  <2> HIDE DEF c, code
  <2>4. Stack'
    BY <1>1, <1>8, <2>2, <2>3, Pushed DEF c, code
  <2>5. QED
    BY <1>2, <1>4, <1>6, <2>4, EarlyStep
<1>9. Delivered(Vector(line), cpu.sp) = "reset" \/ Delivered(Vector(line), cpu.sp) \in Gates
  BY DEF Delivered
<1>10. QED
  BY <1>1, <1>7, <1>8, <1>9 DEF Raise

LEMMA NextKept == IInv /\ Next => Kept
<1> SUFFICES ASSUME IInv, Next PROVE Kept
  OBVIOUS
<1>1. CASE Tick \/ KeyPress
  <2>1. Types'
    BY Zenon, <1>1 DEF Tick, KeyPress, IInv, Types, dev, hist
  <2>2. QED
    BY <1>1, <2>1, IdleStep DEF Tick, KeyPress, dev, hist
<1>2. CASE \E line \in {"timer", "keyboard"} : Interrupt(line)
  BY <1>2, InterruptStep
<1>3. CASE Execute
  BY <1>3, LoadStep, PanicsStep, LockStep, UnlockStep, PlainStep, ExitStep, TopOfStackStep,
     IretqStep, ForStep, TestStep, FaultsStep, UserStep DEF Execute
<1>4. CASE SystemCall \/ UserFault \/ KernelFault
  BY <1>4, UserStep, FaultsStep
<1>5. QED
  BY <1>1, <1>2, <1>3, <1>4 DEF Next

\* The programs start as they should.
LEMMA StartIsCode ==
    /\ kernel_main \in Code(ProgramOps("kernel"))
    /\ test_runner \in Code(ProgramOps("tests"))
    /\ overflow_test \in Code(ProgramOps("overflow"))
<1>1. ASSUME NEW b \in {"kernel", "tests"}
      PROVE  init \in Code(ProgramOps(b))
  <2>1. /\ do("gdt_init") \in Code(ProgramOps(b)) /\ do("init_idt") \in Code(ProgramOps(b))
        /\ do("initialize") \in Code(ProgramOps(b))
    BY ProgramHas, DoIsCode DEF Builds
  <2>2. do("gdt_init") \o do("init_idt") \in Code(ProgramOps(b))
    BY <2>1, JoinIsCode
  <2>3. QED
    BY <2>1, <2>2, JoinIsCode DEF init
<1>2. kernel_main \in Code(ProgramOps("kernel"))
  <2> DEFINE S == ProgramOps("kernel")
  <2>1. do("kernel_main") \in Code(S) /\ do("user") \in Code(S)
    BY ProgramHas, DoIsCode DEF Builds
  <2>2. init \in Code(S)
    BY <1>1
  <2> HIDE DEF S
  <2>3. init \o do("kernel_main") \in Code(S)
    BY <2>1, <2>2, JoinIsCode
  <2>4. QED
    BY <2>1, <2>3, JoinIsCode DEF kernel_main, S
<1>3. test_runner \in Code(ProgramOps("tests"))
  <2> DEFINE S == ProgramOps("tests")
  <2>1. do("for") \in Code(S)
    BY ProgramHas, DoIsCode DEF Builds
  <2>2. exit_qemu("Success") \in Code(S)
    BY ProgramHas, ExitIsCode DEF Builds
  <2>3. print("SERIAL1", "running") \in Code(S)
    BY ProgramHas, PrintIsCode, MsgFacts DEF Builds
  <2>4. init \in Code(S)
    BY <1>1
  <2> HIDE DEF S
  <2>5. init \o print("SERIAL1", "running") \in Code(S)
    BY <2>3, <2>4, JoinIsCode
  <2>6. init \o print("SERIAL1", "running") \o do("for") \in Code(S)
    BY <2>1, <2>5, JoinIsCode
  <2>7. QED
    BY <2>2, <2>6, JoinIsCode DEF test_runner, S
<1>4. overflow_test \in Code(ProgramOps("overflow"))
  <2> DEFINE S == ProgramOps("overflow")
  <2>1. /\ do("gdt_init") \in Code(S) /\ do("init_test_idt") \in Code(S)
        /\ do("overflow") \in Code(S) /\ do("panic") \in Code(S)
    BY ProgramHas, DoIsCode DEF Builds
  <2>2. print("SERIAL1", "name") \in Code(S)
    BY ProgramHas, PrintIsCode, MsgFacts DEF Builds
  <2> HIDE DEF S
  <2>3. print("SERIAL1", "name") \o do("gdt_init") \in Code(S)
    BY <2>1, <2>2, JoinIsCode
  <2>4. print("SERIAL1", "name") \o do("gdt_init") \o do("init_test_idt") \in Code(S)
    BY <2>1, <2>3, JoinIsCode
  <2>5. print("SERIAL1", "name") \o do("gdt_init") \o do("init_test_idt") \o do("overflow")
            \in Code(S)
    BY <2>1, <2>4, JoinIsCode
  <2>6. QED
    BY <2>1, <2>5, JoinIsCode DEF overflow_test, S
<1>5. QED
  BY <1>2, <1>3, <1>4

LEMMA InitIInv == Init => IInv
<1> SUFFICES ASSUME Init PROVE IInv
  OBVIOUS
<1>1. build \in Builds /\ below = <<>>
  BY DEF Init, Builds
<1>2. PICK code \in Code(ProgramOps(build)) : cpu = Kernel(code)
  BY <1>1, StartIsCode DEF Init, Builds
<1>3. IsProgram(cpu, build)
  BY <1>2 DEF Kernel, IsProgram, Sps
<1>4. IsBelow(below, build)
  BY <1>1 DEF IsBelow, Range
<1>5. Types
  <2>1. serial \in Seq(Msgs)
    BY DEF Init
  <2>2. faults \in 0 .. MaxFaults /\ left \in 0 .. Tests
    BY CountAssumption DEF Init
  <2>3. faulted \in BOOLEAN /\ pics \in BOOLEAN /\ ps2 \in BOOLEAN
    BY Zenon DEF Init
  <2>4. /\ idt = "none" /\ power = "on" /\ irr = {} /\ isr = {} /\ locked = {}
        /\ caught = {} /\ screen = {}
    BY DEF Init
  <2>5. QED
    BY <1>1, <2>1, <2>2, <2>3, <2>4 DEF Types
<1>6. QED
  BY <1>1, <1>3, <1>4, <1>5 DEF Init, IInv, Stack, Final, Held

LEMMA StutterIInv == IInv /\ UNCHANGED vars => IInv'
BY DEF vars, IInv, Types, Stack, Final, Held

LEMMA IInvHolds == Spec => []IInv
<1>1. IInv /\ [Next]_vars => IInv'
  BY NextKept, StutterIInv DEF Kept
<1>2. QED
  BY <1>1, InitIInv, PTL DEF Spec

LEMMA IInvImpliesTypeOK == IInv => TypeOK
<1> SUFFICES ASSUME IInv PROVE TypeOK
  OBVIOUS
<1>1. \A c : IsProgram(c, build) \/ IsHandler(c, build) =>
          /\ c.ring \in {0, 3} /\ c.interrupts \in BOOLEAN /\ c.sp \in Sps
          /\ c.ring = 3 => c.interrupts /\ c.code = do("user")
  <2>1. ASSUME NEW c, IsProgram(c, build)
        PROVE  /\ c.ring \in {0, 3} /\ c.interrupts \in BOOLEAN /\ c.sp \in Sps
               /\ c.ring = 3 => c.interrupts /\ c.code = do("user")
    BY <2>1 DEF IsProgram
  <2>2. ASSUME NEW c, IsHandler(c, build)
        PROVE  /\ c.ring \in {0, 3} /\ c.interrupts \in BOOLEAN /\ c.sp \in Sps
               /\ c.ring = 3 => c.interrupts /\ c.code = do("user")
    <3>1. c.ring = 0 /\ c.interrupts = FALSE /\ c.sp \in Sps
      BY Zenon, <2>2 DEF IsHandler
    <3>2. c.ring \in {0, 3} /\ c.ring # 3
      BY <3>1
    <3>3. c.interrupts \in BOOLEAN
      BY Zenon, <3>1
    <3>4. QED
      BY <3>1, <3>2, <3>3
  <2>3. QED
    BY <2>1, <2>2
<1>2. \A c \in Range(below) : IsProgram(c, build) \/ IsHandler(c, build)
  <2> SUFFICES ASSUME NEW c \in Range(below) PROVE IsProgram(c, build) \/ IsHandler(c, build)
    OBVIOUS
  <2>1. PICK S : below \in Seq(S)
    BY DEF IInv, Stack, IsBelow
  <2>2. PICK i \in 1 .. Len(below) : c = below[i]
    BY <2>1 DEF Range
  <2>3. Len(below) \in Nat /\ below # <<>> /\ (i = 1 \/ i \in 2 .. Len(below))
    BY <2>1, <2>2
  <2>4. QED
    BY <2>2, <2>3 DEF IInv, Stack, IsBelow
<1>3. IsProgram(cpu, build) \/ IsHandler(cpu, build)
  BY DEF IInv, Stack
<1>4. \A c \in Contexts : IsProgram(c, build) \/ IsHandler(c, build)
  BY <1>2, <1>3 DEF Contexts
<1>5. \A c \in Contexts : /\ c.ring \in {0, 3} /\ c.interrupts \in BOOLEAN
                          /\ c.sp \in {"mapped", "unmapped", "noncanonical"}
                          /\ c.ring = 3 => c.interrupts /\ c.code = do("user")
  BY <1>1, <1>4 DEF Sps
<1>6. below # <<>> => cpu.ring = 0
  BY DEF IInv, Stack, IsHandler
<1>7. At("iretq") \/ At("top_of_stack") => below # <<>>
  BY NextOp, OpOfProgram
<1>8. QED
  BY <1>5, <1>6, <1>7 DEF TypeOK, IInv, Types, Builds

\* The state keeps its shape, for any number of tests and faults: user code runs
\* with interrupts on below all handlers, and an iretq or a look at the interrupted
\* stack pointer finds the context that was interrupted.
THEOREM TypeCorrect == Spec => []TypeOK
BY IInvHolds, IInvImpliesTypeOK, PTL

\* A Mutex of a device is spun on for ever only after a fault or a panic hit while
\* it was held: every print gives its lock back, with interrupts off in between.
THEOREM NoSelfDeadlock == Spec => []HangNeedsFaultInPrint
<1>1. IInv => HangNeedsFaultInPrint
  BY DEF IInv, Held, Unlocking, HangNeedsFaultInPrint, At
<1>2. QED
  BY <1>1, IInvHolds, PTL

\* After a fault or a panic, no interrupted code is returned to and user mode is
\* not entered: page_fault_handler, divide_error_handler, double_fault_handler
\* and the panic handlers end in loops, and nothing interrupts them.
THEOREM FaultsAreFinal == Spec => NothingResumesAfterAFault
<1>1. IInv /\ [Next]_vars => [faulted => Len(below') >= Len(below) /\ cpu'.ring = 0]_vars
  BY NextKept DEF Kept
<1>2. QED
  BY <1>1, IInvHolds, PTL DEF Spec, NothingResumesAfterAFault
=============================================================================
