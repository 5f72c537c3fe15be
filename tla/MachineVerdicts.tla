-------------------------- MODULE MachineVerdicts --------------------------
(***************************************************************************)
(* That the output and the exit code of the machine are true (Machine's    *)
(* VerdictsAreTrue), for any number of tests and of faults.                *)
(*                                                                         *)
(* Besides the IInv of MachineProofs it takes two more invariants.  Honest *)
(* is what holds until there is a fault: no report is printed, none is     *)
(* about to be, and whatever can interrupt finds the tables loaded.        *)
(* Progress relates what the test programs have sent to the point they     *)
(* have reached; points are named for what the program is about to do.     *)
(***************************************************************************)
EXTENDS MachineProofs

-----------------------------------------------------------------------------
\* Before any fault

OpNames == {"gdt_init", "init_idt", "init_test_idt", "initialize", "kernel_main", "user",
            "for", "test", "overflow", "lock", "unlock", "exit", "hlt", "loop",
            "top_of_stack", "panic", "from_utf8", "iretq", "eoi", "read_port"}
CleanMsgs == Msgs \ Reports

\* Operations that report no failure, and those that do not even use SERIAL1.
CleanOps == [op : OpNames, arg : {"", "WRITER", "SERIAL1", "Success"}, msg : CleanMsgs \cup {""}]
QuietOps == [op : OpNames, arg : {"", "WRITER"}, msg : CleanMsgs \cup {""}]

\* The loop of test_runner and what follows, and what follows init.
rest == do("for") \o exit_qemu("Success")
after == IF build = "kernel" THEN do("kernel_main") \o do("user")
         ELSE print("SERIAL1", "running") \o rest

\* init is under way.
Preparing(code) ==
    \/ idt = "none" /\ code = do("gdt_init") \o (do("init_idt") \o (do("initialize") \o after))
    \/ idt = "none" /\ code = do("init_idt") \o (do("initialize") \o after)
    \/ idt = "IDT" /\ code = do("initialize") \o after

\* Interrupts, breakpoints and user code find the tables loaded.
Prepared ==
    \/ idt = "IDT" /\ pics = TRUE
    \/ /\ below = <<>> /\ cpu.interrupts = FALSE
       /\ build = "overflow" \/ Preparing(cpu.code)

Clean ==
    /\ power # "Failed" /\ screen \subseteq CleanMsgs /\ serial \in Seq(CleanMsgs)
    /\ cpu.sp = "mapped"
    /\ below = <<>> => cpu.code \in Seq(CleanOps)
    /\ below # <<>> => /\ cpu.code \in Seq(QuietOps) /\ Len(below) = 1
                       /\ below[1].sp = "mapped" /\ below[1].code \in Seq(CleanOps)
    /\ Prepared

Honest == ~faulted => Clean

LEMMA OneIsSeq == ASSUME NEW S, NEW r \in S PROVE <<r>> \in Seq(S)
OBVIOUS

LEMMA OneThen ==
    ASSUME NEW S, NEW r \in S, NEW t \in Seq(S)
    PROVE  /\ <<r>> \o t \in Seq(S) /\ <<r>> \o t # <<>>
           /\ Head(<<r>> \o t) = r /\ Tail(<<r>> \o t) = t
<1> DEFINE s == <<r>> \o t
<1>1. s \in Seq(S) /\ Len(s) = Len(t) + 1 /\ Len(t) \in Nat /\ s[1] = r
  OBVIOUS
<1>2. \A i \in 1 .. Len(t) : s[i + 1] = t[i]
  OBVIOUS
<1> HIDE DEF s
<1>3. Len(s) # 0
  BY <1>1
<1>4. s # <<>> /\ Head(s) = r
  BY <1>1, <1>3
<1>5. Tail(s) \in Seq(S) /\ Len(Tail(s)) = Len(t)
  BY <1>1, <1>4, HeadTailProperties
<1>6. \A i \in 1 .. Len(Tail(s)) : Tail(s)[i] = t[i]
  BY <1>1, <1>2, <1>4, <1>5, HeadTailProperties
<1>7. Tail(s) = t
  BY <1>5, <1>6, SeqEqual
<1>8. QED
  BY <1>1, <1>4, <1>7 DEF s

\* code begins with one operation and goes on as t.
Begins(code, o, a, m, t) ==
    /\ code \in Seq(CleanOps) /\ code # <<>> /\ Tail(code) = t
    /\ Head(code).op = o /\ Head(code).arg = a /\ Head(code).msg = m

LEMMA OpThen ==
    ASSUME NEW o \in OpNames, NEW a \in {"", "WRITER", "SERIAL1", "Success"},
           NEW m \in CleanMsgs \cup {""}, NEW t \in Seq(CleanOps)
    PROVE  Begins(Op(o, a, m) \o t, o, a, m, t)
<1> DEFINE r == [op |-> o, arg |-> a, msg |-> m]
<1>1. r \in CleanOps /\ r.op = o /\ r.arg = a /\ r.msg = m
  BY DEF CleanOps
<1>2. Op(o, a, m) = <<r>>
  BY DEF Op
<1> HIDE DEF r
<1>3. /\ <<r>> \o t \in Seq(CleanOps) /\ <<r>> \o t # <<>>
      /\ Head(<<r>> \o t) = r /\ Tail(<<r>> \o t) = t
  BY <1>1, OneThen
<1>4. QED
  BY <1>1, <1>2, <1>3 DEF Begins

LEMMA DoThen ==
    ASSUME NEW o \in OpNames, NEW t \in Seq(CleanOps)
    PROVE  Begins(do(o) \o t, o, "", "", t)
BY OpThen DEF do

LEMMA CleanFacts ==
    /\ {"text", "warning", "running", "name", "ok", "error"} \subseteq CleanMsgs
    /\ \A m \in CleanMsgs : m \notin Reports
    /\ CleanMsgs \subseteq Msgs
BY DEF CleanMsgs, Msgs, Reports

\* Records with the operations of the programs are clean unless they fail.
LEMMA DoIsClean ==
    ASSUME NEW o \in OpNames
    PROVE  do(o) \in Seq(CleanOps) /\ do(o) \in Seq(QuietOps)
<1> DEFINE r == [op |-> o, arg |-> "", msg |-> ""]
<1>1. r \in CleanOps /\ r \in QuietOps
  BY DEF CleanOps, QuietOps
<1>2. do(o) = <<r>>
  BY DEF do, Op
<1> HIDE DEF r
<1>3. QED
  BY <1>1, <1>2

LEMMA OpIsClean ==
    ASSUME NEW o \in OpNames, NEW a \in {"", "WRITER", "SERIAL1", "Success"},
           NEW m \in CleanMsgs \cup {""}
    PROVE  /\ [op |-> o, arg |-> a, msg |-> m] \in CleanOps
           /\ Op(o, a, m) \in Seq(CleanOps)
           /\ a \in {"", "WRITER"} => Op(o, a, m) \in Seq(QuietOps)
<1> DEFINE r == [op |-> o, arg |-> a, msg |-> m]
<1>1. r \in CleanOps /\ (a \in {"", "WRITER"} => r \in QuietOps)
  BY DEF CleanOps, QuietOps
<1>2. Op(o, a, m) = <<r>>
  BY DEF Op
<1> HIDE DEF r
<1>3. <<r>> \in Seq(CleanOps)
  BY <1>1, OneIsSeq
<1>4. a \in {"", "WRITER"} => <<r>> \in Seq(QuietOps)
  BY <1>1, OneIsSeq
<1>5. QED
  BY <1>1, <1>2, <1>3, <1>4 DEF r

LEMMA PrintIsClean ==
    ASSUME NEW d \in Devices, NEW m \in CleanMsgs
    PROVE  /\ print(d, m) \in Seq(CleanOps)
           /\ d = "WRITER" => print(d, m) \in Seq(QuietOps)
<1>1. /\ Op("lock", d, m) \in Seq(CleanOps) /\ Op("unlock", d, m) \in Seq(CleanOps)
      /\ d = "WRITER" => Op("lock", d, m) \in Seq(QuietOps) /\ Op("unlock", d, m) \in Seq(QuietOps)
  BY OpIsClean DEF Devices, OpNames
<1>2. QED
  BY <1>1 DEF print

LEMMA RestIsClean ==
    /\ exit_qemu("Success") \in Seq(CleanOps) /\ rest \in Seq(CleanOps)
    /\ after \in Seq(CleanOps) /\ text \in Seq(CleanOps) /\ run \in Seq(CleanOps)
<1>1. Op("exit", "Success", "") \in Seq(CleanOps)
  BY OpIsClean DEF OpNames
<1>2. /\ do("hlt") \in Seq(CleanOps) /\ do("for") \in Seq(CleanOps)
      /\ do("kernel_main") \in Seq(CleanOps) /\ do("user") \in Seq(CleanOps)
      /\ do("test") \in Seq(CleanOps)
  BY DoIsClean DEF OpNames
<1>3. exit_qemu("Success") \in Seq(CleanOps)
  BY <1>1, <1>2, ConcatProperties DEF exit_qemu
<1>4. rest \in Seq(CleanOps)
  BY <1>2, <1>3 DEF rest
<1>5. /\ print("SERIAL1", "running") \in Seq(CleanOps) /\ print("SERIAL1", "name") \in Seq(CleanOps)
      /\ print("SERIAL1", "ok") \in Seq(CleanOps) /\ print("WRITER", "text") \in Seq(CleanOps)
  BY PrintIsClean, CleanFacts, MsgFacts
<1>6. after \in Seq(CleanOps)
  BY <1>2, <1>4, <1>5 DEF after
<1>7. run \in Seq(CleanOps)
  BY <1>2, <1>5 DEF run
<1>8. QED
  BY <1>3, <1>4, <1>5, <1>6, <1>7 DEF text

LEMMA HandlersAreQuiet ==
    /\ breakpoint_handler \in Seq(QuietOps)
    /\ timer_interrupt_handler \in Seq(QuietOps)
    /\ keyboard_interrupt_handler \in Seq(QuietOps)
<1>1. /\ do("from_utf8") \in Seq(QuietOps) /\ do("iretq") \in Seq(QuietOps)
      /\ do("eoi") \in Seq(QuietOps) /\ do("read_port") \in Seq(QuietOps)
  BY DoIsClean DEF OpNames
<1>2. print("WRITER", "text") \in Seq(QuietOps) /\ print("WRITER", "warning") \in Seq(QuietOps)
  BY PrintIsClean, CleanFacts, MsgFacts
<1>3. breakpoint_handler \in Seq(QuietOps)
  BY <1>1, <1>2 DEF breakpoint_handler, text
<1>4. timer_interrupt_handler \in Seq(QuietOps)
  BY <1>1 DEF timer_interrupt_handler
<1>5. keyboard_interrupt_handler \in Seq(QuietOps)
  BY <1>1, <1>2 DEF keyboard_interrupt_handler
<1>6. QED
  BY <1>3, <1>4, <1>5

\* init, step by step.
LEMMA PreparingOp ==
    ASSUME Preparing(cpu.code)
    PROVE  /\ cpu.code # <<>> /\ Head(cpu.code).op \in {"gdt_init", "init_idt", "initialize"}
           /\ Head(cpu.code).op = "initialize" => idt = "IDT"
           /\ Head(cpu.code).op = "gdt_init" =>
                 Tail(cpu.code) = do("init_idt") \o (do("initialize") \o after)
           /\ Head(cpu.code).op = "init_idt" => Tail(cpu.code) = do("initialize") \o after
           /\ Head(cpu.code).op \in {"gdt_init", "init_idt"} => idt = "none"
<1>1. after \in Seq(CleanOps)
  BY RestIsClean
<1> HIDE DEF after
<1> DEFINE s == do("initialize") \o after
           u == do("init_idt") \o s
<1>2. {"initialize", "init_idt", "gdt_init"} \subseteq OpNames
  BY DEF OpNames
<1>3. Begins(s, "initialize", "", "", after)
  BY <1>1, <1>2, DoThen
<1> HIDE DEF s
<1>4. s \in Seq(CleanOps)
  BY <1>3 DEF Begins
<1>5. Begins(u, "init_idt", "", "", s)
  BY <1>2, <1>4, DoThen
<1> HIDE DEF u
<1>10. u \in Seq(CleanOps)
  BY <1>5 DEF Begins
<1>6. Begins(do("gdt_init") \o u, "gdt_init", "", "", u)
  BY <1>2, <1>10, DoThen
<1>7. \/ idt = "none" /\ cpu.code = do("gdt_init") \o u
      \/ idt = "none" /\ cpu.code = u
      \/ idt = "IDT" /\ cpu.code = s
  BY Zenon DEF Preparing, u, s
<1>8. /\ cpu.code # <<>> /\ Head(cpu.code).op \in {"gdt_init", "init_idt", "initialize"}
      /\ Head(cpu.code).op = "initialize" => idt = "IDT"
      /\ Head(cpu.code).op = "gdt_init" => Tail(cpu.code) = u
      /\ Head(cpu.code).op = "init_idt" => Tail(cpu.code) = s
      /\ Head(cpu.code).op \in {"gdt_init", "init_idt"} => idt = "none"
  BY <1>3, <1>5, <1>6, <1>7 DEF Begins
<1>9. QED
  BY Zenon, <1>8 DEF u, s

\* Only init runs before the tables are loaded.
LEMMA ReadyOp ==
    ASSUME Clean, IInv, NEW op, At(op), op \notin {"gdt_init", "init_idt", "initialize"},
           build # "overflow"
    PROVE  idt = "IDT" /\ pics = TRUE
BY PreparingOp DEF Clean, Prepared, At

LEMMA ContinuedCpu ==
    ASSUME IInv, NEW op, At(op), op # "hlt", op # "user", Continue
    PROVE  /\ cpu'.interrupts = FALSE /\ cpu'.sp = cpu.sp /\ cpu'.code = Tail(cpu.code)
           /\ cpu.code # <<>> /\ Head(cpu.code).op = op
<1>1. cpu = [ring |-> 0, interrupts |-> FALSE, sp |-> cpu.sp, code |-> cpu.code]
  BY Zenon, KernelOp
<1>2. cpu' = [cpu EXCEPT !.code = Tail(cpu.code)]
  BY DEF Continue
<1>3. QED
  BY <1>1, <1>2 DEF At

LEMMA CleanContinue ==
    ASSUME IInv, Clean, NEW op, At(op), op # "hlt", op # "user", Continue,
           below' = below, power' # "Failed", screen' \subseteq CleanMsgs,
           serial' \in Seq(CleanMsgs), Prepared'
    PROVE  Clean'
<1>1. cpu'.sp = cpu.sp /\ cpu'.code = Tail(cpu.code) /\ cpu.code # <<>>
  BY Zenon, ContinuedCpu
<1>2. below = <<>> => Tail(cpu.code) \in Seq(CleanOps)
  BY <1>1 DEF Clean
<1>3. below # <<>> => Tail(cpu.code) \in Seq(QuietOps)
  BY <1>1 DEF Clean
<1>4. QED
  BY <1>1, <1>2, <1>3 DEF Clean

LEMMA PreparedContinue ==
    ASSUME IInv, Clean, NEW op, At(op), op \notin {"hlt", "user", "init_idt", "initialize"},
           Continue, UNCHANGED <<build, below, idt, pics>>
    PROVE  Prepared'
<1>1. /\ cpu'.interrupts = FALSE /\ cpu'.code = Tail(cpu.code) /\ cpu.code # <<>>
      /\ Head(cpu.code).op = op
  BY Zenon, ContinuedCpu
<1>2. CASE idt = "IDT" /\ pics = TRUE
  BY <1>2 DEF Prepared
<1>3. CASE below = <<>> /\ build = "overflow"
  BY <1>1, <1>3 DEF Prepared
<1>4. CASE below = <<>> /\ Preparing(cpu.code)
  <2>1. /\ op = "gdt_init" /\ idt = "none"
        /\ Tail(cpu.code) = do("init_idt") \o (do("initialize") \o after)
    BY <1>1, <1>4, PreparingOp
  <2>2. after' = after
    BY DEF after
  <2>3. QED
    BY Zenon, <1>1, <1>4, <2>1, <2>2 DEF Prepared, Preparing
<1>5. QED
  BY Zenon, <1>2, <1>3, <1>4 DEF Clean, Prepared

LEMMA HonestLoad == IInv /\ Honest /\ Load => Honest'
<1> SUFFICES ASSUME IInv, Honest, Load, ~faulted, Clean PROVE Clean'
  BY DEF Honest, Load, hist
<1>1. PICK op \in {"init_idt", "init_test_idt", "initialize"} : At(op)
  BY DEF Load
<1>2. /\ cpu'.interrupts = FALSE /\ cpu'.code = Tail(cpu.code) /\ Head(cpu.code).op = op
      /\ cpu.code # <<>>
  BY Zenon, <1>1, ContinuedCpu DEF Load
<1>3. /\ below' = below /\ build' = build /\ power' = power /\ screen' = screen
      /\ serial' = serial /\ Continue
  BY DEF Load, dev
<1>4. /\ idt' = IF op = "init_idt" THEN "IDT" ELSE IF op = "init_test_idt" THEN "TEST_IDT" ELSE idt
      /\ pics' = (pics \/ op = "initialize")
  BY <1>1 DEF Load, At
<1>5. op = "init_test_idt" <=> build = "overflow"
  BY <1>1, NextOp, OpOfProgram, OpOfHandler
<1>6. Prepared'
  <2>1. CASE idt = "IDT" /\ pics = TRUE
    BY Zenon, <1>4, <1>5, <2>1 DEF IInv, Types, Prepared
  <2>2. CASE below = <<>> /\ build = "overflow"
    BY <1>2, <1>3, <2>2 DEF Prepared
  <2>3. CASE below = <<>> /\ Preparing(cpu.code) /\ build # "overflow"
    <3>1. after' = after
      BY <1>3 DEF after
    <3>2. CASE op = "init_idt"
      <4>1. Tail(cpu.code) = do("initialize") \o after
        BY <1>2, <2>3, <3>2, PreparingOp
      <4>2. idt' = "IDT"
        BY <1>4, <3>2
      <4>3. Preparing(cpu.code)'
        BY <1>2, <3>1, <4>1, <4>2 DEF Preparing
      <4>4. QED
        BY <1>2, <1>3, <2>3, <4>3 DEF Prepared
    <3>3. CASE op = "initialize"
      <4>1. idt = "IDT"
        BY <1>2, <2>3, <3>3, PreparingOp
      <4>2. idt' = "IDT" /\ pics' = TRUE
        BY <1>4, <3>3, <4>1
      <4>3. QED
        BY <4>2 DEF Prepared
    <3>4. QED
      BY <1>5, <2>3, <3>2, <3>3
  <2>4. QED
    BY Zenon, <2>1, <2>2, <2>3 DEF Clean, Prepared
<1>7. QED
  BY <1>1, <1>3, <1>6, CleanContinue DEF Clean

LEMMA HonestPanics == IInv /\ Honest /\ (MayPanic \/ Panic) => Honest'
<1> SUFFICES ASSUME IInv, Honest, MayPanic \/ Panic, ~faulted', faulted' = faulted, Continue, Clean
             PROVE  Clean'
  BY Zenon DEF Honest, MayPanic, Panic, Note
<1>1. PICK op \in {"gdt_init", "kernel_main", "from_utf8", "panic"} : At(op)
  BY DEF MayPanic, Panic
<1>2. /\ below' = below /\ build' = build /\ idt' = idt /\ pics' = pics /\ power' = power
      /\ serial' = serial /\ screen' = screen
  BY DEF MayPanic, Panic, dev
<1>3. Prepared'
  BY <1>1, <1>2, PreparedContinue
<1>4. QED
  BY <1>1, <1>2, <1>3, CleanContinue DEF Clean

\* What is printed before a fault is no report.
LEMMA CleanPrint ==
    ASSUME IInv, Clean, At("lock")
    PROVE  /\ Msg \in CleanMsgs /\ Arg \in Devices
           /\ below # <<>> => Arg = "WRITER"
<1>1. Head(cpu.code) \in Prints
  BY NextOp, OpOfProgram, OpOfHandler
<1>2. Msg \in Msgs /\ Arg \in Devices /\ Msg # ""
  BY <1>1 DEF Prints, Msg, Arg, Msgs, Reports
<1>3. cpu.code # <<>>
  BY DEF At
<1>4. below = <<>> => Head(cpu.code) \in CleanOps
  BY <1>3 DEF Clean
<1>5. below # <<>> => Head(cpu.code) \in QuietOps
  BY <1>3 DEF Clean
<1>6. Msg \in CleanMsgs
  BY <1>2, <1>4, <1>5 DEF CleanOps, QuietOps, Msg
<1>7. below # <<>> => Arg = "WRITER"
  BY <1>2, <1>5 DEF QuietOps, Arg, Devices
<1>8. QED
  BY <1>2, <1>6, <1>7

LEMMA HonestLock == IInv /\ Honest /\ Lock => Honest'
<1> SUFFICES ASSUME IInv, Honest, Lock, ~faulted, Clean PROVE Clean'
  BY DEF Honest, Lock, hist
<1>1. /\ below' = below /\ build' = build /\ idt' = idt /\ pics' = pics /\ power' = power
      /\ Continue /\ At("lock")
  BY DEF Lock
<1>2. serial' \in Seq(CleanMsgs) /\ screen' \subseteq CleanMsgs
  <2>1. serial \in Seq(CleanMsgs) /\ screen \subseteq CleanMsgs /\ Msg \in CleanMsgs
    BY <1>1, CleanPrint DEF Clean
  <2>2. Append(serial, Msg) \in Seq(CleanMsgs)
    BY <2>1, AppendProperties
  <2>3. QED
    BY <2>1, <2>2 DEF Lock
<1>3. Prepared'
  BY <1>1, PreparedContinue
<1>4. QED
  BY <1>1, <1>2, <1>3, CleanContinue DEF Clean

LEMMA HonestPlain == IInv /\ Honest /\ (Unlock \/ ReadPort \/ Eoi) => Honest'
<1> SUFFICES ASSUME IInv, Honest, Unlock \/ ReadPort \/ Eoi PROVE Honest'
  OBVIOUS
<1>5. faulted' = faulted
  BY DEF Unlock, ReadPort, Eoi, hist
<1> SUFFICES ASSUME ~faulted, Clean PROVE Clean'
  BY <1>5 DEF Honest
<1>1. /\ below' = below /\ build' = build /\ idt' = idt /\ pics' = pics /\ power' = power
      /\ serial' = serial /\ screen' = screen /\ Continue
  BY DEF Unlock, ReadPort, Eoi, dev
<1>2. PICK op \in {"unlock", "read_port", "eoi"} : At(op)
  BY DEF Unlock, ReadPort, Eoi
<1>3. Prepared'
  BY <1>1, <1>2, PreparedContinue
<1>4. QED
  BY <1>1, <1>2, <1>3, CleanContinue DEF Clean

LEMMA HonestExit == IInv /\ Honest /\ Exit => Honest'
<1> SUFFICES ASSUME IInv, Honest, Exit, ~faulted, Clean PROVE Clean'
  BY DEF Honest, Exit, hist
<1>1. /\ below' = below /\ build' = build /\ idt' = idt /\ pics' = pics
      /\ serial' = serial /\ screen' = screen /\ At("exit")
  BY DEF Exit, dev
<1>2. cpu.code # <<>>
  BY <1>1 DEF At
<1>3. below = <<>> => Head(cpu.code) \in CleanOps
  BY <1>2 DEF Clean
<1>4. below # <<>> => Head(cpu.code) \in QuietOps
  BY <1>2 DEF Clean
<1>5. Arg # "Failed"
  BY <1>3, <1>4 DEF CleanOps, QuietOps, Arg
<1>6. CASE power' = Arg /\ cpu' = cpu
  <2>1. Prepared'
    BY Zenon, <1>1, <1>6 DEF Clean, Prepared, Preparing, after
  <2>2. QED
    BY <1>1, <1>5, <1>6, <2>1 DEF Clean
<1>7. CASE Continue /\ power' = power
  <2>1. Prepared'
    BY <1>1, <1>7, PreparedContinue
  <2>2. QED
    BY <1>1, <1>7, <2>1, CleanContinue DEF Clean
<1>8. QED
  BY <1>6, <1>7 DEF Exit

LEMMA HonestTopOfStack == IInv /\ Honest /\ TopOfStack => Honest'
<1> SUFFICES ASSUME IInv, Honest, TopOfStack, ~faulted', faulted' = faulted, Continue,
                    below' = below, power' = power, Clean
             PROVE  Clean'
  BY Zenon DEF Honest, TopOfStack, Note
<1>1. /\ build' = build /\ idt' = idt /\ pics' = pics /\ At("top_of_stack")
      /\ serial' = serial /\ screen' = screen
  BY DEF TopOfStack, dev
<1>2. Prepared'
  BY <1>1, PreparedContinue
<1>3. QED
  BY <1>1, <1>2, CleanContinue DEF Clean

LEMMA HonestIretq == IInv /\ Honest /\ Iretq => Honest'
<1> SUFFICES ASSUME IInv, Honest, Iretq, ~faulted, Clean PROVE Clean'
  BY DEF Honest, Iretq, hist
<1>1. /\ At("iretq") /\ build' = build /\ idt' = idt /\ pics' = pics /\ power' = power
      /\ serial' = serial /\ screen' = screen
  BY DEF Iretq, dev
<1>2. below # <<>>
  BY <1>1, NextOp, OpOfProgram
<1>3. Len(below') = Len(below) - 1 /\ cpu' = below[Len(below)]
  BY <1>1, <1>2, Popped DEF Iretq
<1>4. Len(below) = 1 /\ idt = "IDT" /\ pics = TRUE
  BY <1>2 DEF Clean, Prepared
<1>5. below' = <<>> /\ cpu' = below[1]
  <2>1. PICK S : below \in Seq(S)
    BY DEF IInv, Stack, IsBelow
  <2>2. below' \in Seq(S) /\ Len(below') = 0
    BY <1>2, <1>3, <1>4, <2>1, FrontFacts DEF Iretq, Front
  <2>3. QED
    BY <1>3, <1>4, <2>2
<1>6. QED
  BY <1>1, <1>2, <1>4, <1>5 DEF Clean, Prepared

LEMMA HonestFor == IInv /\ Honest /\ For => Honest'
<1> SUFFICES ASSUME IInv, Honest, For, ~faulted, Clean PROVE Clean'
  BY DEF Honest, For, hist
<1>1. /\ At("for") /\ build' = build /\ idt' = idt /\ pics' = pics /\ power' = power
      /\ serial' = serial /\ screen' = screen /\ below' = below
  BY DEF For, dev
<1>2. below = <<>> /\ build = "tests"
  BY <1>1, NextOp, OpOfProgram, OpOfHandler
<1>3. Prepared'
  BY Zenon, <1>1, <1>2, ReadyOp DEF Prepared
<1>4. CASE Continue
  BY <1>1, <1>3, <1>4, CleanContinue DEF Clean
<1>5. CASE cpu' = [cpu EXCEPT !.code = run \o @]
  <2> DEFINE code == run \o cpu.code
  <2>1. code \in Seq(CleanOps)
    BY <1>2, RestIsClean, ConcatProperties DEF Clean
  <2>2. cpu' = [cpu EXCEPT !.code = code]
    BY <1>5
  <2> HIDE DEF code
  <2>3. cpu = [ring |-> 0, interrupts |-> FALSE, sp |-> cpu.sp, code |-> cpu.code]
    BY Zenon, <1>1, KernelOp
  <2>4. cpu'.code = code /\ cpu'.sp = cpu.sp
    BY <2>2, <2>3
  <2>5. QED
    BY <1>1, <1>2, <1>3, <2>1, <2>4 DEF Clean
<1>6. QED
  BY <1>4, <1>5 DEF For

LEMMA HonestTest == IInv /\ Honest /\ Test => Honest'
<1> SUFFICES ASSUME IInv, Honest, Test, ~faulted', faulted' = faulted, power' = power, Clean
             PROVE  Clean'
  BY Zenon DEF Honest, Test, Note
<1>1. /\ At("test") /\ build' = build /\ idt' = idt /\ pics' = pics
      /\ serial' = serial /\ screen' = screen
  BY DEF Test, dev
<1>2. below = <<>> /\ build = "tests" /\ cpu.code # <<>>
  BY <1>1, NextOp, OpOfProgram, OpOfHandler
<1>3. Prepared'
  BY Zenon, <1>1, <1>2, ReadyOp DEF Prepared
<1>4. cpu = [ring |-> 0, interrupts |-> FALSE, sp |-> cpu.sp, code |-> cpu.code]
  BY Zenon, <1>1, KernelOp
<1>5. Tail(cpu.code) \in Seq(CleanOps)
  BY <1>2 DEF Clean
<1>6. CASE Continue /\ below' = below
  BY <1>1, <1>3, <1>6, CleanContinue DEF Clean
<1>7. CASE cpu' = [cpu EXCEPT !.code = text \o Tail(@)] /\ below' = below
  <2> DEFINE code == text \o Tail(cpu.code)
  <2>1. code \in Seq(CleanOps)
    BY <1>5, RestIsClean, ConcatProperties
  <2>2. cpu' = [cpu EXCEPT !.code = code]
    BY <1>7
  <2> HIDE DEF code
  <2>3. cpu'.code = code /\ cpu'.sp = cpu.sp
    BY <1>4, <2>2
  <2>4. QED
    BY Zenon, <1>1, <1>2, <1>3, <1>7, <2>1, <2>3 DEF Clean
<1>8. CASE /\ below' = Append(below, [cpu EXCEPT !.code = Tail(@)])
           /\ cpu' = Kernel(breakpoint_handler)
  <2> DEFINE c == [cpu EXCEPT !.code = Tail(@)]
             code == Tail(cpu.code)
             bp == breakpoint_handler
  <2>1. c = [cpu EXCEPT !.code = code]
    OBVIOUS
  <2>2. bp \in Seq(QuietOps) /\ code \in Seq(CleanOps)
    BY <1>5, HandlersAreQuiet
  <2> HIDE DEF c, code, bp
  <2>3. c.code = code /\ c.sp = cpu.sp
    BY <1>4, <2>1
  <2>4. cpu'.code = bp /\ cpu'.sp = "mapped"
    BY <1>8 DEF Kernel, bp
  <2>5. below' = Append(<<>>, c)
    BY <1>2, <1>8 DEF c
  <2>6. below' # <<>> /\ Len(below') = 1 /\ below'[1] = c
    BY <2>5
  <2>7. QED
    BY <1>1, <1>3, <2>2, <2>3, <2>4, <2>6 DEF Clean
<1>9. QED
  BY <1>6, <1>7, <1>8 DEF Test, Note

LEMMA HonestUser == IInv /\ Honest /\ (EnterUserMode \/ SystemCall) => Honest'
<1> SUFFICES ASSUME IInv, Honest, EnterUserMode \/ SystemCall, ~faulted', faulted' = faulted, Clean
             PROVE  Clean'
  BY Zenon DEF Honest, EnterUserMode, SystemCall, Note, hist
<1>1. /\ At("user") /\ build' = build /\ idt' = idt /\ pics' = pics /\ power' = power
      /\ serial' = serial /\ screen' = screen /\ below' = below
  BY DEF EnterUserMode, SystemCall, dev
<1>2. below = <<>> /\ build = "kernel"
  BY <1>1, NextOp, OpOfProgram, OpOfHandler
<1>3. Prepared'
  BY Zenon, <1>1, <1>2, ReadyOp DEF Prepared
<1>4. do("user") \in Seq(CleanOps) /\ do("hlt") \in Seq(CleanOps)
  BY DoIsClean DEF OpNames
<1>5. ASSUME NEW code \in Seq(CleanOps), cpu'.code = code, cpu'.sp = "mapped"
      PROVE  Clean'
  BY <1>1, <1>2, <1>3, <1>5 DEF Clean
<1>6. CASE EnterUserMode
  BY <1>4, <1>5, <1>6 DEF EnterUserMode, User
<1>7. CASE \E output \in {<<>>, text, text \o text} : cpu' = Kernel(output \o do("user"))
  <2>1. PICK output \in {<<>>, text, text \o text} : cpu' = Kernel(output \o do("user"))
    BY Zenon, <1>7
  <2>2. text \in Seq(CleanOps) /\ <<>> \in Seq(CleanOps)
    BY RestIsClean
  <2>3. output \in Seq(CleanOps)
    BY Zenon, <2>1, <2>2, ConcatProperties
  <2> DEFINE code == output \o do("user")
  <2>4. code \in Seq(CleanOps)
    BY <1>4, <2>3, ConcatProperties
  <2> HIDE DEF code
  <2>5. cpu'.code = code /\ cpu'.sp = "mapped"
    BY <2>1 DEF Kernel, code
  <2>6. QED
    BY <1>5, <2>4, <2>5
<1>8. CASE cpu' = [Kernel(do("hlt")) EXCEPT !.interrupts = TRUE]
  <2> DEFINE code == do("hlt")
  <2>1. code \in Seq(CleanOps)
    BY <1>4
  <2>2. cpu' = [ring |-> 0, interrupts |-> TRUE, sp |-> "mapped", code |-> code]
    BY Zenon, <1>8 DEF Kernel
  <2> HIDE DEF code
  <2>3. cpu'.code = code /\ cpu'.sp = "mapped"
    BY <2>2
  <2>4. QED
    BY <1>5, <2>1, <2>3
<1>9. QED
  BY <1>6, <1>7, <1>8 DEF SystemCall, Note

\* Interrupts come when the tables are loaded, and find room for their frame.
LEMMA HonestInterrupt ==
    ASSUME NEW line \in {"timer", "keyboard"}, IInv, Honest, Interrupt(line)
    PROVE  Honest'
<1>1. /\ cpu.interrupts = TRUE /\ build' = build /\ idt' = idt /\ pics' = pics
      /\ faulted' = faulted /\ serial' = serial /\ screen' = screen
      /\ Raise(Vector(line), cpu.sp)
  <2>1. cpu.interrupts \in BOOLEAN
    BY Zenon DEF IInv, Stack, IsProgram, IsHandler
  <2>2. QED
    BY <2>1 DEF Interrupt, hist, dev
<1> SUFFICES ASSUME ~faulted, Clean PROVE Clean'
  BY <1>1 DEF Honest
<1>2. below = <<>>
  BY Zenon, <1>1 DEF IInv, Stack, IsHandler
<1>3. idt = "IDT" /\ pics = TRUE
  BY <1>1 DEF Clean, Prepared
<1>4. Vector(line) = line /\ line \in Gates /\ CanPush(line, cpu.sp)
  BY <1>3 DEF Vector, Gates, CanPush, Clean
<1>5. Delivered(Vector(line), cpu.sp) = line
  BY <1>4 DEF Delivered
<1> DEFINE code == Handler(line)
           c == [cpu EXCEPT !.sp = cpu.sp]
<1>6. below' = Append(<<>>, c) /\ cpu' = Kernel(code) /\ power' = power
  BY <1>1, <1>2, <1>5 DEF Raise
<1>7. code \in Seq(QuietOps)
  BY HandlersAreQuiet DEF Handler
<1>8. c.sp = cpu.sp /\ c.code = cpu.code
  BY <1>2 DEF IInv, Stack, IsProgram
<1> HIDE DEF c, code
<1>9. below' # <<>> /\ Len(below') = 1 /\ below'[1] = c
  BY <1>6
<1>10. cpu'.code = code /\ cpu'.sp = "mapped"
  BY <1>6 DEF Kernel
<1>11. Prepared'
  BY <1>1, <1>3 DEF Prepared
<1>12. QED
  BY <1>1, <1>2, <1>6, <1>7, <1>8, <1>9, <1>10, <1>11 DEF Clean

LEMMA HonestIdle ==
    ASSUME Honest, UNCHANGED <<build, cpu, below, idt, pics, power, serial, screen, faulted>>
    PROVE  Honest'
BY Zenon DEF Honest, Clean, Prepared, Preparing, after

LEMMA HonestNext == IInv /\ Honest /\ [Next]_vars => Honest'
<1> SUFFICES ASSUME IInv, Honest, [Next]_vars PROVE Honest'
  OBVIOUS
<1>1. CASE UNCHANGED vars
  BY <1>1, HonestIdle DEF vars
<1>2. CASE Tick \/ KeyPress
  BY <1>2, HonestIdle DEF Tick, KeyPress, dev, hist
<1>3. CASE \E line \in {"timer", "keyboard"} : Interrupt(line)
  BY <1>3, HonestInterrupt
<1>4. CASE StackOverflow \/ UserFault \/ KernelFault
  BY <1>4 DEF Honest, StackOverflow, UserFault, KernelFault, Note
<1>5. CASE EnterUserMode \/ SystemCall
  BY <1>5, HonestUser
<1>6. CASE Execute
  BY <1>4, <1>5, <1>6, HonestLoad, HonestPanics, HonestLock, HonestPlain, HonestExit,
     HonestTopOfStack, HonestIretq, HonestFor, HonestTest DEF Execute
<1>7. QED
  BY <1>1, <1>2, <1>3, <1>4, <1>5, <1>6 DEF Next

-----------------------------------------------------------------------------
\* Test programs and their output

\* The points of test_runner, from the end to the start, ...
halted == do("hlt")
leaving == exit_qemu("Success")
passed == Op("unlock", "SERIAL1", "ok") \o rest
passing == Op("lock", "SERIAL1", "ok") \o passed
texted == Op("unlock", "WRITER", "text") \o passing
texting == Op("lock", "WRITER", "text") \o texted
testing == do("test") \o passing
named == Op("unlock", "SERIAL1", "name") \o testing
naming == Op("lock", "SERIAL1", "name") \o named
started == Op("unlock", "SERIAL1", "running") \o rest
starting == Op("lock", "SERIAL1", "running") \o started
init3 == do("initialize") \o starting
init2 == do("init_idt") \o init3
init1 == do("gdt_init") \o init2

\* ... of the stack overflow test, and of its double fault handler.
overflowing == do("overflow") \o do("panic")
loading == do("init_test_idt") \o overflowing
checking == do("gdt_init") \o loading
shown == Op("unlock", "SERIAL1", "name") \o checking
showing == Op("lock", "SERIAL1", "name") \o shown
succeeded == Op("unlock", "SERIAL1", "ok") \o leaving
succeeding == Op("lock", "SERIAL1", "ok") \o succeeded

\* Where test_runner is, given what it has sent and how many tests are left.
Runner(code) ==
    LET done == Tests - left
    IN  \/ left = Tests /\ serial = <<>> /\ code \in {init1, init2, init3, starting}
        \/ left = Tests /\ serial = Passed(0) /\ code = started
        \/ serial = Passed(done) /\ code \in {rest, passed}
        \/ done > 0 /\ serial = Passed(done - 1) /\ code = naming
        \/ /\ done > 0 /\ serial = Append(Passed(done - 1), "name")
           /\ code \in {named, testing, texting, texted, passing}
        \/ left = 0 /\ serial = Passed(Tests) /\ code \in {leaving, halted}

\* Where the stack overflow test is, before and after the overflow.
Overflowing(code) ==
    \/ serial = <<>> /\ idt = "none" /\ code = showing
    \/ serial = <<"name">> /\ idt = "none" /\ code \in {shown, checking, loading}
    \/ serial = <<"name">> /\ idt = "TEST_IDT" /\ code = overflowing

Shown == Len(serial) >= 2 /\ serial[1] = "name" /\ serial[2] = "ok"

Succeeding(code) ==
    \/ (serial = <<"name">> \/ Shown) /\ code = succeeding
    \/ Shown /\ code \in {succeeded, leaving, halted}

Verdict ==
    power = "Success" => \/ build = "tests" /\ ~faulted /\ serial = Passed(Tests)
                         \/ build = "overflow" /\ faulted /\ Shown

\* The code of the program, whether or not it is interrupted.
Bottom == IF below = <<>> THEN cpu.code ELSE below[1].code

RunnerProgress == build = "tests" /\ ~faulted => Runner(Bottom)

OverflowProgress ==
    build = "overflow" =>
        /\ ~faulted => below = <<>> /\ Overflowing(cpu.code)
        /\ faulted => IF below = <<>> THEN idt = "none"
                      ELSE idt = "TEST_IDT" /\ Succeeding(cpu.code)

Progress == Verdict /\ RunnerProgress /\ OverflowProgress

LEMMA LockThen ==
    ASSUME NEW o \in {"lock", "unlock"}, NEW d \in Devices, NEW m \in CleanMsgs,
           NEW t \in Seq(CleanOps)
    PROVE  Begins(Op(o, d, m) \o t, o, d, m, t)
BY OpThen DEF OpNames, Devices

LEMMA BeginsIsClean ==
    ASSUME NEW code, NEW o, NEW a, NEW m, NEW t, Begins(code, o, a, m, t)
    PROVE  code \in Seq(CleanOps)
BY DEF Begins

\* Concatenations can be regrouped.
Regroup(s, t, u) == (s \o t) \o u = s \o (t \o u)
RegroupFour(s, t, u, v) == ((s \o t) \o u) \o v = s \o (t \o (u \o v))

LEMMA CanRegroup ==
    ASSUME NEW s \in Seq(CleanOps), NEW t \in Seq(CleanOps), NEW u \in Seq(CleanOps)
    PROVE  Regroup(s, t, u)
BY ConcatAssociative DEF Regroup

LEMMA Joined ==
    ASSUME NEW s \in Seq(CleanOps), NEW t \in Seq(CleanOps)
    PROVE  s \o t \in Seq(CleanOps)
BY ConcatProperties

LEMMA CanRegroupFour ==
    ASSUME NEW s \in Seq(CleanOps), NEW t \in Seq(CleanOps), NEW u \in Seq(CleanOps),
           NEW v \in Seq(CleanOps)
    PROVE  RegroupFour(s, t, u, v)
<1>1. PICK st \in Seq(CleanOps) : st = s \o t
  BY Zenon, Joined
<1>2. PICK uv \in Seq(CleanOps) : uv = u \o v
  BY Zenon, Joined
<1>3. Regroup(st, u, v) /\ Regroup(s, t, uv)
  BY CanRegroup
<1>4. QED
  BY Zenon, <1>1, <1>2, <1>3 DEF Regroup, RegroupFour

\* A print is its lock and then its unlock.
LEMMA PrintThen ==
    ASSUME NEW d \in Devices, NEW m \in CleanMsgs, NEW t \in Seq(CleanOps)
    PROVE  print(d, m) \o t = Op("lock", d, m) \o (Op("unlock", d, m) \o t)
<1>1. Op("lock", d, m) \in Seq(CleanOps) /\ Op("unlock", d, m) \in Seq(CleanOps)
  BY OpIsClean DEF Devices, OpNames
<1>2. Regroup(Op("lock", d, m), Op("unlock", d, m), t)
  BY Zenon, <1>1, CanRegroup
<1>3. QED
  BY Zenon, <1>2 DEF Regroup, print

LEMMA PrintMsgs ==
    /\ "text" \in CleanMsgs /\ "running" \in CleanMsgs /\ "name" \in CleanMsgs /\ "ok" \in CleanMsgs
    /\ "WRITER" \in Devices /\ "SERIAL1" \in Devices
BY CleanFacts, MsgFacts

LEMMA EndPoints ==
    /\ halted \in Seq(CleanOps) /\ halted # <<>> /\ Head(halted).op = "hlt"
    /\ Begins(leaving, "exit", "Success", "", halted)
    /\ Begins(rest, "for", "", "", leaving)
<1>1. halted \in Seq(CleanOps) /\ halted # <<>> /\ Head(halted).op = "hlt"
  BY DoIsClean, DoHead DEF halted, OpNames
<1>2. leaving = Op("exit", "Success", "") \o halted
  BY DEF leaving, exit_qemu, halted
<1> HIDE DEF leaving, halted
<1>3. Begins(leaving, "exit", "Success", "", halted)
  BY <1>1, <1>2, OpThen DEF OpNames
<1>4. rest = do("for") \o leaving
  BY DEF rest, leaving
<1>5. Begins(rest, "for", "", "", leaving)
  BY <1>3, <1>4, BeginsIsClean, DoThen DEF OpNames
<1>6. QED
  BY <1>1, <1>3, <1>5

LEMMA TestPoints ==
    /\ Begins(passed, "unlock", "SERIAL1", "ok", rest)
    /\ Begins(passing, "lock", "SERIAL1", "ok", passed)
    /\ Begins(texted, "unlock", "WRITER", "text", passing)
    /\ Begins(texting, "lock", "WRITER", "text", texted)
    /\ Begins(testing, "test", "", "", passing)
    /\ Begins(named, "unlock", "SERIAL1", "name", testing)
    /\ Begins(naming, "lock", "SERIAL1", "name", named)
    /\ text \o passing = texting /\ run \o rest = naming
<1>1. rest \in Seq(CleanOps)
  BY RestIsClean
<1>2. Begins(passed, "unlock", "SERIAL1", "ok", rest)
  BY <1>1, PrintMsgs, LockThen DEF passed
<1>3. Begins(passing, "lock", "SERIAL1", "ok", passed)
  BY <1>2, BeginsIsClean, PrintMsgs, LockThen DEF passing
<1>4. Begins(texted, "unlock", "WRITER", "text", passing)
  BY <1>3, BeginsIsClean, PrintMsgs, LockThen DEF texted
<1>5. Begins(texting, "lock", "WRITER", "text", texted)
  BY <1>4, BeginsIsClean, PrintMsgs, LockThen DEF texting
<1>6. Begins(testing, "test", "", "", passing)
  BY <1>3, BeginsIsClean, DoThen DEF testing, OpNames
<1>7. Begins(named, "unlock", "SERIAL1", "name", testing)
  BY <1>6, BeginsIsClean, PrintMsgs, LockThen DEF named
<1>8. Begins(naming, "lock", "SERIAL1", "name", named)
  BY <1>7, BeginsIsClean, PrintMsgs, LockThen DEF naming
<1>9. text \o passing = texting
  BY <1>3, BeginsIsClean, PrintMsgs, PrintThen DEF text, texting, texted
<1>10. run \o rest = naming
  <2> DEFINE n == print("SERIAL1", "name")
             k == print("SERIAL1", "ok")
             d == do("test")
  <2>1. n \in Seq(CleanOps) /\ k \in Seq(CleanOps) /\ d \in Seq(CleanOps)
    BY PrintIsClean, DoIsClean, PrintMsgs DEF OpNames
  <2>2. k \o rest = passing
    BY <1>1, PrintMsgs, PrintThen DEF passing, passed
  <2>3. n \o testing = naming
    BY <1>6, BeginsIsClean, PrintMsgs, PrintThen DEF naming, named
  <2>4. run = (n \o d) \o k /\ testing = d \o passing
    BY DEF run, testing
  <2> HIDE DEF n, k, d
  <2>5. RegroupFour(n, d, k, rest)
    BY Zenon, <1>1, <2>1, CanRegroupFour
  <2>6. QED
    BY Zenon, <2>2, <2>3, <2>4, <2>5 DEF RegroupFour
<1>11. QED
  BY <1>2, <1>3, <1>4, <1>5, <1>6, <1>7, <1>8, <1>9, <1>10

LEMMA StartPoints ==
    /\ Begins(started, "unlock", "SERIAL1", "running", rest)
    /\ Begins(starting, "lock", "SERIAL1", "running", started)
    /\ Begins(init3, "initialize", "", "", starting)
    /\ Begins(init2, "init_idt", "", "", init3)
    /\ Begins(init1, "gdt_init", "", "", init2)
<1>1. rest \in Seq(CleanOps)
  BY RestIsClean
<1>2. Begins(started, "unlock", "SERIAL1", "running", rest)
  BY <1>1, PrintMsgs, LockThen DEF started
<1>3. Begins(starting, "lock", "SERIAL1", "running", started)
  BY <1>2, BeginsIsClean, PrintMsgs, LockThen DEF starting
<1>4. Begins(init3, "initialize", "", "", starting)
  BY <1>3, BeginsIsClean, DoThen DEF init3, OpNames
<1>5. Begins(init2, "init_idt", "", "", init3)
  BY <1>4, BeginsIsClean, DoThen DEF init2, OpNames
<1>6. Begins(init1, "gdt_init", "", "", init2)
  BY <1>5, BeginsIsClean, DoThen DEF init1, OpNames
<1>7. QED
  BY <1>2, <1>3, <1>4, <1>5, <1>6

LEMMA OverflowPoints ==
    /\ Begins(overflowing, "overflow", "", "", do("panic"))
    /\ Begins(loading, "init_test_idt", "", "", overflowing)
    /\ Begins(checking, "gdt_init", "", "", loading)
    /\ Begins(shown, "unlock", "SERIAL1", "name", checking)
    /\ Begins(showing, "lock", "SERIAL1", "name", shown)
    /\ Begins(succeeded, "unlock", "SERIAL1", "ok", leaving)
    /\ Begins(succeeding, "lock", "SERIAL1", "ok", succeeded)
    /\ test_double_fault_handler = succeeding
<1>1. do("panic") \in Seq(CleanOps)
  BY DoIsClean DEF OpNames
<1>2. Begins(overflowing, "overflow", "", "", do("panic"))
  BY <1>1, DoThen DEF overflowing, OpNames
<1>3. Begins(loading, "init_test_idt", "", "", overflowing)
  BY <1>2, BeginsIsClean, DoThen DEF loading, OpNames
<1>4. Begins(checking, "gdt_init", "", "", loading)
  BY <1>3, BeginsIsClean, DoThen DEF checking, OpNames
<1>5. Begins(shown, "unlock", "SERIAL1", "name", checking)
  BY <1>4, BeginsIsClean, PrintMsgs, LockThen DEF shown
<1>6. Begins(showing, "lock", "SERIAL1", "name", shown)
  BY <1>5, BeginsIsClean, PrintMsgs, LockThen DEF showing
<1>7. leaving \in Seq(CleanOps)
  BY EndPoints, BeginsIsClean
<1>8. Begins(succeeded, "unlock", "SERIAL1", "ok", leaving)
  BY <1>7, PrintMsgs, LockThen DEF succeeded
<1>9. Begins(succeeding, "lock", "SERIAL1", "ok", succeeded)
  BY <1>8, BeginsIsClean, PrintMsgs, LockThen DEF succeeding
<1>10. test_double_fault_handler = print("SERIAL1", "ok") \o leaving
  BY DEF test_double_fault_handler, leaving
<1> HIDE DEF leaving
<1>11. test_double_fault_handler = succeeding
  BY Zenon, <1>7, <1>10, PrintMsgs, PrintThen DEF succeeding, succeeded
<1>12. QED
  BY <1>2, <1>3, <1>4, <1>5, <1>6, <1>8, <1>9, <1>11

\* The programs begin with these points.
LEMMA InitThen ==
    ASSUME NEW t \in Seq(CleanOps)
    PROVE  init \o t = do("gdt_init") \o (do("init_idt") \o (do("initialize") \o t))
<1> DEFINE g == do("gdt_init")
           i == do("init_idt")
           z == do("initialize")
<1>1. g \in Seq(CleanOps) /\ i \in Seq(CleanOps) /\ z \in Seq(CleanOps)
  BY DoIsClean DEF OpNames
<1>2. init = (g \o i) \o z
  BY DEF init
<1> HIDE DEF g, i, z
<1>3. RegroupFour(g, i, z, t)
  BY Zenon, <1>1, CanRegroupFour
<1>4. init \o t = g \o (i \o (z \o t))
  BY Zenon, <1>2, <1>3 DEF RegroupFour
<1>5. QED
  BY <1>4 DEF g, i, z

LEMMA InitIsClean == init \in Seq(CleanOps)
<1>1. /\ do("gdt_init") \in Seq(CleanOps) /\ do("init_idt") \in Seq(CleanOps)
      /\ do("initialize") \in Seq(CleanOps)
  BY DoIsClean DEF OpNames
<1>2. QED
  BY <1>1 DEF init

LEMMA Programs ==
    /\ kernel_main = init \o (do("kernel_main") \o do("user"))
    /\ test_runner = init1 /\ overflow_test = showing
    /\ starting = print("SERIAL1", "running") \o rest
<1>1. init \in Seq(CleanOps) /\ rest \in Seq(CleanOps)
  BY InitIsClean, RestIsClean
<1>2. kernel_main = init \o (do("kernel_main") \o do("user"))
  <2>1. do("kernel_main") \in Seq(CleanOps) /\ do("user") \in Seq(CleanOps)
    BY DoIsClean DEF OpNames
  <2>2. Regroup(init, do("kernel_main"), do("user"))
    BY Zenon, <1>1, <2>1, CanRegroup
  <2>3. QED
    BY Zenon, <2>2 DEF Regroup, kernel_main
<1>3. starting = print("SERIAL1", "running") \o rest
  BY Zenon, <1>1, PrintMsgs, PrintThen DEF starting, started
<1>4. test_runner = init1
  <2> DEFINE p == print("SERIAL1", "running")
             f == do("for")
             e == exit_qemu("Success")
  <2>1. p \in Seq(CleanOps) /\ f \in Seq(CleanOps) /\ e \in Seq(CleanOps)
    BY PrintIsClean, DoIsClean, PrintMsgs, RestIsClean DEF OpNames
  <2>2. test_runner = ((init \o p) \o f) \o e /\ rest = f \o e /\ starting = p \o rest
    BY <1>3 DEF test_runner, rest
  <2> HIDE DEF p, f, e
  <2>3. RegroupFour(init, p, f, e)
    BY Zenon, <1>1, <2>1, CanRegroupFour
  <2>4. test_runner = init \o starting
    BY Zenon, <2>2, <2>3 DEF RegroupFour
  <2>5. starting \in Seq(CleanOps)
    BY StartPoints, BeginsIsClean
  <2>6. QED
    BY Zenon, <2>4, <2>5, InitThen DEF init1, init2, init3
<1>5. overflow_test = showing
  <2> DEFINE p == print("SERIAL1", "name")
             g == do("gdt_init")
             i == do("init_test_idt")
             o == do("overflow")
             k == do("panic")
  <2>1. /\ p \in Seq(CleanOps) /\ g \in Seq(CleanOps) /\ i \in Seq(CleanOps)
        /\ o \in Seq(CleanOps) /\ k \in Seq(CleanOps)
    BY PrintIsClean, DoIsClean, PrintMsgs DEF OpNames
  <2>2. overflow_test = (((p \o g) \o i) \o o) \o k
    BY DEF overflow_test
  <2>3. p \o checking = showing
    BY OverflowPoints, BeginsIsClean, PrintMsgs, PrintThen DEF showing, shown
  <2>4. checking = g \o (i \o (o \o k))
    BY DEF checking, loading, overflowing
  <2> HIDE DEF p, g, i, o, k
  <2>5. PICK pg \in Seq(CleanOps) : pg = p \o g
    BY Zenon, <2>1, Joined
  <2>6. PICK iok \in Seq(CleanOps) : iok = i \o (o \o k)
    BY Zenon, <2>1, Joined
  <2>7. RegroupFour(pg, i, o, k) /\ Regroup(p, g, iok)
    BY Zenon, <2>1, <2>5, <2>6, CanRegroup, CanRegroupFour
  <2>8. QED
    BY Zenon, <2>2, <2>3, <2>4, <2>5, <2>6, <2>7 DEF Regroup, RegroupFour
<1>6. QED
  BY <1>2, <1>3, <1>4, <1>5

\* What is sent grows as tests pass.
LEMMA PassedGrows ==
    /\ Append(<<>>, "running") = Passed(0)
    /\ \A n \in Nat : Append(Append(Passed(n), "name"), "ok") = Passed(n + 1)
<1>1. ASSUME NEW n \in Nat
      PROVE  /\ Passed(n) \in Seq({"running", "name", "ok"}) /\ Len(Passed(n)) = 2 * n + 1
             /\ \A i \in 1 .. 2 * n + 1 : Passed(n)[i] =
                    IF i = 1 THEN "running" ELSE IF i % 2 = 0 THEN "name" ELSE "ok"
  BY DEF Passed
<1>2. Append(<<>>, "running") = Passed(0)
  <2> DEFINE s == Append(<<>>, "running")
  <2>1. s \in Seq({"running", "name", "ok"}) /\ Len(s) = 1 /\ s[1] = "running"
    OBVIOUS
  <2>2. /\ Passed(0) \in Seq({"running", "name", "ok"}) /\ Len(Passed(0)) = 1
        /\ Passed(0)[1] = "running"
    <3>1. 0 \in Nat /\ 2 * 0 + 1 = 1 /\ 1 \in 1 .. 1
      OBVIOUS
    <3>2. QED
      BY Zenon, <1>1, <3>1
  <2> HIDE DEF s
  <2>3. \A i \in 1 .. Len(s) : s[i] = Passed(0)[i]
    BY <2>1, <2>2
  <2>4. s = Passed(0)
    BY <2>1, <2>2, <2>3, SeqEqual
  <2>5. QED
    BY <2>4 DEF s
<1>3. ASSUME NEW n \in Nat
      PROVE  Append(Append(Passed(n), "name"), "ok") = Passed(n + 1)
  <2> DEFINE C == {"running", "name", "ok"}
             s == Passed(n)
             t == Append(s, "name")
             u == Append(t, "ok")
             v == Passed(n + 1)
  <2>1. /\ s \in Seq(C) /\ Len(s) = 2 * n + 1
        /\ \A i \in 1 .. 2 * n + 1 : s[i] =
               IF i = 1 THEN "running" ELSE IF i % 2 = 0 THEN "name" ELSE "ok"
    BY <1>1
  <2>2. /\ v \in Seq(C) /\ Len(v) = 2 * n + 3
        /\ \A i \in 1 .. 2 * n + 3 : v[i] =
               IF i = 1 THEN "running" ELSE IF i % 2 = 0 THEN "name" ELSE "ok"
    <3>1. n + 1 \in Nat /\ 2 * (n + 1) + 1 = 2 * n + 3
      OBVIOUS
    <3>2. QED
      BY <1>1, <3>1
  <2>3. "name" \in C /\ "ok" \in C
    OBVIOUS
  <2> HIDE DEF C, s, v
  <2>4. /\ t \in Seq(C) /\ Len(t) = 2 * n + 2 /\ t[2 * n + 2] = "name"
        /\ \A i \in 1 .. 2 * n + 1 : t[i] = s[i]
    BY <2>1, <2>3, AppendProperties
  <2> HIDE DEF t
  <2>5. /\ u \in Seq(C) /\ Len(u) = 2 * n + 3 /\ u[2 * n + 3] = "ok"
        /\ \A i \in 1 .. 2 * n + 2 : u[i] = t[i]
    BY <2>3, <2>4, AppendProperties
  <2> HIDE DEF u
  <2>6. ASSUME NEW i \in 1 .. 2 * n + 3
        PROVE  u[i] = v[i]
    <3>1. CASE i \in 1 .. 2 * n + 1
      BY <2>1, <2>2, <2>4, <2>5, <3>1
    <3>2. CASE i = 2 * n + 2
      <4>1. i % 2 = 0 /\ i # 1
        BY <3>2
      <4>2. QED
        BY <2>2, <2>4, <2>5, <3>2, <4>1
    <3>3. CASE i = 2 * n + 3
      <4>1. i % 2 # 0 /\ i # 1
        BY <3>3
      <4>2. QED
        BY <2>2, <2>5, <3>3, <4>1
    <3>4. QED
      BY <3>1, <3>2, <3>3
  <2>7. u = v
    BY <2>2, <2>5, <2>6, SeqEqual
  <2>8. QED
    BY <2>7 DEF u, t, s, v
<1>4. QED
  BY Zenon, <1>2, <1>3

-----------------------------------------------------------------------------
\* Every step keeps Progress.

\* Where test_runner is, by the operation it is about to execute.
LEMMA RunnerOp ==
    ASSUME Runner(cpu.code), left \in 0 .. Tests, NEW op, Head(cpu.code).op = op
    PROVE  LET done == Tests - left
           IN  /\ op = "gdt_init" => Tail(cpu.code) = init2 /\ left = Tests /\ serial = <<>>
               /\ op = "init_idt" => Tail(cpu.code) = init3 /\ left = Tests /\ serial = <<>>
               /\ op = "initialize" => Tail(cpu.code) = starting /\ left = Tests /\ serial = <<>>
               /\ op = "for" => cpu.code = rest /\ Tail(cpu.code) = leaving /\ serial = Passed(done)
               /\ op = "test" => /\ Tail(cpu.code) = passing /\ done > 0
                                 /\ serial = Append(Passed(done - 1), "name")
               /\ op = "exit" => /\ Tail(cpu.code) = halted /\ left = 0 /\ serial = Passed(Tests)
               /\ op \in {"gdt_init", "init_idt", "initialize", "for", "test", "exit", "lock",
                          "unlock", "hlt"}
<1>1. /\ Head(init1).op = "gdt_init" /\ Tail(init1) = init2
      /\ Head(init2).op = "init_idt" /\ Tail(init2) = init3
      /\ Head(init3).op = "initialize" /\ Tail(init3) = starting
      /\ Head(starting).op = "lock" /\ Head(started).op = "unlock"
  BY StartPoints DEF Begins
<1>2. /\ Head(rest).op = "for" /\ Tail(rest) = leaving /\ Head(leaving).op = "exit"
      /\ Tail(leaving) = halted /\ Head(halted).op = "hlt"
  BY EndPoints DEF Begins
<1>3. /\ Head(passed).op = "unlock" /\ Head(passing).op = "lock" /\ Head(texted).op = "unlock"
      /\ Head(texting).op = "lock" /\ Head(testing).op = "test" /\ Tail(testing) = passing
      /\ Head(named).op = "unlock" /\ Head(naming).op = "lock"
  BY TestPoints DEF Begins
<1>4. QED
  BY Zenon, <1>1, <1>2, <1>3 DEF Runner

LEMMA RunnerUnlock ==
    ASSUME Runner(cpu.code), left \in 0 .. Tests, Head(cpu.code).op = "unlock",
           left' = left, serial' = serial, Bottom' = Tail(cpu.code)
    PROVE  Runner(Bottom)'
<1>1. /\ Head(init1).op = "gdt_init" /\ Head(init2).op = "init_idt"
      /\ Head(init3).op = "initialize" /\ Head(starting).op = "lock" /\ Tail(started) = rest
  BY StartPoints DEF Begins
<1>2. /\ Head(rest).op = "for" /\ Head(leaving).op = "exit" /\ Head(halted).op = "hlt"
  BY EndPoints DEF Begins
<1>3. /\ Tail(passed) = rest /\ Head(passing).op = "lock" /\ Tail(texted) = passing
      /\ Head(texting).op = "lock" /\ Head(testing).op = "test" /\ Tail(named) = testing
      /\ Head(naming).op = "lock"
  BY TestPoints DEF Begins
<1>4. Tests \in Nat
  BY CountAssumption
<1>5. \/ left = Tests /\ serial = Passed(0) /\ cpu.code = started
      \/ serial = Passed(Tests - left) /\ cpu.code = passed
      \/ /\ Tests - left > 0 /\ serial = Append(Passed(Tests - left - 1), "name")
         /\ cpu.code \in {named, texted}
  BY <1>1, <1>2, <1>3 DEF Runner
<1>6. left = Tests => Tests - left = 0
  BY <1>4
<1>7. \/ serial = Passed(Tests - left) /\ Bottom' = rest
      \/ /\ Tests - left > 0 /\ serial = Append(Passed(Tests - left - 1), "name")
         /\ Bottom' \in {testing, passing}
  BY Zenon, <1>1, <1>3, <1>5, <1>6
<1>8. QED
  BY <1>7 DEF Runner

LEMMA RunnerLock ==
    ASSUME Runner(cpu.code), left \in 0 .. Tests, Head(cpu.code).op = "lock", left' = left,
           serial' = IF Head(cpu.code).arg = "SERIAL1" THEN Append(serial, Head(cpu.code).msg)
                     ELSE serial,
           Bottom' = Tail(cpu.code)
    PROVE  Runner(Bottom)'
<1>1. /\ Head(init1).op = "gdt_init" /\ Head(init2).op = "init_idt"
      /\ Head(init3).op = "initialize" /\ Head(starting).arg = "SERIAL1"
      /\ Head(starting).msg = "running" /\ Tail(starting) = started /\ Head(started).op = "unlock"
  BY StartPoints DEF Begins
<1>2. /\ Head(rest).op = "for" /\ Head(leaving).op = "exit" /\ Head(halted).op = "hlt"
  BY EndPoints DEF Begins
<1>3. /\ Head(passed).op = "unlock" /\ Head(texted).op = "unlock" /\ Head(testing).op = "test"
      /\ Head(named).op = "unlock"
      /\ Head(passing).arg = "SERIAL1" /\ Head(passing).msg = "ok" /\ Tail(passing) = passed
      /\ Head(texting).arg = "WRITER" /\ Tail(texting) = texted
      /\ Head(naming).arg = "SERIAL1" /\ Head(naming).msg = "name" /\ Tail(naming) = named
  BY TestPoints DEF Begins
<1>4. Tests \in Nat
  BY CountAssumption
<1> DEFINE done == Tests - left
<1>5. \/ left = Tests /\ serial = <<>> /\ cpu.code = starting
      \/ done > 0 /\ serial = Passed(done - 1) /\ cpu.code = naming
      \/ /\ done > 0 /\ serial = Append(Passed(done - 1), "name")
         /\ cpu.code \in {texting, passing}
  BY Zenon, <1>1, <1>2, <1>3 DEF Runner
<1>6. CASE left = Tests /\ serial = <<>> /\ cpu.code = starting
  <2>1. serial' = Passed(0) /\ Bottom' = started
    BY Zenon, <1>1, <1>6, PassedGrows
  <2>2. QED
    BY <1>6, <2>1 DEF Runner
<1>7. CASE done > 0 /\ serial = Passed(done - 1) /\ cpu.code = naming
  <2>1. serial' = Append(Passed(done - 1), "name") /\ Bottom' = named
    BY <1>3, <1>7
  <2>2. QED
    BY <1>7, <2>1 DEF Runner
<1>8. CASE done > 0 /\ serial = Append(Passed(done - 1), "name") /\ cpu.code = texting
  <2>1. serial' = serial /\ Bottom' = texted
    BY <1>3, <1>8
  <2>2. QED
    BY <1>8, <2>1 DEF Runner
<1>9. CASE done > 0 /\ serial = Append(Passed(done - 1), "name") /\ cpu.code = passing
  <2>1. serial' = Append(Append(Passed(done - 1), "name"), "ok") /\ Bottom' = passed
    BY <1>3, <1>9
  <2>2. done - 1 \in Nat /\ (done - 1) + 1 = done
    BY <1>4, <1>9
  <2>3. serial' = Passed(done)
    BY Zenon, <2>1, <2>2, PassedGrows
  <2>4. QED
    BY Zenon, <2>1, <2>3 DEF Runner
<1>10. QED
  BY <1>5, <1>6, <1>7, <1>8, <1>9

LEMMA RunnerStays ==
    ASSUME Runner(Bottom), Bottom' = Bottom, left' = left, serial' = serial
    PROVE  Runner(Bottom)'
BY DEF Runner

LEMMA BottomContinue ==
    ASSUME IInv, NEW op, At(op), op # "hlt", op # "user", Continue, below' = below
    PROVE  /\ below = <<>> => Bottom = cpu.code /\ Bottom' = Tail(cpu.code)
           /\ below # <<>> => Bottom' = Bottom
<1>1. cpu'.code = Tail(cpu.code)
  BY Zenon, ContinuedCpu
<1>2. QED
  BY <1>1 DEF Bottom

LEMMA LeftIsCount == ASSUME IInv PROVE left \in 0 .. Tests
BY DEF IInv, Types

LEMMA RunnerLoad ==
    ASSUME IInv, build = "tests", Runner(Bottom), Load
    PROVE  Runner(Bottom)'
<1>1. PICK op \in {"init_idt", "init_test_idt", "initialize"} : At(op)
  BY DEF Load
<1>2. below' = below /\ left' = left /\ serial' = serial /\ Continue
  BY DEF Load, dev
<1>3. below = <<>> /\ op # "init_test_idt" /\ Head(cpu.code).op = op
  BY <1>1, NextOp, OpOfProgram, OpOfHandler
<1>4. Bottom = cpu.code /\ Bottom' = Tail(cpu.code)
  BY <1>1, <1>2, <1>3, BottomContinue
<1>5. left = Tests /\ serial = <<>> /\ Bottom' \in {init3, starting}
  BY <1>3, <1>4, RunnerOp, LeftIsCount
<1>6. QED
  BY <1>2, <1>5 DEF Runner

LEMMA RunnerPanics ==
    ASSUME IInv, build = "tests", Runner(Bottom), MayPanic \/ Panic, ~faulted'
    PROVE  Runner(Bottom)'
<1>1. PICK op \in {"gdt_init", "kernel_main", "from_utf8"} : At(op)
  BY DEF MayPanic, Panic, Note
<1>2. below' = below /\ left' = left /\ serial' = serial /\ Continue
  BY DEF MayPanic, Panic, Note, dev
<1>3. CASE below # <<>>
  BY <1>1, <1>2, <1>3, BottomContinue, RunnerStays
<1>4. CASE below = <<>>
  <2>1. op = "gdt_init" /\ Head(cpu.code).op = op
    BY <1>1, <1>4, NextOp, OpOfProgram
  <2>2. Bottom = cpu.code /\ Bottom' = Tail(cpu.code)
    BY <1>1, <1>2, <1>4, BottomContinue
  <2>3. left = Tests /\ serial = <<>> /\ Bottom' = init2
    BY <2>1, <2>2, RunnerOp, LeftIsCount
  <2>4. QED
    BY <1>2, <2>3 DEF Runner
<1>5. QED
  BY <1>3, <1>4

LEMMA RunnerLocks ==
    ASSUME IInv, Clean, build = "tests", Runner(Bottom), Lock
    PROVE  Runner(Bottom)'
<1>1. /\ At("lock") /\ below' = below /\ left' = left /\ Continue
      /\ serial' = IF Arg = "SERIAL1" THEN Append(serial, Msg) ELSE serial
  BY DEF Lock
<1>2. CASE below # <<>>
  <2>1. serial' = serial
    BY <1>1, <1>2, CleanPrint
  <2>2. QED
    BY <1>1, <1>2, <2>1, BottomContinue, RunnerStays
<1>3. CASE below = <<>>
  <2>1. Bottom = cpu.code /\ Bottom' = Tail(cpu.code) /\ Head(cpu.code).op = "lock"
    BY <1>1, <1>3, BottomContinue, NextOp
  <2>2. QED
    BY <1>1, <2>1, RunnerLock, LeftIsCount DEF Arg, Msg
<1>4. QED
  BY <1>2, <1>3

LEMMA RunnerUnlocks ==
    ASSUME IInv, build = "tests", Runner(Bottom), Unlock
    PROVE  Runner(Bottom)'
<1>1. At("unlock") /\ below' = below /\ left' = left /\ serial' = serial /\ Continue
  BY DEF Unlock
<1>2. CASE below # <<>>
  BY <1>1, <1>2, BottomContinue, RunnerStays
<1>3. CASE below = <<>>
  <2>1. Bottom = cpu.code /\ Bottom' = Tail(cpu.code) /\ Head(cpu.code).op = "unlock"
    BY <1>1, <1>3, BottomContinue, NextOp
  <2>2. QED
    BY <1>1, <2>1, RunnerUnlock, LeftIsCount
<1>4. QED
  BY <1>2, <1>3

LEMMA RunnerExit ==
    ASSUME IInv, build = "tests", Runner(Bottom), Exit
    PROVE  Runner(Bottom)'
<1>1. At("exit") /\ below' = below /\ left' = left /\ serial' = serial
  BY DEF Exit, dev
<1>2. CASE cpu' = cpu
  BY <1>1, <1>2, RunnerStays DEF Bottom
<1>3. CASE Continue /\ below # <<>>
  BY <1>1, <1>3, BottomContinue, RunnerStays
<1>4. CASE Continue /\ below = <<>>
  <2>1. Bottom = cpu.code /\ Bottom' = Tail(cpu.code) /\ Head(cpu.code).op = "exit"
    BY <1>1, <1>4, BottomContinue, NextOp
  <2>2. Bottom' = halted /\ left = 0 /\ serial = Passed(Tests)
    BY <2>1, RunnerOp, LeftIsCount
  <2>3. QED
    BY <1>1, <2>2 DEF Runner
<1>5. QED
  BY <1>2, <1>3, <1>4 DEF Exit

\* Operations of handlers leave the program where it is.
LEMMA RunnerHandlers ==
    ASSUME IInv, build = "tests", Runner(Bottom), TopOfStack \/ ReadPort \/ Eoi, ~faulted'
    PROVE  Runner(Bottom)'
<1>1. PICK op \in {"top_of_stack", "read_port", "eoi"} : At(op)
  BY DEF TopOfStack, ReadPort, Eoi
<1>2. below' = below /\ left' = left /\ serial' = serial /\ Continue
  BY DEF TopOfStack, ReadPort, Eoi, Note, dev
<1>3. below # <<>>
  BY <1>1, NextOp, OpOfProgram
<1>4. QED
  BY <1>1, <1>2, <1>3, BottomContinue, RunnerStays

LEMMA RunnerIretq ==
    ASSUME IInv, Clean, build = "tests", Runner(Bottom), Iretq
    PROVE  Runner(Bottom)'
<1>1. At("iretq") /\ left' = left /\ serial' = serial
  BY DEF Iretq, dev
<1>2. below # <<>>
  BY <1>1, NextOp, OpOfProgram
<1>3. Len(below') = Len(below) - 1 /\ cpu' = below[Len(below)]
  BY <1>1, <1>2, Popped DEF Iretq
<1>4. Len(below) = 1
  BY <1>2 DEF Clean
<1>5. below' = <<>> /\ cpu' = below[1]
  <2>1. PICK S : below \in Seq(S)
    BY DEF IInv, Stack, IsBelow
  <2>2. below' \in Seq(S) /\ Len(below') = 0
    BY <1>2, <1>3, <1>4, <2>1, FrontFacts DEF Iretq, Front
  <2>3. QED
    BY <1>3, <1>4, <2>2
<1>6. Bottom' = Bottom
  BY <1>2, <1>5 DEF Bottom
<1>7. QED
  BY <1>1, <1>6, RunnerStays

LEMMA RunnerFor ==
    ASSUME IInv, build = "tests", Runner(Bottom), For
    PROVE  Runner(Bottom)'
<1>1. At("for") /\ below' = below /\ serial' = serial
  BY DEF For, dev
<1>2. below = <<>> /\ Head(cpu.code).op = "for"
  BY <1>1, NextOp, OpOfHandler
<1>3. Bottom = cpu.code
  BY <1>2 DEF Bottom
<1>4. cpu.code = rest /\ Tail(cpu.code) = leaving /\ serial = Passed(Tests - left)
  BY <1>2, <1>3, RunnerOp, LeftIsCount
<1>5. left \in 0 .. Tests /\ Tests \in Nat
  BY LeftIsCount, CountAssumption
<1>6. CASE left = 0
  <2>1. Continue /\ left' = left
    BY <1>6 DEF For
  <2>2. Bottom' = leaving
    BY Zenon, <1>1, <1>2, <1>4, <2>1, BottomContinue
  <2>3. Tests - left = Tests
    BY <1>5, <1>6
  <2>4. QED
    BY <1>1, <1>4, <1>6, <2>1, <2>2, <2>3 DEF Runner
<1>7. CASE left # 0
  <2>1. cpu' = [cpu EXCEPT !.code = run \o cpu.code] /\ left' = left - 1
    BY <1>7 DEF For
  <2>2. cpu' = [cpu EXCEPT !.code = naming]
    BY <1>4, <2>1, TestPoints
  <2>3. cpu = [ring |-> 0, interrupts |-> FALSE, sp |-> cpu.sp, code |-> cpu.code]
    BY Zenon, <1>1, KernelOp
  <2>4. cpu'.code = naming
    BY <2>2, <2>3
  <2>5. Bottom' = naming
    BY <1>1, <1>2, <2>4 DEF Bottom
  <2>6. Tests - left' > 0 /\ Tests - left' - 1 = Tests - left
    BY <1>5, <2>1
  <2>7. QED
    BY <1>1, <1>4, <2>5, <2>6 DEF Runner
<1>8. QED
  BY <1>6, <1>7

LEMMA RunnerTest ==
    ASSUME IInv, build = "tests", Runner(Bottom), Test, ~faulted'
    PROVE  Runner(Bottom)'
<1>1. At("test") /\ left' = left /\ serial' = serial
  BY DEF Test, dev
<1>2. below = <<>> /\ Head(cpu.code).op = "test"
  BY <1>1, NextOp, OpOfHandler
<1>3. Bottom = cpu.code
  BY <1>2 DEF Bottom
<1>4. /\ Tail(cpu.code) = passing /\ Tests - left > 0
      /\ serial = Append(Passed(Tests - left - 1), "name")
  BY <1>2, <1>3, RunnerOp, LeftIsCount
<1>5. cpu = [ring |-> 0, interrupts |-> FALSE, sp |-> cpu.sp, code |-> cpu.code]
  BY Zenon, <1>1, KernelOp
<1>6. CASE Continue /\ below' = below
  <2>1. Bottom' = passing
    BY Zenon, <1>1, <1>2, <1>4, <1>6, BottomContinue
  <2>2. QED
    BY <1>1, <1>4, <2>1 DEF Runner
<1>7. CASE cpu' = [cpu EXCEPT !.code = text \o Tail(cpu.code)] /\ below' = below
  <2>1. cpu' = [cpu EXCEPT !.code = texting]
    BY <1>4, <1>7, TestPoints
  <2>2. cpu'.code = texting
    BY <1>5, <2>1
  <2>3. Bottom' = texting
    BY <1>2, <1>7, <2>2 DEF Bottom
  <2>4. QED
    BY <1>1, <1>4, <2>3 DEF Runner
<1>8. CASE below' = Append(below, [cpu EXCEPT !.code = Tail(cpu.code)])
  <2> DEFINE c == [cpu EXCEPT !.code = Tail(cpu.code)]
  <2>1. c = [cpu EXCEPT !.code = passing]
    BY Zenon, <1>4
  <2>2. below' = Append(<<>>, c)
    BY <1>2, <1>8
  <2> HIDE DEF c
  <2>3. c.code = passing
    BY <1>5, <2>1
  <2>4. below' # <<>> /\ below'[1] = c
    BY <2>2
  <2>5. Bottom' = passing
    BY <2>3, <2>4 DEF Bottom
  <2>6. QED
    BY <1>1, <1>4, <2>5 DEF Runner
<1>9. QED
  BY <1>6, <1>7, <1>8 DEF Test, Note

LEMMA RunnerInterrupt ==
    ASSUME NEW line \in {"timer", "keyboard"}, IInv, build = "tests", Runner(Bottom),
           Interrupt(line)
    PROVE  Runner(Bottom)'
<1>1. cpu.interrupts = TRUE /\ left' = left /\ serial' = serial /\ Raise(Vector(line), cpu.sp)
  <2>1. cpu.interrupts \in BOOLEAN
    BY Zenon DEF IInv, Stack, IsProgram, IsHandler
  <2>2. QED
    BY <2>1 DEF Interrupt, dev
<1>2. below = <<>>
  BY Zenon, <1>1 DEF IInv, Stack, IsHandler
<1>3. CASE cpu' = cpu /\ below' = below
  BY <1>1, <1>3, RunnerStays DEF Bottom
<1>4. CASE below' = Append(below, [cpu EXCEPT !.sp = cpu.sp])
  <2> DEFINE c == [cpu EXCEPT !.sp = cpu.sp]
  <2>1. c.code = cpu.code
    BY <1>2 DEF IInv, Stack, IsProgram
  <2>2. below' = Append(<<>>, c)
    BY <1>2, <1>4
  <2> HIDE DEF c
  <2>3. below' # <<>> /\ below'[1] = c
    BY <2>2
  <2>4. Bottom' = Bottom
    BY <1>2, <2>1, <2>3 DEF Bottom
  <2>5. QED
    BY <1>1, <2>4, RunnerStays
<1>5. QED
  BY <1>1, <1>3, <1>4 DEF Raise

LEMMA RunnerNext == IInv /\ Honest /\ RunnerProgress /\ [Next]_vars => RunnerProgress'
<1> SUFFICES ASSUME IInv, Honest, RunnerProgress, [Next]_vars PROVE RunnerProgress'
  OBVIOUS
<1>1. build' = build /\ (faulted' = faulted \/ faulted' = TRUE)
  BY Zenon DEF Next, vars, Execute, Load, MayPanic, Panic, Lock, Unlock, Exit, TopOfStack, ReadPort,
         Eoi, Iretq, For, Test, StackOverflow, EnterUserMode, SystemCall, UserFault, KernelFault,
         Tick, KeyPress, Interrupt, Note, hist
<1> SUFFICES ASSUME build = "tests", ~faulted', ~faulted, Clean, Runner(Bottom)
             PROVE  Runner(Bottom)'
  BY <1>1 DEF Honest, RunnerProgress
<1>2. CASE UNCHANGED vars
  BY <1>2, RunnerStays DEF vars, Bottom
<1>3. CASE Tick \/ KeyPress
  BY <1>3, RunnerStays DEF Tick, KeyPress, dev, Bottom
<1>4. CASE \E line \in {"timer", "keyboard"} : Interrupt(line)
  BY <1>4, RunnerInterrupt
<1>5. CASE StackOverflow \/ UserFault \/ KernelFault
  BY <1>5 DEF StackOverflow, UserFault, KernelFault, Note
<1>6. CASE EnterUserMode \/ SystemCall
  <2>1. At("user")
    BY <1>6 DEF EnterUserMode, SystemCall
  <2>2. QED
    BY <2>1, NextOp, OpOfProgram, OpOfHandler
<1>7. CASE Execute
  BY <1>5, <1>6, <1>7, RunnerLoad, RunnerPanics, RunnerLocks, RunnerUnlocks, RunnerExit,
     RunnerHandlers, RunnerIretq, RunnerFor, RunnerTest DEF Execute
<1>8. QED
  BY <1>2, <1>3, <1>4, <1>5, <1>6, <1>7 DEF Next

-----------------------------------------------------------------------------
\* The stack overflow test.

\* Its operations, before the overflow ...
LEMMA OverflowOp ==
    ASSUME Overflowing(cpu.code), NEW op, Head(cpu.code).op = op
    PROVE  /\ op \in {"lock", "unlock", "gdt_init", "init_test_idt", "overflow"}
           /\ op = "lock" => /\ serial = <<>> /\ idt = "none" /\ Tail(cpu.code) = shown
                             /\ Head(cpu.code).arg = "SERIAL1" /\ Head(cpu.code).msg = "name"
           /\ op = "unlock" => serial = <<"name">> /\ idt = "none" /\ Tail(cpu.code) = checking
           /\ op = "gdt_init" => serial = <<"name">> /\ idt = "none" /\ Tail(cpu.code) = loading
           /\ op = "init_test_idt" => serial = <<"name">> /\ Tail(cpu.code) = overflowing
           /\ idt # "none" \/ op = "overflow" => serial = <<"name">> /\ idt = "TEST_IDT"
<1>1. CASE serial = <<>> /\ idt = "none" /\ cpu.code = showing
  <2>1. Begins(showing, "lock", "SERIAL1", "name", shown)
    BY OverflowPoints
  <2>2. QED
    BY <1>1, <2>1 DEF Begins
<1>2. CASE serial = <<"name">> /\ idt = "none" /\ cpu.code = shown
  <2>1. Begins(shown, "unlock", "SERIAL1", "name", checking)
    BY OverflowPoints
  <2>2. QED
    BY <1>2, <2>1 DEF Begins
<1>3. CASE serial = <<"name">> /\ idt = "none" /\ cpu.code = checking
  <2>1. Begins(checking, "gdt_init", "", "", loading)
    BY OverflowPoints
  <2>2. QED
    BY <1>3, <2>1 DEF Begins
<1>4. CASE serial = <<"name">> /\ idt = "none" /\ cpu.code = loading
  <2>1. Begins(loading, "init_test_idt", "", "", overflowing)
    BY OverflowPoints
  <2>2. QED
    BY <1>4, <2>1 DEF Begins
<1>5. CASE serial = <<"name">> /\ idt = "TEST_IDT" /\ cpu.code = overflowing
  <2>1. Begins(overflowing, "overflow", "", "", do("panic"))
    BY OverflowPoints
  <2>2. QED
    BY <1>5, <2>1 DEF Begins
<1>6. QED
  BY <1>1, <1>2, <1>3, <1>4, <1>5 DEF Overflowing

\* ... and after it.
LEMMA SucceedingOp ==
    ASSUME Succeeding(cpu.code), NEW op, Head(cpu.code).op = op
    PROVE  /\ op \in {"lock", "unlock", "exit", "hlt"}
           /\ op = "lock" => /\ (serial = <<"name">> \/ Shown) /\ Tail(cpu.code) = succeeded
                             /\ Head(cpu.code).arg = "SERIAL1" /\ Head(cpu.code).msg = "ok"
           /\ op = "unlock" => Shown /\ Tail(cpu.code) = leaving
           /\ op = "exit" => Shown /\ Tail(cpu.code) = halted
<1>1. /\ Head(succeeding).op = "lock" /\ Head(succeeding).arg = "SERIAL1"
      /\ Head(succeeding).msg = "ok" /\ Tail(succeeding) = succeeded
      /\ Head(succeeded).op = "unlock" /\ Tail(succeeded) = leaving
      /\ Head(leaving).op = "exit" /\ Tail(leaving) = halted /\ Head(halted).op = "hlt"
  BY OverflowPoints, EndPoints DEF Begins
<1>2. \/ (serial = <<"name">> \/ Shown) /\ cpu.code = succeeding
      \/ Shown /\ cpu.code = succeeded
      \/ Shown /\ cpu.code = leaving
      \/ Shown /\ cpu.code = halted
  BY DEF Succeeding
<1>3. QED
  BY Zenon, <1>1, <1>2 DEF Shown

LEMMA OverflowStays ==
    ASSUME OverflowProgress, UNCHANGED <<build, cpu, below, idt, serial, faulted>>
    PROVE  OverflowProgress'
BY DEF OverflowProgress, Overflowing, Succeeding, Shown

\* Every fault with TEST_IDT loaded ends in test_double_fault_handler.
LEMMA OverflowFault ==
    ASSUME IInv, OverflowProgress, build = "overflow", build' = build, idt # "none", idt' = idt,
           serial' = serial, faulted' = TRUE, NEW v \in {"pf", "de", "gp"}, NEW sp, Raise(v, sp)
    PROVE  OverflowProgress'
<1>1. idt = "TEST_IDT"
  BY DEF IInv, Types
<1>2. Delivered(v, sp) = "df" /\ Handler("df") = test_double_fault_handler
  BY <1>1 DEF Delivered, Gates, CanPush, OnOwnStack, Handler
<1> DEFINE c == [cpu EXCEPT !.sp = sp]
           code == test_double_fault_handler
<1>3. below' = Append(below, c) /\ cpu' = Kernel(code)
  BY <1>2 DEF Raise
<1>4. code = succeeding
  BY OverflowPoints
<1> HIDE DEF c, code
<1>5. below' # <<>>
  <2>1. PICK S : below \in Seq(S)
    BY DEF IInv, Stack, IsBelow
  <2>2. below \in Seq(S \cup {c})
    BY <2>1
  <2>3. Len(Append(below, c)) = Len(below) + 1 /\ Len(below) \in Nat
    BY <2>2
  <2>4. QED
    BY <1>3, <2>3
<1>6. cpu'.code = succeeding
  BY <1>3, <1>4 DEF Kernel
<1>7. serial = <<"name">> \/ Shown
  BY <1>1 DEF OverflowProgress, Overflowing, Succeeding
<1>8. serial' = <<"name">> \/ Shown'
  BY <1>7 DEF Shown
<1>9. QED
  BY <1>1, <1>5, <1>6, <1>8 DEF OverflowProgress, Succeeding

LEMMA OverflowFaults ==
    ASSUME IInv, OverflowProgress, build = "overflow", StackOverflow \/ UserFault \/ KernelFault
    PROVE  OverflowProgress'
<1>1. build' = build /\ idt' = idt /\ serial' = serial /\ faulted' = TRUE
  BY DEF StackOverflow, UserFault, KernelFault, Note, dev
<1>2. ~UserFault
  BY NextOp, OpOfProgram, OpOfHandler DEF UserFault
<1>3. PICK v \in {"pf", "de", "gp"}, sp \in Sps : Raise(v, sp)
  BY <1>2 DEF StackOverflow, KernelFault, Sps
<1>4. CASE idt # "none"
  BY <1>1, <1>3, <1>4, OverflowFault
<1>5. CASE idt = "none"
  <2>1. Delivered(v, sp) = "reset"
    BY <1>5 DEF Delivered, Gates
  <2>2. below' = below
    BY <1>3, <2>1 DEF Raise
  <2>3. below = <<>>
    BY <1>5 DEF OverflowProgress, IInv, Types
  <2>4. QED
    BY <1>1, <1>5, <2>2, <2>3 DEF OverflowProgress
<1>6. QED
  BY <1>4, <1>5

LEMMA OverflowLoad ==
    ASSUME IInv, OverflowProgress, build = "overflow", Load
    PROVE  OverflowProgress'
<1>1. At("init_test_idt") /\ below = <<>> /\ ~faulted /\ Head(cpu.code).op = "init_test_idt"
  BY NextOp, OpOfProgram, OpOfHandler, OpAfterFault DEF Load
<1>2. /\ below' = below /\ build' = build /\ serial' = serial /\ faulted' = faulted /\ Continue
      /\ idt' = "TEST_IDT"
  BY <1>1 DEF Load, dev, hist, At
<1>3. cpu'.code = Tail(cpu.code)
  BY Zenon, <1>1, <1>2, ContinuedCpu
<1>4. serial = <<"name">> /\ Tail(cpu.code) = overflowing
  BY <1>1, OverflowOp DEF OverflowProgress
<1>5. QED
  BY <1>1, <1>2, <1>3, <1>4 DEF OverflowProgress, Overflowing

LEMMA OverflowPanics ==
    ASSUME IInv, OverflowProgress, build = "overflow", MayPanic \/ Panic
    PROVE  OverflowProgress'
<1>1. below' = below /\ build' = build /\ serial' = serial /\ idt' = idt
  BY DEF MayPanic, Panic, dev
<1>2. PICK op \in {"gdt_init", "panic"} : At(op)
  BY NextOp, OpOfProgram, OpOfHandler DEF MayPanic, Panic
<1>3. below = <<>> /\ Head(cpu.code).op = op
  BY <1>2, NextOp, OpOfHandler
<1>4. idt = "none"
  <2>1. CASE faulted
    BY <1>3, <2>1 DEF OverflowProgress
  <2>2. CASE ~faulted
    BY <1>2, <1>3, <2>2, OverflowOp DEF OverflowProgress
  <2>3. QED
    BY <2>1, <2>2 DEF IInv, Types
<1>5. CASE faulted' = TRUE
  BY <1>1, <1>3, <1>4, <1>5 DEF OverflowProgress
<1>6. CASE At("gdt_init") /\ Continue /\ faulted' = faulted
  <2>1. ~faulted /\ Head(cpu.code).op = "gdt_init"
    BY <1>6, NextOp, OpAfterFault
  <2>2. serial = <<"name">> /\ Tail(cpu.code) = loading
    BY <1>3, <2>1, OverflowOp DEF OverflowProgress
  <2>3. cpu'.code = Tail(cpu.code)
    BY Zenon, <1>6, ContinuedCpu
  <2>4. QED
    BY <1>1, <1>3, <1>4, <1>6, <2>1, <2>2, <2>3 DEF OverflowProgress, Overflowing
<1>7. ~At("kernel_main") /\ ~At("from_utf8")
  BY NextOp, OpOfProgram, OpOfHandler
<1>8. QED
  BY Zenon, <1>5, <1>6, <1>7 DEF MayPanic, Panic, Note

LEMMA OverflowLock ==
    ASSUME IInv, OverflowProgress, build = "overflow", Lock
    PROVE  OverflowProgress'
<1>1. /\ At("lock") /\ below' = below /\ build' = build /\ idt' = idt /\ faulted' = faulted
      /\ serial' = (IF Arg = "SERIAL1" THEN Append(serial, Msg) ELSE serial) /\ Continue
  BY DEF Lock, hist
<1>2. cpu'.code = Tail(cpu.code) /\ Head(cpu.code).op = "lock"
  BY Zenon, <1>1, ContinuedCpu
<1>3. CASE ~faulted
  <2>1. /\ below = <<>> /\ serial = <<>> /\ idt = "none" /\ Tail(cpu.code) = shown
        /\ Arg = "SERIAL1" /\ Msg = "name"
    BY <1>2, <1>3, OverflowOp DEF OverflowProgress, Arg, Msg
  <2>2. serial' = <<"name">>
    BY <1>1, <2>1
  <2>3. QED
    BY <1>1, <1>2, <1>3, <2>1, <2>2 DEF OverflowProgress, Overflowing
<1>4. CASE faulted /\ below = <<>>
  BY <1>1, <1>4 DEF OverflowProgress
<1>5. CASE faulted /\ below # <<>>
  <2>1. /\ serial = <<"name">> \/ Shown
        /\ idt = "TEST_IDT" /\ Tail(cpu.code) = succeeded /\ Arg = "SERIAL1" /\ Msg = "ok"
    BY <1>2, <1>5, SucceedingOp DEF OverflowProgress, Arg, Msg
  <2>2. serial' = Append(serial, "ok") /\ serial \in Seq(Msgs)
    BY <1>1, <2>1 DEF IInv, Types
  <2>3. Shown'
    BY <2>1, <2>2 DEF Shown
  <2>4. QED
    BY <1>1, <1>2, <1>5, <2>1, <2>3 DEF OverflowProgress, Succeeding
<1>6. QED
  BY <1>3, <1>4, <1>5

LEMMA OverflowUnlock ==
    ASSUME IInv, OverflowProgress, build = "overflow", Unlock
    PROVE  OverflowProgress'
<1>1. /\ At("unlock") /\ below' = below /\ build' = build /\ idt' = idt /\ faulted' = faulted
      /\ serial' = serial /\ Continue
  BY DEF Unlock, hist
<1>2. cpu'.code = Tail(cpu.code) /\ Head(cpu.code).op = "unlock"
  BY Zenon, <1>1, ContinuedCpu
<1>3. CASE ~faulted
  <2>1. below = <<>> /\ serial = <<"name">> /\ idt = "none" /\ Tail(cpu.code) = checking
    BY <1>2, <1>3, OverflowOp DEF OverflowProgress
  <2>2. QED
    BY <1>1, <1>2, <1>3, <2>1 DEF OverflowProgress, Overflowing
<1>4. CASE faulted /\ below = <<>>
  BY <1>1, <1>4 DEF OverflowProgress
<1>5. CASE faulted /\ below # <<>>
  <2>1. Shown /\ idt = "TEST_IDT" /\ Tail(cpu.code) = leaving
    BY <1>2, <1>5, SucceedingOp DEF OverflowProgress
  <2>2. Shown'
    BY <1>1, <2>1 DEF Shown
  <2>3. QED
    BY <1>1, <1>2, <1>5, <2>1, <2>2 DEF OverflowProgress, Succeeding
<1>6. QED
  BY <1>3, <1>4, <1>5

LEMMA OverflowExit ==
    ASSUME IInv, OverflowProgress, build = "overflow", Exit
    PROVE  OverflowProgress'
<1>1. /\ At("exit") /\ below' = below /\ build' = build /\ idt' = idt /\ faulted' = faulted
      /\ serial' = serial
  BY DEF Exit, hist, dev
<1>2. CASE cpu' = cpu
  BY <1>1, <1>2, OverflowStays
<1>3. CASE Continue
  <2>1. cpu'.code = Tail(cpu.code) /\ Head(cpu.code).op = "exit"
    BY Zenon, <1>1, <1>3, ContinuedCpu
  <2>2. faulted
    BY <2>1, OverflowOp DEF OverflowProgress
  <2>3. CASE below = <<>>
    BY <1>1, <2>2, <2>3 DEF OverflowProgress
  <2>4. CASE below # <<>>
    <3>1. Shown /\ idt = "TEST_IDT" /\ Tail(cpu.code) = halted
      BY <2>1, <2>2, <2>4, SucceedingOp DEF OverflowProgress
    <3>2. Shown'
      BY <1>1, <3>1 DEF Shown
    <3>3. QED
      BY <1>1, <2>1, <2>2, <2>4, <3>1, <3>2 DEF OverflowProgress, Succeeding
  <2>5. QED
    BY <2>3, <2>4
<1>4. QED
  BY <1>2, <1>3 DEF Exit

LEMMA OverflowNext == IInv /\ Honest /\ OverflowProgress /\ [Next]_vars => OverflowProgress'
<1> SUFFICES ASSUME IInv, Honest, OverflowProgress, [Next]_vars PROVE OverflowProgress'
  OBVIOUS
<1>1. build' = build
  BY Zenon DEF Next, vars, Execute, Load, MayPanic, Panic, Lock, Unlock, Exit, TopOfStack, ReadPort,
         Eoi, Iretq, For, Test, StackOverflow, EnterUserMode, SystemCall, UserFault, KernelFault,
         Tick, KeyPress, Interrupt
<1> SUFFICES ASSUME build = "overflow" PROVE OverflowProgress'
  BY <1>1 DEF OverflowProgress
<1>2. CASE UNCHANGED vars
  BY <1>2, OverflowStays DEF vars
<1>3. CASE Tick \/ KeyPress
  BY <1>3, OverflowStays DEF Tick, KeyPress, dev, hist
<1>4. CASE \E line \in {"timer", "keyboard"} : Interrupt(line)
  <2>1. power = "on" /\ cpu.interrupts
    BY <1>4 DEF Interrupt
  <2>2. cpu.interrupts = FALSE
    <3>1. CASE faulted
      BY <2>1, <3>1 DEF IInv, Final, IsLast
    <3>2. CASE ~faulted
      BY <3>2 DEF Honest, Clean, Prepared, IInv, Types
    <3>3. QED
      BY Zenon, <3>1, <3>2
  <2>3. QED
    BY <2>1, <2>2
<1>5. CASE StackOverflow \/ UserFault \/ KernelFault
  BY <1>5, OverflowFaults
<1>6. ~At("user") /\ ~At("for") /\ ~At("test")
  BY NextOp, OpOfProgram, OpOfHandler
<1>7. ~At("top_of_stack") /\ ~At("read_port") /\ ~At("eoi") /\ ~At("iretq")
  BY NextOp, OpOfProgram, OpOfHandler
<1>8. CASE Execute \/ SystemCall
  BY <1>5, <1>6, <1>7, <1>8, OverflowLoad, OverflowPanics, OverflowLock, OverflowUnlock,
     OverflowExit DEF Execute, SystemCall, EnterUserMode, For, Test, TopOfStack, ReadPort, Eoi,
     Iretq
<1>9. QED
  BY <1>2, <1>3, <1>4, <1>5, <1>8 DEF Next

-----------------------------------------------------------------------------
\* The code QEMU exits with.

LEMMA VerdictExit ==
    ASSUME IInv, RunnerProgress, OverflowProgress, At("exit"), Arg = "Success"
    PROVE  \/ build = "tests" /\ ~faulted /\ serial = Passed(Tests)
           \/ build = "overflow" /\ faulted /\ Shown
<1>1. /\ Head(cpu.code).op = "exit" /\ Head(cpu.code).arg = "Success" /\ build \in Builds
      /\ faulted \in BOOLEAN
  BY NextOp DEF Arg, IInv, Types
<1>2. CASE build = "tests"
  <2>1. ~faulted /\ below = <<>>
    BY <1>1, <1>2, NextOp, OpOfHandler, OpAfterFault
  <2>2. Runner(cpu.code)
    BY <1>2, <2>1 DEF RunnerProgress, Bottom
  <2>3. serial = Passed(Tests)
    BY <1>1, <2>2, RunnerOp, LeftIsCount
  <2>4. QED
    BY <1>2, <2>1, <2>3
<1>3. CASE build = "overflow"
  <2>1. below # <<>>
    BY <1>1, <1>3, NextOp, OpOfProgram
  <2>2. faulted /\ Succeeding(cpu.code)
    BY <1>3, <2>1 DEF OverflowProgress
  <2>3. Shown
    BY <1>1, <2>2, SucceedingOp
  <2>4. QED
    BY <1>3, <2>2, <2>3
<1>4. CASE build = "kernel"
  BY <1>1, <1>4, NextOp, OpOfProgram, OpOfHandler
<1>5. QED
  BY <1>1, <1>2, <1>3, <1>4 DEF Builds

LEMMA VerdictNext == IInv /\ Progress /\ [Next]_vars => Verdict'
<1> SUFFICES ASSUME IInv, Progress, [Next]_vars PROVE Verdict'
  OBVIOUS
<1>1. CASE UNCHANGED vars
  BY <1>1 DEF vars, Progress, Verdict, Shown
<1>2. CASE Exit
  <2>1. /\ At("exit") /\ power = "on" /\ build' = build /\ faulted' = faulted /\ serial' = serial
        /\ power' = Arg \/ power' = power
    BY <1>2 DEF Exit, At, hist, dev
  <2>2. power' = "Success" => \/ build = "tests" /\ ~faulted /\ serial = Passed(Tests)
                              \/ build = "overflow" /\ faulted /\ Shown
    BY <2>1, VerdictExit DEF Progress
  <2>3. QED
    BY <2>1, <2>2 DEF Verdict, Shown
<1>3. CASE ~Exit /\ Next
  <2>1. power = "on"
    BY Zenon, <1>3 DEF Next, Execute, Load, MayPanic, Panic, Lock, Unlock, TopOfStack, ReadPort,
         Eoi, Iretq, For, Test, StackOverflow, EnterUserMode, SystemCall, UserFault, KernelFault,
         Tick, KeyPress, Interrupt, At
  <2>2. power' = power \/ power' = "reset"
    BY Zenon, <1>3 DEF Next, Execute, Load, MayPanic, Panic, Lock, Unlock, TopOfStack, ReadPort,
         Eoi, Iretq, For, Test, StackOverflow, EnterUserMode, SystemCall, UserFault, KernelFault,
         Tick, KeyPress, Interrupt, Raise
  <2>3. QED
    BY <2>1, <2>2 DEF Verdict
<1>4. QED
  BY <1>1, <1>2, <1>3

LEMMA ProgressNext == IInv /\ Honest /\ Progress /\ [Next]_vars => Progress'
BY VerdictNext, RunnerNext, OverflowNext DEF Progress

LEMMA InitHonest == Init => Honest /\ Progress
<1> SUFFICES ASSUME Init PROVE Honest /\ Progress
  OBVIOUS
<1>1. /\ build \in Builds /\ below = <<>> /\ idt = "none" /\ serial = <<>> /\ screen = {}
      /\ left = Tests /\ power = "on" /\ faulted = FALSE
  BY DEF Init, Builds
<1>2. /\ build = "kernel" => cpu = Kernel(kernel_main)
      /\ build = "tests" => cpu = Kernel(test_runner)
      /\ build = "overflow" => cpu = Kernel(overflow_test)
  BY DEF Init
<1>3. cpu.interrupts = FALSE /\ cpu.sp = "mapped"
  BY <1>1, <1>2 DEF Kernel, Builds
<1>4. /\ build = "kernel" => cpu.code = init \o after
      /\ build = "tests" => cpu.code = init1
      /\ build = "overflow" => cpu.code = showing
  <2>1. /\ build = "kernel" => cpu.code = kernel_main
        /\ build = "tests" => cpu.code = test_runner
        /\ build = "overflow" => cpu.code = overflow_test
    BY <1>2 DEF Kernel
  <2>2. build = "kernel" => after = do("kernel_main") \o do("user")
    BY DEF after
  <2>3. QED
    BY Zenon, <2>1, <2>2, Programs
<1>5. cpu.code \in Seq(CleanOps)
  <2>1. init \o after \in Seq(CleanOps)
    BY InitIsClean, RestIsClean, ConcatProperties
  <2>2. init1 \in Seq(CleanOps) /\ showing \in Seq(CleanOps)
    BY StartPoints, OverflowPoints, BeginsIsClean
  <2>3. QED
    BY Zenon, <1>1, <1>4, <2>1, <2>2 DEF Builds
<1>6. build # "overflow" => Preparing(cpu.code)
  <2>1. CASE build = "kernel"
    <3>1. init \o after = do("gdt_init") \o (do("init_idt") \o (do("initialize") \o after))
      BY Zenon, RestIsClean, InitThen
    <3>2. QED
      BY Zenon, <1>1, <1>4, <2>1, <3>1 DEF Preparing
  <2>2. CASE build = "tests"
    <3>1. after = starting
      BY <2>2, Programs DEF after
    <3>2. init1 = do("gdt_init") \o (do("init_idt") \o (do("initialize") \o starting))
      BY DEF init1, init2, init3
    <3>3. QED
      BY Zenon, <1>1, <1>4, <2>2, <3>1, <3>2 DEF Preparing
  <2>3. QED
    BY <1>1, <2>1, <2>2 DEF Builds
<1>7. Prepared
  BY <1>1, <1>3, <1>6 DEF Prepared
<1>8. Honest
  BY <1>1, <1>3, <1>5, <1>7 DEF Honest, Clean
<1>9. RunnerProgress
  BY <1>1, <1>4 DEF RunnerProgress, Runner, Bottom
<1>10. OverflowProgress
  BY <1>1, <1>4 DEF OverflowProgress, Overflowing
<1>11. QED
  BY <1>1, <1>8, <1>9, <1>10 DEF Progress, Verdict

LEMMA VerdictsFollow == IInv /\ Honest /\ Progress => VerdictsAreTrue
<1> SUFFICES ASSUME IInv, Honest, Progress PROVE VerdictsAreTrue
  OBVIOUS
<1>1. ASSUME ~faulted
      PROVE  (screen \cup Range(serial)) \cap Reports = {} /\ power # "Failed"
  <2>1. screen \subseteq CleanMsgs /\ serial \in Seq(CleanMsgs) /\ power # "Failed"
    BY <1>1 DEF Honest, Clean
  <2>2. Range(serial) \subseteq CleanMsgs
    BY <2>1 DEF Range
  <2>3. QED
    BY <2>1, <2>2, CleanFacts
<1>2. faulted \in BOOLEAN
  BY DEF IInv, Types
<1>3. QED
  BY <1>1, <1>2 DEF VerdictsAreTrue, Progress, Verdict, Shown

\* For any number of tests and of faults: a report on the screen or on SERIAL1,
\* or the exit code Failed, means that there was a fault or a panic; Success
\* means that test_runner ran every test to its end without one, or that the
\* stack overflow test got its double fault.
THEOREM VerdictsHold == Spec => []VerdictsAreTrue
<1>1. Init => IInv /\ Honest /\ Progress
  BY InitIInv, InitHonest
<1>2. IInv /\ Honest /\ Progress /\ [Next]_vars => (IInv /\ Honest /\ Progress)'
  BY NextKept, StutterIInv, HonestNext, ProgressNext DEF Kept
<1>3. IInv /\ Honest /\ Progress => VerdictsAreTrue
  BY VerdictsFollow
<1>4. QED
  BY <1>1, <1>2, <1>3, PTL DEF Spec
=============================================================================
