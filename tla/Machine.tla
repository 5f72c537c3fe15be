------------------------------ MODULE Machine ------------------------------
(***************************************************************************)
(* Exceptions, interrupts and panics on the one CPU: the tables that say   *)
(* who handles what on which stack (interrupts.rs, gdt.rs), the PIC, the   *)
(* handlers up to their last instruction, and the panic handlers, in the   *)
(* three kinds of program the repository builds: the kernel (main.rs), a   *)
(* test binary (lib.rs) and tests/stack_overflow.rs.                       *)
(*                                                                         *)
(* A context is the code it has yet to execute, as a sequence of           *)
(* operations; handlers and programs are such sequences.  Printing is one  *)
(* operation that takes the lock of a device and one that gives it back;   *)
(* all printing here happens with interrupts off, and module VgaBuffer has *)
(* the rest of it.  Any kernel code may fault (a bad pointer, a stack that *)
(* overflows), at most MaxFaults times.                                    *)
(***************************************************************************)
EXTENDS Integers, Sequences, Functions

CONSTANTS
    Tests,        \* number of tests in the test binary
    MaxFaults     \* bound: faults of kernel code

ASSUME CountAssumption == Tests \in Nat /\ MaxFaults \in Nat

VARIABLES
    build,        \* the program: "kernel", "tests" or "overflow"
    cpu,          \* the running context [ring, interrupts, sp, code]
    below,        \* the contexts it has interrupted, the latest last
    idt, pics,    \* the loaded table, and whether the PICs are remapped
    irr, isr,     \* PIC: lines requested and lines in service
    ps2,          \* the keyboard controller holds a scancode
    locked,       \* the devices whose Mutex is locked
    serial,       \* what SERIAL1 has sent
    screen,       \* the kinds of message WRITER has shown
    left,         \* the tests test_runner has yet to run
    power,        \* "on", "reset" or the code QEMU exited with
    faults,       \* faults of kernel code so far
    faulted,      \* history: there was a fault or a panic
    caught        \* history: the devices that were locked at one

pic  == <<irr, isr, ps2>>
dev  == <<locked, serial, screen>>
hist == <<faults, faulted, caught>>
vars == <<build, cpu, below, idt, pics, irr, isr, ps2, locked, serial, screen,
          left, power, faults, faulted, caught>>

-----------------------------------------------------------------------------
\* Code

Op(op, arg, msg) == <<[op |-> op, arg |-> arg, msg |-> msg]>>
do(op) == Op(op, "", "")
print(device, msg) == Op("lock", device, msg) \o Op("unlock", device, msg)
text == print("WRITER", "text")

exit_qemu(code) == Op("exit", code, "") \o do("hlt")

\* Mutated forms of test_panic_handler: the wrong code; two locks at once.
test_panic_succeeds ==
    print("SERIAL1", "failed") \o print("SERIAL1", "error") \o exit_qemu("Success")

test_panic_nested ==
    Op("lock", "SERIAL1", "failed") \o print("SERIAL1", "error") \o exit_qemu("Failed")

test_panic_handler ==
    print("SERIAL1", "failed") \o print("SERIAL1", "error") \o exit_qemu("Failed")

panic_handler ==
    IF build = "kernel" THEN print("WRITER", "panic") \o do("hlt") ELSE test_panic_handler

\* A mutated form of divide_error_handler: it returns.
divide_error_returns == print("WRITER", "divide") \o do("iretq")

divide_error_handler == print("WRITER", "divide") \o do("loop")

double_fault_handler == print("WRITER", "double fault") \o exit_qemu("Failed")

test_double_fault_handler == print("SERIAL1", "ok") \o exit_qemu("Success")

page_fault_handler == do("top_of_stack") \o do("panic")

\* my_write, between push and pop of the registers.
breakpoint_handler == do("from_utf8") \o text \o do("iretq")

timer_interrupt_handler == do("eoi") \o do("iretq")

\* No program here has a scancode queue, so add_scancode prints a warning.
keyboard_interrupt_handler ==
    do("read_port") \o print("WRITER", "warning") \o do("eoi") \o do("iretq")

Handler(v) ==
    CASE v = "bp" -> breakpoint_handler
      [] v = "de" -> divide_error_handler
      [] v = "pf" -> page_fault_handler
      [] v = "df" -> IF idt = "IDT" THEN double_fault_handler ELSE test_double_fault_handler
      [] v = "timer" -> timer_interrupt_handler
      [] v = "keyboard" -> keyboard_interrupt_handler

\* syscall::init, which follows, only writes the registers module Syscall starts from.
init == do("gdt_init") \o do("init_idt") \o do("initialize")

kernel_main == init \o do("kernel_main") \o do("user")

test_runner ==
    init \o print("SERIAL1", "running") \o do("for") \o exit_qemu("Success")

\* Testable::run, the body of the loop.
run == print("SERIAL1", "name") \o do("test") \o print("SERIAL1", "ok")

overflow_test ==
    print("SERIAL1", "name") \o do("gdt_init") \o do("init_test_idt")
                             \o do("overflow") \o do("panic")

-----------------------------------------------------------------------------
\* The processor

At(op) == power = "on" /\ cpu.code # <<>> /\ Head(cpu.code).op = op
Arg == Head(cpu.code).arg
Msg == Head(cpu.code).msg
Continue == cpu' = [cpu EXCEPT !.code = Tail(@)]
Kernel(code) == [ring |-> 0, interrupts |-> FALSE, sp |-> "mapped", code |-> code]

\* A mutated form of User: the flags to enter with lack INTERRUPT_FLAG.
UserFlagsClear == [ring |-> 3, interrupts |-> FALSE, sp |-> "mapped", code |-> do("user")]

User == [ring |-> 3, interrupts |-> TRUE, sp |-> "mapped", code |-> do("user")]

Init ==
    /\ build \in {"kernel", "tests", "overflow"}
    /\ cpu = Kernel(CASE build = "kernel" -> kernel_main
                      [] build = "tests" -> test_runner
                      [] build = "overflow" -> overflow_test)
    /\ below = <<>> /\ idt = "none" /\ pics = FALSE
    /\ irr = {} /\ isr = {} /\ ps2 = FALSE
    /\ locked = {} /\ serial = <<>> /\ screen = {} /\ left = Tests
    /\ power = "on" /\ faults = 0 /\ faulted = FALSE /\ caught = {}

\* The gates of IDT and of TEST_IDT.
Gates ==
    CASE idt = "IDT" -> {"bp", "de", "df", "pf", "timer", "keyboard"}
      [] idt = "TEST_IDT" -> {"df"}
      [] idt = "none" -> {}

\* A mutated form of OnOwnStack: double faults stay on the current stack.
PageFaultsOnly == {"pf"}

\* The gates with a stack of the interrupt stack table.
OnOwnStack == {"df", "pf"}

\* The frame can be pushed: on a stack of its own, on the stack for entries
\* from user mode, or else on the current one, if that has room.
CanPush(v, sp) == v \in OnOwnStack \/ cpu.ring = 3 \/ sp = "mapped"

\* The handler that runs in the end when v is raised.  A push that fails is a
\* page fault; a gate that is missing, or a fault in the delivery of a page
\* fault, a double fault; a fault in the delivery of that resets the CPU.
Delivered(v, sp) ==
    LET ok(w) == w \in Gates /\ CanPush(w, sp)
    IN  IF ok(v) THEN v
        ELSE IF v \in Gates \ {"df"} /\ ok("pf") THEN "pf"
        ELSE IF ok("df") THEN "df" ELSE "reset"

\* v is raised in a context whose stack pointer is sp.
Raise(v, sp) ==
    LET w == Delivered(v, sp)
    IN  IF w = "reset" THEN power' = "reset" /\ UNCHANGED <<cpu, below>>
        ELSE /\ below' = Append(below, [cpu EXCEPT !.sp = sp])
             /\ cpu' = Kernel(Handler(w))
             /\ UNCHANGED power

\* A fault or a panic, for the record.
Note == faulted' = TRUE /\ caught' = caught \cup locked

-----------------------------------------------------------------------------
\* Operations

\* initialize resets the PICs: what was requested before is forgotten, and a line
\* that is still up asks for nothing until it has gone down.
Load ==
    /\ idt' = CASE At("init_idt") -> "IDT" [] At("init_test_idt") -> "TEST_IDT" [] OTHER -> idt
    /\ pics' = (pics \/ At("initialize"))
    /\ irr' = IF At("initialize") THEN {} ELSE irr
    /\ At("init_idt") \/ At("init_test_idt") \/ At("initialize")
    /\ Continue
    /\ UNCHANGED <<build, left, below, isr, ps2, dev, power, hist>>

\* Code with an assertion, unwrap or expect of its own: gdt_init requires
\* fsgsbase, kernel_main frames and a well-formed program, my_write UTF-8.
MayPanic ==
    /\ At("gdt_init") \/ At("kernel_main") \/ At("from_utf8")
    /\ \/ Continue /\ UNCHANGED <<faulted, caught>>
       \/ cpu' = [cpu EXCEPT !.code = panic_handler] /\ Note
    /\ UNCHANGED <<build, left, below, idt, pics, pic, dev, power, faults>>

Panic ==
    /\ At("panic")
    /\ cpu' = [cpu EXCEPT !.code = panic_handler] /\ Note
    /\ UNCHANGED <<build, left, below, idt, pics, pic, dev, power, faults>>

\* A held lock is spun on: the step is not taken until it is free.
Lock ==
    /\ At("lock") /\ Arg \notin locked
    /\ locked' = locked \cup {Arg}
    /\ IF Arg = "SERIAL1" THEN serial' = Append(serial, Msg) /\ UNCHANGED screen
       ELSE screen' = screen \cup {Msg} /\ UNCHANGED serial
    /\ Continue
    /\ UNCHANGED <<build, left, below, idt, pics, pic, power, hist>>

Unlock ==
    /\ At("unlock")
    /\ locked' = locked \ {Arg}
    /\ Continue
    /\ UNCHANGED <<build, left, below, idt, pics, pic, serial, screen, power, hist>>

\* The port of QEMU's exit device; elsewhere nothing answers to it.
Exit ==
    /\ At("exit")
    /\ \/ power' = Arg /\ UNCHANGED cpu
       \/ Continue /\ UNCHANGED power
    /\ UNCHANGED <<build, left, below, idt, pics, pic, dev, hist>>

TopOfStack ==
    /\ At("top_of_stack")
    /\ CASE below[Len(below)].sp = "mapped" ->
              Continue /\ UNCHANGED <<below, power, faulted, caught>>
         [] below[Len(below)].sp = "unmapped" -> Raise("pf", "mapped") /\ Note
         [] OTHER -> Raise("gp", "mapped") /\ Note   \* not canonical
    /\ UNCHANGED <<build, left, idt, pics, pic, dev, faults>>

ReadPort ==
    /\ At("read_port") /\ ps2' = FALSE
    /\ Continue
    /\ UNCHANGED <<build, left, below, idt, pics, irr, isr, dev, power, hist>>

\* timer first
Highest(lines) == IF "timer" \in lines THEN {"timer"} ELSE lines

\* A mutated form of notify_end_of_interrupt: it ends the line it is given,
\* which is the timer's in both handlers.
end_of_the_given_line == isr' = isr \ {"timer"}

\* The end of interrupt ends whatever line has the highest priority.
notify_end_of_interrupt == isr' = isr \ Highest(isr)

Eoi ==
    /\ At("eoi") /\ notify_end_of_interrupt
    /\ Continue
    /\ UNCHANGED <<build, left, below, idt, pics, irr, ps2, dev, power, hist>>

Iretq ==
    /\ At("iretq")
    /\ cpu' = below[Len(below)] /\ below' = SubSeq(below, 1, Len(below) - 1)
    /\ UNCHANGED <<build, left, idt, pics, pic, dev, power, hist>>

For ==
    /\ At("for")
    /\ IF left = 0 THEN Continue /\ UNCHANGED left
       ELSE cpu' = [cpu EXCEPT !.code = run \o @] /\ left' = left - 1
    /\ UNCHANGED <<build, below, idt, pics, pic, dev, power, hist>>

\* What a test does: return, print, fail, or execute a breakpoint.
Test ==
    /\ At("test")
    /\ \/ Continue /\ UNCHANGED <<below, power, faulted, caught>>
       \/ /\ cpu' = [cpu EXCEPT !.code = text \o Tail(@)]
          /\ UNCHANGED <<below, power, faulted, caught>>
       \/ cpu' = [cpu EXCEPT !.code = panic_handler] /\ Note /\ UNCHANGED <<below, power>>
       \/ /\ below' = Append(below, [cpu EXCEPT !.code = Tail(@)])
          /\ cpu' = Kernel(breakpoint_handler)
          /\ UNCHANGED <<power, faulted, caught>>
    /\ UNCHANGED <<build, left, idt, pics, pic, dev, faults>>

\* The guard page below the stack.
StackOverflow ==
    /\ At("overflow")
    /\ Raise("pf", "unmapped") /\ Note
    /\ UNCHANGED <<build, left, idt, pics, pic, dev, faults>>

\* enter_user_mode and the end of a system call.
EnterUserMode ==
    /\ At("user") /\ cpu.ring = 0
    /\ cpu' = User
    /\ UNCHANGED <<build, left, below, idt, pics, pic, dev, power, hist>>

\* A system call of the program: write prints twice, read once, an unknown
\* call not at all; any may fail an unwrap; exit does not return.
SystemCall ==
    /\ At("user") /\ cpu.ring = 3
    /\ \/ /\ \E output \in {<<>>, text, text \o text} : cpu' = Kernel(output \o do("user"))
          /\ UNCHANGED <<faulted, caught>>
       \/ cpu' = [Kernel(do("hlt")) EXCEPT !.interrupts = TRUE] /\ UNCHANGED <<faulted, caught>>
       \/ cpu' = Kernel(panic_handler) /\ Note
    /\ UNCHANGED <<build, left, below, idt, pics, pic, dev, power, faults>>

\* The program faults.  "gp" stands for the exceptions without a gate, and for
\* int3, whose gate is not for user mode.
UserFault ==
    /\ At("user") /\ cpu.ring = 3
    /\ \E v \in {"pf", "de", "gp"}, sp \in {"mapped", "unmapped", "noncanonical"} : Raise(v, sp)
    /\ Note
    /\ UNCHANGED <<build, left, idt, pics, pic, dev, faults>>

\* Before init_idt there are no gates, so the CPU resets.
KernelFault ==
    /\ power = "on" /\ cpu.ring = 0 /\ ~At("hlt") /\ ~At("loop")
    /\ faults < MaxFaults
    /\ \E v \in {"pf", "de", "gp"}, sp \in {"mapped", "unmapped"} : Raise(v, sp)
    /\ faults' = faults + 1 /\ Note
    /\ UNCHANGED <<build, left, idt, pics, pic, dev>>

-----------------------------------------------------------------------------
\* Interrupts

\* The period of the timer is far longer than its handler, so no tick comes from
\* the delivery of one to its iretq.
Tick ==
    /\ power = "on" /\ "timer" \notin irr \cup isr /\ ~At("iretq")
    /\ irr' = irr \cup {"timer"}
    /\ UNCHANGED <<build, left, cpu, below, idt, pics, isr, ps2, dev, power, hist>>

KeyPress ==
    /\ power = "on" /\ ~ps2
    /\ ps2' = TRUE /\ irr' = irr \cup {"keyboard"}
    /\ UNCHANGED <<build, left, cpu, below, idt, pics, isr, dev, power, hist>>

\* The request the PIC signals, if it has priority over all lines in service.
Signalled == {l \in Highest(irr) : isr \cap {"timer", l} = {}}

\* Until the PICs are remapped, IRQ 0 has the vector of double faults and IRQ 1
\* one without a gate.
Vector(line) == IF pics THEN line ELSE IF line = "timer" THEN "df" ELSE "gp"

Interrupt(line) ==
    /\ power = "on" /\ cpu.interrupts /\ line \in Signalled
    /\ irr' = irr \ {line} /\ isr' = isr \cup {line}
    /\ Raise(Vector(line), cpu.sp)
    /\ UNCHANGED <<build, left, idt, pics, ps2, dev, hist>>

\* Steps that must follow one another, and steps that may happen.
Execute ==
    \/ Load \/ MayPanic \/ Panic \/ Lock \/ Unlock \/ Exit \/ TopOfStack \/ ReadPort
    \/ Eoi \/ Iretq \/ For \/ Test \/ StackOverflow \/ EnterUserMode

\* A pending interrupt is taken before the next instruction.
Next ==
    \/ \E line \in {"timer", "keyboard"} : Interrupt(line)
    \/ ~(cpu.interrupts /\ Signalled # {}) /\ (Execute \/ SystemCall \/ UserFault \/ KernelFault)
    \/ Tick \/ KeyPress

\* The CPU goes on executing kernel code and takes interrupts; ticks leave time
\* for the keyboard's.
Spec == /\ Init /\ [][Next]_vars
        /\ WF_vars(Execute) /\ WF_vars(Interrupt("timer")) /\ SF_vars(Interrupt("keyboard"))

-----------------------------------------------------------------------------
Devices == {"WRITER", "SERIAL1"}
Reports == {"panic", "divide", "double fault", "failed"}

Contexts == {cpu} \cup Range(below)

\* The shape of the state.  User code runs with interrupts on, on the bottom of
\* the stack of contexts; whoever looks for an interrupted context finds one.
TypeOK ==
    /\ \A c \in Contexts : /\ c.ring \in {0, 3} /\ c.interrupts \in BOOLEAN
                           /\ c.sp \in {"mapped", "unmapped", "noncanonical"}
                           /\ c.ring = 3 => c.interrupts /\ c.code = do("user")
    /\ below # <<>> => cpu.ring = 0
    /\ At("iretq") \/ At("top_of_stack") => below # <<>>
    /\ build \in {"kernel", "tests", "overflow"} /\ idt \in {"none", "IDT", "TEST_IDT"}
    /\ irr \subseteq {"timer", "keyboard"} /\ isr \subseteq {"timer", "keyboard"}
    /\ ps2 \in BOOLEAN /\ pics \in BOOLEAN
    /\ locked \subseteq Devices /\ caught \subseteq Devices /\ faulted \in BOOLEAN
    /\ power \in {"on", "reset", "Success", "Failed"}
    /\ faults \in 0 .. MaxFaults /\ left \in 0 .. Tests

\* A context spins on a Mutex for ever (interrupts are off while one is held)
\* only if a fault or a panic hit while that Mutex was held.  In particular no
\* interrupt handler ever spins on what it interrupted.
HangNeedsFaultInPrint == At("lock") /\ Arg \in locked => Arg \in caught

\* What SERIAL1 has sent once n tests have passed.
Passed(n) ==
    [i \in 1 .. 2 * n + 1 |->
        IF i = 1 THEN "running" ELSE IF i % 2 = 0 THEN "name" ELSE "ok"]

\* What the machine says of a run is true: reports appear only after a fault or
\* panic, QEMU is told Failed only then, and Success only by a test binary in
\* which every test ran to its end, each [ok] after its name (or by the double
\* fault the stack overflow test provokes).
VerdictsAreTrue ==
    /\ (screen \cup Range(serial)) \cap Reports # {} \/ power = "Failed" => faulted
    /\ power = "Success" =>
          \/ /\ build = "overflow" /\ faulted
             /\ Len(serial) >= 2 /\ serial[1] = "name" /\ serial[2] = "ok"
          \/ build = "tests" /\ ~faulted /\ serial = Passed(Tests)

\* After a fault or a panic nothing that was running is resumed: no handler
\* returns, and no user code runs.
NothingResumesAfterAFault ==
    [][faulted => Len(below') >= Len(below) /\ cpu'.ring = 0]_vars

Reported ==
    \/ (screen \cup Range(serial)) \cap Reports # {}
    \/ build = "overflow" /\ "ok" \in Range(serial)

\* Every fault and panic is reported, whatever the stack pointer was, unless one
\* hit while a device was locked, or before a table was loaded.  So from init_idt
\* on exceptions never reset the CPU silently.
FaultsAreReported ==
    faulted ~> Reported \/ caught # {} \/ (idt = "none" /\ power = "reset")

\* The kernel reads every scancode that the PIC has been asked to signal since
\* initialize, so that the next can come, unless it has stopped on a fault: the
\* PIC's lines are freed although the keyboard handler acknowledges the timer's.
\* (Initialize forgets a key pressed before: it stays in the controller, and no
\* other comes.)
KeysAreRead ==
    pics /\ build = "kernel" /\ "keyboard" \in irr ~> ~ps2 \/ faulted
=============================================================================
