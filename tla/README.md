# Verification of zulu_os

TLA+ models of the zulu_os kernel, checked with TLC on small instances, and
proofs of their main properties checked with TLAPS for all instances. Paths are
relative to `src/` of the repository; `kernel/src/` is left out where it is clear.

## The system

zulu_os is a single-core x86-64 kernel in Rust. It boots, maps a heap and a
stack, loads one ELF program, and runs it in user mode; the program makes system
calls. A cooperative executor for kernel tasks and a keyboard task exist beside
that. Only interrupts make it concurrent: handlers run between any two
instructions while the interrupt flag is set, to the end, with the flag clear.

| Part | State | Operations | What is hard | What must hold |
|---|---|---|---|---|
| Bump allocator (`allocator/bump.rs`) | `heap_start`, `heap_end`, `next` | `init`, `alloc`, `dealloc` | `dealloc` loads and then exchanges; a refused `alloc` has already moved `next` | blocks in use never overlap; the counter never wraps |
| Executor (`task/executor.rs`, `sys.rs`) | tasks, run queue, waker cache, interrupt flag | `spawn`, `run_ready_tasks`, `sleep_if_idle`, wake | a wake between the idle test and `hlt`; stale ids; a full queue | never asleep with work to do; every ready task polled |
| Keyboard task (`task/keyboard.rs`) | `SCANCODE_QUEUE`, `WAKER` | `poll_next`, `add_scancode` | a scancode between the first pop and `register`; two streams with one `WAKER` | scancodes printed once, in order, eventually |
| Simple executor (`task/simple_executor.rs`) | task queue | `spawn`, `run` | wakers that do nothing | a task that can finish does |
| System calls (`syscall/`, `syscall/src/lib.rs`) | registers, GS bases, `ThreadData`, kernel stack | entry code, dispatch, `read`, `write`, `exit`, buffer checks | hand-written switches of stack and GS; interrupts on the wrong stack; address arithmetic | to the program a call is one step; the kernel touches only user memory |
| Screen (`vga_buffer.rs`) | `WRITER` lock, column, cells | `print`, `print_bytes` | a handler printing while the lock is held; full rows | output whole and in order; no deadlock; flag restored |
| Memory and boot (`memory.rs`, `allocator/mod.rs`, `main.rs`) | frame counter, page table | `allocate_frame`, `init_kernel_heap`, `kernel_main` | tables and pages share the frames; running out | no frame used twice; heap backed before use |
| ELF loader (`elf/`) | segments, `pages_to_map` | `load`, `remap`, `pages` | segments that share pages; copy before protect | image in place; pages allow what their segments ask for |
| Exceptions, interrupts, panics (`interrupts.rs`, `gdt.rs`, `lib.rs`, `serial.rs`) | IDT, PICs, TSS, locks of the devices | handlers, `init`, test runner, panic handlers, `exit_qemu` | faults in handlers, in prints, on a bad stack | a fault is reported and nothing resumes; verdicts are true; keys are read |

Parts meet in five places. Interrupt handlers push to the run queue and to
`SCANCODE_QUEUE` (module Executor), run around system calls (Syscall) and print
(VgaBuffer). `kernel_main` maps the heap BumpAllocator manages and builds the
page table whose user pages Syscall checks (Boot). Machine puts handlers, panics,
tests, user code and both devices on one CPU.

## Modules

| Module | Models | State and actions |
|---|---|---|
| `HeapSpec` | what a heap promises | one variable, the live blocks; allocate a disjoint one that is large enough, free one. Alignment and the bounds of the heap, which `GlobalAlloc` promises too, are not part of it: see `AlignedToTheSmallest` and `BumpBounds` |
| `BumpAllocator` | `allocator/bump.rs`, `align_up` | the three atomics, the blocks clients hold, a program counter per thread. `Alloc` is the `fetch_add` and its test; `DeallocLoad` and `DeallocCas` are the two atomic accesses of `dealloc`. `usize` arithmetic is modulo `Word`. A refused client halts, as `alloc_error_handler` panics. `lifo` is history: every free so far was of the newest block |
| `Executor` | `task/`, `sys.rs`, the timer and keyboard handlers | one program counter for the executor, cut at every access to state a handler touches. `futures_util`'s `AtomicWaker` is modelled from its use: `register` and `take` are two steps each, with the bits that make a concurrent `wake` give up or be noticed. A future other than the keyboard's wakes itself at most once per poll: this is an assumption, which `OverflowNeedsScancodes` needs. Characters are not decoded |
| `SimpleExecutor` | `task/simple_executor.rs` | the queue; `Turn` is one turn of the loop of `run`. Futures wait for the end of other tasks |
| `SyscallSpec` | what a system call is to the program | where the program is, the request, its value and output; a request is served in one step, buffers are described byte by byte |
| `Syscall` | `syscall/`, `syscall/src/lib.rs`, `enter_user_mode` | one step per instruction of `syscall_handler` that matters, and one per outcome of `syscall_handler_inner`. `IrqEnter` switches to `RSP0` from user mode only and leaves GS alone, as no handler executes `swapgs`. `try_new`, `virt_add` and `range_inclusive` are those of the `x86_64` crate |
| `VgaBuffer` | `vga_buffer.rs`, `without_interrupts` | two contexts, kernel code and a handler. Per context: read the flag, disable, lock, write bytes, unlock, restore. `Render` is the reference for what a screen shows: it places each byte from the newlines before it, with no notion of scrolling |
| `Boot` | `kernel_main`, `memory.rs`, `init_kernel_heap`, `elf/` | one step per page mapped, segment merged into `pages_to_map`, segment copied or page protected. The frame allocator is a counter into the usable frames; page tables are one level, created by `map_to` out of the same frames. A byte in memory is the file offset it came from, or `Stale`. The bootloader's window on all of physical memory (`physical_memory_offset`), through which the kernel reaches page tables, maps every frame once more for the kernel alone; it is left out, so that "used once" means apart from it |
| `Machine` | `interrupts.rs`, `gdt.rs`, `lib.rs`, `serial.rs`, the panic handlers, `tests/stack_overflow.rs` | a running context and the stack of contexts it interrupted; a context is the sequence of operations it has yet to execute, and a handler or program is such a sequence. `Delivered` says which handler runs in the end when a push to the stack fails or a gate is missing. `build` chooses the kernel, a test binary or the stack overflow test. The 8259 has one request and one in-service bit per line, and `initialize` drops what was requested before. Kernel code may fault anywhere; before `init_idt` that resets the CPU |

`MC*` modules hold the definitions the configurations assign to constants,
`*Proofs` modules the theorems. Operators called "a mutated form of" something
are not part of the models: each is a plausible bug that shows that a property
can fail.

## Runs

| Run | Bounds | Shows |
|---|---|---|
| `Bump` | 3 threads, 2 layouts, heap of 8 bytes | blocks never overlap and `next` is bounded, for all interleavings of two frees and an allocation, which is what it takes to return `next` to an old value; implementation of `HeapSpec`; refusal is permanent; the smallest alignment asked for is kept; frees in reverse order give everything back |
| `Executor` | 2 keyboard tasks, 2 others, 4 scancodes, scancode queue of 2, run queue of 5 | no lost wake, order of scancodes, live wakers, when the run queue may overflow; every accepted scancode is printed and every ready task polled. Two streams make them compete for `WAKER`; the scancodes fill the queue more than once |
| `SimpleExecutor` | 3 tasks, every relation of waiting between them, up to one more poll each | every task that can finish does, next to tasks that wait for ever |
| `Syscall` | every buffer of a 32-byte address space with 2-byte pages, 2 contexts | registers, GS base and stacks are restored; slices are user memory; implementation of `SyscallSpec` |
| `Vga` | 3 x 2 screen, 4 prints of 4 messages | the screen equals `Render`; no spinning; the flag is preserved; every print returns. The messages fill a row exactly, wrap, and end lines |
| `Boot` | 2380 two-segment programs and odd ones, two memory maps | frames, heap, image; every byte of a segment has the permissions the segment asks for, and no page has any that no segment on it, or ending where it begins, asks for; a program that fits is started. The small map runs out of frames for the larger programs |
| `Machine` | 2 tests, 2 faults of kernel code | the CPU spins on a lock only if a fault hit inside a print; every other fault from `init_idt` on is reported, whatever the stack pointer; nothing resumes after one; exit codes and `[ok]` are true; every key signalled after `initialize` is read, although the keyboard handler acknowledges the timer's line. Two faults reach a fault in the handler of a fault; a third finds the same code again |

Numbers of prints, scancodes, faults and tests are bounded only to keep the state
space finite (`MaxPrints`, `MaxKeys`, `MaxFaults`, `Tests`; calls are not
bounded). Deadlock is checked where the system never stops; an executor that has
panicked, a heap with no client left, a machine that has halted after `exit`, a
panic or a test, and the end of boot are real stops.

Fairness. `Executor`, `SimpleExecutor`: the CPU executes the executor's
instructions unless it has panicked; nothing is assumed of the timer or keyboard.
`VgaBuffer`: a handler runs on to its `iretq` (weak fairness), and interrupts
leave the interrupted code some instructions (strong fairness on kernel code,
since interrupts disable its steps again and again); the timer and a keyboard are
far slower than the CPU. `Boot`: nothing else runs, so each step is followed by
the next. `Machine`: the CPU executes kernel code and takes pending interrupts
(weak fairness), and the timer, whose handler is far shorter than its period,
leaves time for the keyboard's (strong fairness); nothing is assumed of user code,
faults or the devices.

### Disagreements between the code and what is written about it

Each is a run that TLC ends with a counterexample.

| Run | Written | Code |
|---|---|---|
| `BumpBounds` | the allocator has "the given heap bounds" (`bump.rs:21`) | the start of a block is tested, so the last one may end outside |
| `ExecutorFull` | `expect("Task queue full")` with a capacity of `MAX_TASKS` tasks (`executor.rs:79`) | one task can be queued many times by scancodes within one poll |
| `SyscallThreadData` | `with_thread_data` "can be accessed during interrupts" (`syscall/mod.rs:172`) | GS base is the user's if the interrupt came in user mode |
| `BootNx` | "if either one is executable, clear execute bit" (`elf/mod.rs:109`) | not if the later segment is not executable |
| `BootPages` | `pages` "Returns the pages used by thes section" (`elf/types.rs:74`) | and the next page if the section ends on a page boundary; its flags are merged into that page's, so text that begins there is writable if the section is |

The models also show six smaller ones, which need no run to see. "Memory is
never reclaimed" (`lib.rs:66`), but freeing the newest block lowers `next`
(`DeallocCas`). Faults of the program cause "a kernel panic" (`lib.rs:71`), but a
divide error prints and loops, and an illegal instruction, which has no gate, ends
in the double fault handler (`Delivered`). `read` is documented to read from the
keyboard (`README.md:43`), but stores nothing and reports a full buffer
(`InnerIo`). Interrupts are "always disabled for the duration of syscalls"
(`syscall/mod.rs:19`), but `exit` enables them (`InnerExit`).
"Make error code a negitive number" (`syscall/handler.rs:47`), but the first
error, `NoSys`, is 0, so an unknown call returns what a call that transferred
nothing does (`neg_err`). A slice is created
"after verifying that the memory is mapped" (`syscall/mod.rs:89`), but for a
length of zero `bytes - 1` overflows, which panics in the dev profile
(`construct_user_slice`, `InnerBadBuffer`).

## Proofs

All are safety properties; each follows from an inductive invariant `IInv`, as
the property alone does not say enough about the state before a step.

* `BumpAllocatorProofs`. `IInv` adds that everything at or above `next` is free,
  and that once a request has been refused there is a gap below `next` that no
  exchange can close. From it: no two blocks overlap, `next` stays below the
  word size, refusal is permanent, and every step is a step or a stutter of
  `HeapSpec` (`SizeOfBounds`: rounding up never makes a request smaller). While
  frees come in reverse order the blocks tile the heap up to `next`
  (`StackOrderReclaims`), and blocks start at multiples of the
  smallest alignment (`SmallestAlignmentKept`). Assumes powers of two as
  alignments, a finite set of threads, and requests small beside the address
  space.
* `ExecutorProofs`. `IInv` says, for each place the executor may be in a poll,
  who will look at the scancode queue next: a queued keyboard task, the poll in
  progress, or the waker in `WAKER`. From it: a waiting scancode has a reader,
  the CPU never sleeps on work, scancodes are processed in order, wakers belong
  to live tasks, and the run queue is bounded by tasks plus scancodes.
* `SyscallProofs`. `IInv` gives the contents of both GS bases, both saved stack
  pointers, the kernel stack and `rcx`/`r11` at every instruction. From it: the
  caller is resumed, the kernel stack does not grow, `swapgs` is paired, and
  interrupts never share the stack of a call that returns. `SliceIsChecked`
  shows that a slice lies in checked pages: its first page is user memory, which
  is in the lower half, so the pointer was not sign-extended, and division by
  the page size is monotonic. `GoodIsOk` is the converse: every page between two
  addresses has a byte between them, so a buffer the program could use itself is
  accepted. With both, `CallsAreAtomic` shows that the code implements
  `SyscallSpec`: `syscall_handler_inner` serves the request, `sysretq` returns,
  and every other instruction and interrupt is a stutter. Assumes that user pages
  are in the lower half, as `kernel_main` maps them, that a canonical half is at
  most a quarter of the values of a `usize`, and that overflow panics (the dev
  profile); nothing is claimed for a build without overflow checks.
* `VgaBufferProofs`. `IInv` says that kernel code between disabling interrupts
  and restoring them is not interrupted, and that the flag it started with is in
  one of three places. From it: the lock is never contended, the flag is given
  back, and no byte is written past the end of a row.
* `BootProofs`. `IInv` says that every frame in use is the bootloader's or one of
  the first `next` usable ones (`MapPage`: the frames `map_to` takes for the page
  and its table are new and different), which pages of the heap are mapped
  during the loop, and that the segments are those of the file, moved. From it:
  no frame is used twice, and the heap, once initialised, stays mapped, writable
  and the kernel's own: a page of the program that was already mapped fails an
  `unwrap`, so write protection never reaches the heap.
* `BootImageProofs`. Three more invariants on top of that. `MergeInv`: after n
  segments `pages_to_map` holds the union of their flags (`UnionGrows`).
  `PermissionInv`: what each page of the program and the stack is mapped with in
  each phase, and that the tables above allow it. `ImageInv`: after n copies each
  frame holds the bytes the first n segments put on its page, since no frame
  backs two pages (`CopyLands`). From them: permissions and image, for every
  program. `PagesOfBytes` relates `pages`, which counts one page too many at a
  boundary, to the pages that hold a byte. Both modules assume what
  `BootInfoFrameAllocator::init` requires of the memory map, that the bootloader
  uses no frame twice (the window on physical memory apart) and maps no page for
  user mode, and that a program is linked so that moving it does not bring it
  below address zero.
* `MachineProofs`. `IInv` says what the stack of contexts is (a program at the
  bottom, handlers on top, each with code made of its kind of operations, every
  lock followed by its unlock); that a held lock is about to be released unless
  a fault came first; and that after a fault or panic the running context is in
  ring 0 with interrupts off and has only operations left that never return.
  From it: the state is well-formed and an `iretq` finds a context, spinning
  needs a fault inside a print, and nothing resumes after a fault. Assumes only
  that `Tests` and `MaxFaults` are natural numbers.
* `MachineVerdicts`. `Honest` says that, until a fault, no context has code that
  reports one, and tables and PICs are loaded before anything can interrupt;
  `Progress` follows the test runner and the stack overflow test from operation
  to operation, with what the serial port has sent at each. From them: what the
  screen, the serial port and QEMU are told is true, for any number of tests.

Only model-checked: liveness (`AcceptedIsPrinted`, `ReadyIsPolled`,
`TasksFinish`, `PrintsReturn`, `BootSucceeds`, `FaultsAreReported`,
`KeysAreRead`), which needs fairness, and `ScreenShowsOutput`, whose reference
sums over the lines of all output.

## Not modelled

* Decoding of scancodes to characters, colours, and formatting.
* The values of the selectors in the GDT and of the model-specific registers:
  constants, written once.
* Headers as bytes: parsing them is left to the `object` crate, and Boot starts
  from what it returns. `ElfFile::run` and `jmp` are never called.
* The contents of frames beyond the program's pages, and the four levels of page
  tables, which are one level here: a table of a higher level is one more frame
  of the same counter.
* `build.rs`, which runs on the host; the tests other than `stack_overflow`,
  whose runner is modelled; `should_panic`, which has a panic handler of its own.
* Builds without overflow checks.
* A way out for a key pressed before `initialize`: it is never signalled, its
  scancode stays in the controller, and no later key comes, in the model as on a
  PC. `KeysAreRead` is about the keys after.
* The program in `userspace_test`: Syscall and Machine let user code make any
  calls in any order.
