------------------------------ MODULE Executor ------------------------------
(***************************************************************************)
(* The cooperative executor (kernel/src/task/executor.rs), the keyboard    *)
(* task it runs (task/keyboard.rs) and the interrupt handlers that feed    *)
(* it (interrupts.rs), on one CPU.                                         *)
(*                                                                         *)
(* The executor is one thread of control; pc says where it is.  A handler  *)
(* runs between any two of its steps while interrupts are enabled, and to  *)
(* the end, since the interrupt gates of the IDT clear the flag.  The      *)
(* steps are cut at every access to state a handler touches: the task      *)
(* queue, the scancode queue and the two bits and the slot of WAKER.       *)
(*                                                                         *)
(* Keyboard tasks run print_keypresses and never finish.  The other tasks  *)
(* stand for any future that, each time it is polled, may wake itself and  *)
(* then is ready or (if it has woken itself) pending.  It is assumed to    *)
(* wake itself once per poll; wake_by_ref does not insist on that, and     *)
(* each further call would push its id once more.                          *)
(***************************************************************************)
EXTENDS Integers, Sequences, FiniteSets

CONSTANTS
    KeyTasks,      \* the tasks that run print_keypresses
    OtherTasks,    \* the other tasks
    NoTask,        \* None
    MAX_TASKS,     \* capacity of the executor's task queue
    ScancodeCap,   \* capacity of SCANCODE_QUEUE
    MaxKeys        \* bound: scancodes the keyboard sends

TaskIds == KeyTasks \cup OtherTasks

ASSUME TaskAssumption ==
    /\ KeyTasks \cap OtherTasks = {}
    /\ NoTask \notin TaskIds
    /\ IsFiniteSet(TaskIds)

ASSUME CapacityAssumption ==
    /\ MAX_TASKS \in Nat
    /\ ScancodeCap \in Nat
    /\ MaxKeys \in Nat

VARIABLES
    \* the executor
    tasks,           \* keys of Executor::tasks
    task_queue,      \* Executor::task_queue, shared with the wakers
    waker_cache,     \* keys of Executor::waker_cache
    pc,              \* what the executor does next
    cur,             \* the task being polled
    woken,           \* cur has woken itself in this poll
    \* the keyboard
    initialized,     \* SCANCODE_QUEUE has been initialized
    scancode_queue,
    scancode,        \* the scancode a poll took after registering, 0 if none
    waker,           \* WAKER: the task in its slot
    wstate,          \* WAKER: the bits of its state; {} is WAITING
    \* the machine
    interrupts,      \* the interrupt flag
    panicked,
    \* history
    typed,           \* number of scancodes the keyboard has sent
    accepted,        \* the scancodes that went into SCANCODE_QUEUE
    printed          \* the scancodes print_keypresses has processed

exec == <<tasks, waker_cache, cur, woken>>
kbd  == <<initialized, scancode_queue, scancode>>
slot == <<waker, wstate>>
hist == <<typed, accepted, printed>>
vars == <<tasks, task_queue, waker_cache, pc, cur, woken, initialized,
          scancode_queue, scancode, waker, wstate, interrupts, panicked,
          typed, accepted, printed>>

Codes == 1 .. MaxKeys

\* Where the executor is inside the poll of a keyboard task.
InStream == {"new", "pop1", "register", "registering", "pop2", "take", "taking"}

Labels == InStream \cup {"spawn", "pop", "other", "disable", "check", "sleep",
                         "enable", "hlt"}

Holds(queue, S) == \E i \in 1 .. Len(queue) : queue[i] \in S

-----------------------------------------------------------------------------
\* Executor::new; SCANCODE_QUEUE and WAKER as their statics define them.
Init ==
    /\ tasks = {} /\ task_queue = <<>> /\ waker_cache = {}
    /\ pc = "spawn" /\ cur = NoTask /\ woken = FALSE
    /\ initialized = FALSE /\ scancode_queue = <<>> /\ scancode = 0
    /\ waker = NoTask /\ wstate = {}
    /\ interrupts \in BOOLEAN
    /\ panicked = FALSE
    /\ typed = 0 /\ accepted = <<>> /\ printed = <<>>

\* TaskWaker::wake_task, and the push in spawn: `.expect("Task queue full")`.
WakeTask(id) ==
    IF Len(task_queue) < MAX_TASKS
    THEN task_queue' = Append(task_queue, id) /\ UNCHANGED panicked
    ELSE panicked' = TRUE /\ UNCHANGED task_queue

\* Executor::spawn, before the executor runs.  TaskId::new never repeats.
Spawn(t) ==
    /\ pc = "spawn"
    /\ t \notin tasks
    /\ tasks' = tasks \cup {t}
    /\ WakeTask(t)
    /\ UNCHANGED <<waker_cache, pc, cur, woken, kbd, slot, interrupts, hist>>

\* Executor::run is entered.
Run ==
    /\ pc = "spawn"
    /\ pc' = "pop"
    /\ UNCHANGED <<exec, task_queue, kbd, slot, interrupts, panicked, hist>>

\* A mutated form of RunReadyTask: the newest id is taken first.
RunNewestTask ==
    /\ pc = "pop"
    /\ task_queue # <<>>
    /\ LET id == task_queue[Len(task_queue)]
       IN  /\ task_queue' = SubSeq(task_queue, 1, Len(task_queue) - 1)
           /\ IF id \notin tasks
              THEN UNCHANGED <<waker_cache, pc, cur>>
              ELSE /\ waker_cache' = waker_cache \cup {id}
                   /\ cur' = id
                   /\ pc' = IF id \in OtherTasks THEN "other"
                            ELSE IF initialized THEN "pop1" ELSE "new"
    /\ UNCHANGED <<tasks, woken, kbd, slot, interrupts, panicked, hist>>

\* run_ready_tasks: pop an id, skip a task that has already stopped, enter
\* the poll of a live one.  (ScancodeStream::new has no effect once
\* SCANCODE_QUEUE is initialized, so only then is it a step.)
RunReadyTask ==
    /\ pc = "pop"
    /\ task_queue # <<>>
    /\ LET id == Head(task_queue)
       IN  /\ task_queue' = Tail(task_queue)
           /\ IF id \notin tasks
              THEN UNCHANGED <<waker_cache, pc, cur>>
              ELSE /\ waker_cache' = waker_cache \cup {id}
                   /\ cur' = id
                   /\ pc' = IF id \in OtherTasks THEN "other"
                            ELSE IF initialized THEN "pop1" ELSE "new"
    /\ UNCHANGED <<tasks, woken, kbd, slot, interrupts, panicked, hist>>

\* run_ready_tasks: the queue is empty, go on to sleep_if_idle.
NoReadyTask ==
    /\ pc = "pop"
    /\ task_queue = <<>>
    /\ pc' = "disable"
    /\ UNCHANGED <<exec, task_queue, kbd, slot, interrupts, panicked, hist>>

-----------------------------------------------------------------------------
\* sleep_if_idle = sys::wait_for_interrupts_if(|| task_queue.is_empty()).

\* A mutated form of DisableInterrupts: the flag is left alone.
SkipDisable ==
    /\ pc = "disable"
    /\ pc' = "check"
    /\ UNCHANGED <<exec, task_queue, kbd, slot, interrupts, panicked, hist>>

DisableInterrupts ==
    /\ pc = "disable"
    /\ interrupts' = FALSE
    /\ pc' = "check"
    /\ UNCHANGED <<exec, task_queue, kbd, slot, panicked, hist>>

CheckIdle ==
    /\ pc = "check"
    /\ pc' = IF task_queue = <<>> THEN "sleep" ELSE "enable"
    /\ UNCHANGED <<exec, task_queue, kbd, slot, interrupts, panicked, hist>>

\* `sti; hlt`: no interrupt is taken between the two.
EnableAndHlt ==
    /\ pc = "sleep"
    /\ interrupts' = TRUE
    /\ pc' = "hlt"
    /\ UNCHANGED <<exec, task_queue, kbd, slot, panicked, hist>>

EnableInterrupts ==
    /\ pc = "enable"
    /\ interrupts' = TRUE
    /\ pc' = "pop"
    /\ UNCHANGED <<exec, task_queue, kbd, slot, panicked, hist>>

-----------------------------------------------------------------------------
\* The poll of a keyboard task: print_keypresses and poll_next.

\* ScancodeStream::new: try_init_once.
StreamNew ==
    /\ pc = "new"
    /\ initialized' = TRUE
    /\ pc' = "pop1"
    /\ UNCHANGED <<exec, task_queue, scancode_queue, scancode, slot,
                   interrupts, panicked, hist>>

\* poll_next, the fast path; the scancode is decoded and printed and the
\* stream is polled again.
PopFast ==
    /\ pc = "pop1"
    /\ scancode_queue # <<>>
    /\ scancode_queue' = Tail(scancode_queue)
    /\ printed' = Append(printed, Head(scancode_queue))
    /\ UNCHANGED <<exec, task_queue, pc, initialized, scancode, slot,
                   interrupts, panicked, typed, accepted>>

PopFastEmpty ==
    /\ pc = "pop1"
    /\ scancode_queue = <<>>
    /\ pc' = "register"
    /\ UNCHANGED <<exec, task_queue, kbd, slot, interrupts, panicked, hist>>

\* AtomicWaker::register: WAITING -> REGISTERING.
RegisterBegin ==
    /\ pc = "register"
    /\ wstate' = {"REGISTERING"}
    /\ pc' = "registering"
    /\ UNCHANGED <<exec, task_queue, kbd, waker, interrupts, panicked, hist>>

\* AtomicWaker::register: the clone of the task's waker is in the slot; if a
\* wake came meanwhile it is taken out again and woken here.
RegisterEnd ==
    /\ pc = "registering"
    /\ wstate' = {}
    /\ pc' = "pop2"
    /\ IF "WAKING" \in wstate
       THEN waker' = NoTask /\ WakeTask(cur)
       ELSE waker' = cur /\ UNCHANGED <<task_queue, panicked>>
    /\ UNCHANGED <<exec, kbd, interrupts, hist>>

\* poll_next, the second pop: a scancode came before the registration.
PopAgain ==
    /\ pc = "pop2"
    /\ scancode_queue # <<>>
    /\ scancode' = Head(scancode_queue)
    /\ scancode_queue' = Tail(scancode_queue)
    /\ pc' = "take"
    /\ UNCHANGED <<exec, task_queue, initialized, slot, interrupts, panicked, hist>>

\* A mutated form of PopAgainEmpty: Poll::Pending without a second look.
PendingWithoutRecheck ==
    /\ pc = "pop2"
    /\ pc' = "pop"
    /\ cur' = NoTask
    /\ UNCHANGED <<tasks, waker_cache, woken, task_queue, kbd, slot,
                   interrupts, panicked, hist>>

\* A mutated form of PopAgainEmpty: the pop is taken to have succeeded.
PopAgainUnchecked ==
    /\ pc = "pop2"
    /\ scancode_queue = <<>>
    /\ pc' = "take"
    /\ UNCHANGED <<exec, task_queue, kbd, slot, interrupts, panicked, hist>>

\* poll_next, the second pop: nothing, Poll::Pending; run_ready_tasks goes on.
PopAgainEmpty ==
    /\ pc = "pop2"
    /\ scancode_queue = <<>>
    /\ pc' = "pop"
    /\ cur' = NoTask
    /\ UNCHANGED <<tasks, waker_cache, woken, task_queue, kbd, slot,
                   interrupts, panicked, hist>>

\* AtomicWaker::take: fetch_or(WAKING), the slot is emptied.
TakeBegin ==
    /\ pc = "take"
    /\ wstate' = {"WAKING"}
    /\ waker' = NoTask
    /\ pc' = "taking"
    /\ UNCHANGED <<exec, task_queue, kbd, interrupts, panicked, hist>>

\* A mutated form of TakeEnd: poll_next returns Pending after the take.
TakeEndPending ==
    /\ pc = "taking"
    /\ wstate' = {}
    /\ scancode' = 0
    /\ pc' = "pop"
    /\ cur' = NoTask
    /\ UNCHANGED <<tasks, waker_cache, woken, task_queue, initialized,
                   scancode_queue, waker, interrupts, panicked, hist>>

\* AtomicWaker::take: fetch_and(!WAKING); poll_next returns the scancode,
\* which is printed, and the stream is polled again.
TakeEnd ==
    /\ pc = "taking"
    /\ wstate' = {}
    /\ printed' = Append(printed, scancode)
    /\ scancode' = 0
    /\ pc' = "pop1"
    /\ UNCHANGED <<exec, task_queue, initialized, scancode_queue, waker,
                   interrupts, panicked, typed, accepted>>

-----------------------------------------------------------------------------
\* The poll of any other task.

\* The future calls wake_by_ref on its own waker.
SelfWake ==
    /\ pc = "other"
    /\ ~woken
    /\ woken' = TRUE
    /\ WakeTask(cur)
    /\ UNCHANGED <<tasks, waker_cache, pc, cur, kbd, slot, interrupts, hist>>

\* A mutated form of PollPending: the executor puts the task back itself.
PendingRequeues ==
    /\ pc = "other"
    /\ woken
    /\ woken' = FALSE
    /\ pc' = "pop"
    /\ cur' = NoTask
    /\ WakeTask(cur)
    /\ UNCHANGED <<tasks, waker_cache, kbd, slot, interrupts, hist>>

\* Poll::Pending.
PollPending ==
    /\ pc = "other"
    /\ woken
    /\ woken' = FALSE
    /\ pc' = "pop"
    /\ cur' = NoTask
    /\ UNCHANGED <<tasks, waker_cache, task_queue, kbd, slot, interrupts,
                   panicked, hist>>

\* A mutated form of PollReady: the cached waker is forgotten.
PollReadyKeepsWaker ==
    /\ pc = "other"
    /\ tasks' = tasks \ {cur}
    /\ woken' = FALSE
    /\ pc' = "pop"
    /\ cur' = NoTask
    /\ UNCHANGED <<waker_cache, task_queue, kbd, slot, interrupts, panicked, hist>>

\* Poll::Ready: the task and its waker are dropped; its id may still be in
\* the queue.
PollReady ==
    /\ pc = "other"
    /\ tasks' = tasks \ {cur}
    /\ waker_cache' = waker_cache \ {cur}
    /\ woken' = FALSE
    /\ pc' = "pop"
    /\ cur' = NoTask
    /\ UNCHANGED <<task_queue, kbd, slot, interrupts, panicked, hist>>

-----------------------------------------------------------------------------
\* An interrupt brings the CPU out of hlt.
Resume == pc' = IF pc = "hlt" THEN "pop" ELSE pc

\* AtomicWaker::wake, from a handler.
Wake ==
    IF wstate = {}
    THEN /\ waker' = NoTask
         /\ IF waker = NoTask THEN UNCHANGED <<task_queue, panicked>>
                              ELSE WakeTask(waker)
         /\ UNCHANGED wstate
    ELSE /\ wstate' = wstate \cup {"WAKING"}
         /\ UNCHANGED <<waker, task_queue, panicked>>

\* keyboard_interrupt_handler, add_scancode: the scancode goes into the queue
\* and the registered task is woken.
KeyAccepted ==
    /\ interrupts
    /\ typed < MaxKeys
    /\ typed' = typed + 1
    /\ initialized
    /\ Len(scancode_queue) < ScancodeCap
    /\ scancode_queue' = Append(scancode_queue, typed')
    /\ accepted' = Append(accepted, typed')
    /\ Wake
    /\ Resume
    /\ UNCHANGED <<exec, initialized, scancode, interrupts, printed>>

\* keyboard_interrupt_handler, add_scancode: nobody has set the queue up (a
\* warning is printed) or it is full; the scancode is lost.
KeyLost ==
    /\ interrupts
    /\ typed < MaxKeys
    /\ typed' = typed + 1
    /\ ~initialized \/ Len(scancode_queue) >= ScancodeCap
    /\ Resume
    /\ UNCHANGED <<exec, task_queue, kbd, slot, interrupts, panicked,
                   accepted, printed>>

\* timer_interrupt_handler only acknowledges the interrupt.
TimerInterrupt ==
    /\ interrupts
    /\ pc = "hlt"
    /\ Resume
    /\ UNCHANGED <<exec, task_queue, kbd, slot, interrupts, panicked, hist>>

-----------------------------------------------------------------------------
\* The executor's thread of control.
ExecutorStep ==
    \/ RunReadyTask \/ NoReadyTask
    \/ DisableInterrupts \/ CheckIdle \/ EnableAndHlt \/ EnableInterrupts
    \/ StreamNew \/ PopFast \/ PopFastEmpty
    \/ RegisterBegin \/ RegisterEnd \/ PopAgain \/ PopAgainEmpty
    \/ TakeBegin \/ TakeEnd
    \/ SelfWake \/ PollPending \/ PollReady

\* panic! ends in hlt_loop: the machine does nothing more.
Next ==
    /\ ~panicked
    /\ \/ \E t \in TaskIds : Spawn(t)
       \/ Run
       \/ ExecutorStep
       \/ KeyAccepted
       \/ KeyLost
       \/ TimerInterrupt

Spec == Init /\ [][Next]_vars

\* The CPU executes the executor's instructions whenever it is not halted;
\* nothing is assumed of the keyboard or the timer.
FairSpec == Spec /\ WF_vars(~panicked /\ ExecutorStep)

-----------------------------------------------------------------------------
TypeOK ==
    /\ tasks \subseteq TaskIds
    /\ task_queue \in Seq(TaskIds)
    /\ waker_cache \subseteq TaskIds
    /\ pc \in Labels
    /\ cur \in TaskIds \cup {NoTask}
    /\ woken \in BOOLEAN
    /\ initialized \in BOOLEAN
    /\ scancode_queue \in Seq(Codes)
    /\ scancode \in Codes \cup {0}
    /\ waker \in KeyTasks \cup {NoTask}
    /\ wstate \in SUBSET {"REGISTERING", "WAKING"}
    /\ interrupts \in BOOLEAN
    /\ panicked \in BOOLEAN
    /\ typed \in 0 .. MaxKeys
    /\ accepted \in Seq(Codes)
    /\ printed \in Seq(Codes)

\* The CPU never halts with work to do: no task is ready and no scancode is
\* waiting.  A wake that comes between run_ready_tasks and the hlt, during a
\* registration, or during the take after the second pop is not lost.
NoLostWakeup ==
    pc = "hlt" => task_queue = <<>> /\ scancode_queue = <<>>

\* While a scancode waits and no keyboard task is being polled, a keyboard
\* task is in the run queue.
WaitingScancodeHasAReader ==
    scancode_queue # <<>> /\ pc \notin InStream /\ ~panicked
        => Holds(task_queue, KeyTasks)

\* Scancodes are processed exactly once and in the order they were accepted,
\* even when several keyboard tasks share the stream.
AcceptedInOrder ==
    accepted = printed \o (IF scancode = 0 THEN <<>> ELSE <<scancode>>)
                       \o scancode_queue

\* A waker is cached for live tasks only; nothing is kept for a task that
\* has stopped.
NoWakerOfAStoppedTask == waker_cache \subseteq tasks

\* The queue is full only if tasks and scancodes together outnumber its
\* places: a scancode puts at most one id into it (and a poll, by assumption, at
\* most one more).
OverflowNeedsScancodes ==
    panicked => Cardinality(TaskIds) + typed > MAX_TASKS

\* Every scancode that goes into the queue is eventually printed.
AcceptedIsPrinted ==
    \A k \in Codes :
        (\E i \in 1 .. Len(accepted) : accepted[i] = k)
            ~> (panicked \/ \E i \in 1 .. Len(printed) : printed[i] = k)

\* A ready task is eventually polled, however often the others yield.
ReadyIsPolled ==
    \A t \in TaskIds :
        (Holds(task_queue, {t}) /\ t \in tasks /\ pc # "spawn")
            ~> (panicked \/ cur = t)

\* executor.rs sizes the queue with MAX_TASKS and expects it never to be full
\* (`.expect("Task queue full")`): with no more tasks than places it is not.
QueueHoldsAllTasks ==
    Cardinality(TaskIds) <= MAX_TASKS => ~panicked
=============================================================================
