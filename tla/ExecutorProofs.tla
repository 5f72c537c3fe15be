-------------------------- MODULE ExecutorProofs --------------------------
(***************************************************************************)
(* Safety of Executor for every set of tasks, capacity and number of       *)
(* scancodes.  The inductive invariant IInv says, at each place the        *)
(* executor can be, what the bits of WAKER are (Slot), that a scancode     *)
(* that waits has a keyboard task either registered or in the run queue    *)
(* (Reader), and how many ids the run queue may hold (Count).              *)
(***************************************************************************)
EXTENDS Executor, FiniteSetTheorems, TLAPS

\* Where the executor is, and what it may rely on there.
Control ==
    /\ pc \in InStream => cur \in KeyTasks
    /\ pc = "other" => cur \in OtherTasks
    /\ pc = "spawn" => ~initialized
    /\ pc \in InStream \ {"new"} => initialized
    /\ ~initialized => scancode_queue = <<>> /\ waker = NoTask
    /\ pc \in {"check", "sleep"} => ~interrupts
    /\ pc \in {"sleep", "hlt"} => task_queue = <<>>
    /\ pc \in {"take", "taking"} <=> scancode # 0
    /\ panicked => pc # "hlt"

\* The bits of WAKER: a handler finds it busy only inside register and take.
Slot ==
    /\ pc \notin {"registering", "taking"} => wstate = {}
    /\ pc = "registering" => "REGISTERING" \in wstate
    /\ pc = "taking" => wstate = {"WAKING"}

\* A keyboard task is registered or ready whenever it is not being polled.
Reader ==
    /\ \A i \in 1 .. Len(task_queue) :
           task_queue[i] \in KeyTasks => task_queue[i] \in tasks
    /\ pc = "pop2" /\ ~panicked => waker \in KeyTasks \/ Holds(task_queue, KeyTasks)
    /\ initialized /\ pc \notin InStream /\ ~panicked
         => \/ waker \in KeyTasks /\ scancode_queue = <<>>
            \/ Holds(task_queue, KeyTasks)

\* The ids the task being polled will still push.
Owed == (IF pc = "other" /\ ~woken THEN 1 ELSE 0)
        + (IF pc = "registering" /\ "WAKING" \in wstate THEN 1 ELSE 0)

Count ==
    /\ pc = "spawn" => Len(task_queue) <= Cardinality(tasks)
    /\ Len(task_queue) + Owed <= Cardinality(TaskIds) + typed
    /\ OverflowNeedsScancodes

Cached ==
    /\ NoWakerOfAStoppedTask
    /\ pc = "other" \/ pc \in InStream => cur \in tasks
    /\ waker \in KeyTasks => waker \in tasks

IInv == TypeOK /\ Control /\ Slot /\ Reader /\ Count /\ Cached /\ AcceptedInOrder

-----------------------------------------------------------------------------
\* What a push to and a pop from the run queue do to Holds.
LEMMA HoldsAppend ==
    ASSUME NEW S, NEW q \in Seq(TaskIds), NEW t \in TaskIds
    PROVE  /\ Holds(q, S) => Holds(Append(q, t), S)
           /\ t \in S => Holds(Append(q, t), S)
<1>1. Len(Append(q, t)) = Len(q) + 1 /\ Append(q, t)[Len(q) + 1] = t
  OBVIOUS
<1>2. \A i \in 1 .. Len(q) : Append(q, t)[i] = q[i]
  OBVIOUS
<1>. QED BY <1>1, <1>2 DEF Holds

LEMMA HoldsTail ==
    ASSUME NEW S, NEW q \in Seq(TaskIds), q # <<>>, Holds(q, S), Head(q) \notin S
    PROVE  Holds(Tail(q), S)
<1>1. PICK i \in 1 .. Len(q) : q[i] \in S
  BY DEF Holds
<1>2. i # 1
  BY <1>1
<1>3. i - 1 \in 1 .. Len(Tail(q)) /\ Tail(q)[i - 1] = q[i]
  BY <1>2
<1>. QED BY <1>1, <1>3 DEF Holds

LEMMA HoldsNothing == ASSUME NEW S PROVE ~Holds(<<>>, S)
BY DEF Holds

LEMMA CardBounds ==
    /\ Cardinality(TaskIds) \in Nat
    /\ \A T \in SUBSET TaskIds : Cardinality(T) \in Nat
    /\ \A T \in SUBSET TaskIds : \A t \in TaskIds \ T :
          /\ Cardinality(T \cup {t}) = Cardinality(T) + 1
          /\ Cardinality(T) + 1 <= Cardinality(TaskIds)
<1>1. IsFiniteSet(TaskIds)
  BY TaskAssumption
<1>2. Cardinality(TaskIds) \in Nat
  BY <1>1, FS_CardinalityType
<1>3. ASSUME NEW T \in SUBSET TaskIds
      PROVE  IsFiniteSet(T) /\ Cardinality(T) \in Nat
                /\ Cardinality(T) <= Cardinality(TaskIds)
  BY <1>1, FS_Subset, FS_CardinalityType
<1>4. ASSUME NEW T \in SUBSET TaskIds, NEW t \in TaskIds \ T
      PROVE  /\ Cardinality(T \cup {t}) = Cardinality(T) + 1
             /\ Cardinality(T) + 1 <= Cardinality(TaskIds)
  <2>1. IsFiniteSet(T) BY <1>3
  <2>2. Cardinality(T \cup {t}) = Cardinality(T) + 1
    BY <2>1, <1>4, FS_AddElement
  <2>3. T \cup {t} \in SUBSET TaskIds BY <1>4
  <2>4. Cardinality(T \cup {t}) <= Cardinality(TaskIds) BY <2>3, <1>3
  <2>. QED BY <2>2, <2>4
<1>. QED BY <1>2, <1>3, <1>4

LEMMA SeqEqual ==
    ASSUME NEW S, NEW a \in Seq(S), NEW b \in Seq(S), Len(a) = Len(b),
           \A i \in 1 .. Len(a) : a[i] = b[i]
    PROVE  a = b
OBVIOUS

\* Moving the head of a queue, in one step or two, to the end of the processed
\* scancodes leaves their concatenation alone.
LEMMA MoveHead ==
    ASSUME NEW S, NEW p \in Seq(S), NEW q \in Seq(S), NEW x \in S
    PROVE  /\ p \o <<>> = p
           /\ Append(p, x) \o q = (p \o <<x>>) \o q
           /\ (p \o <<x>>) \o q \in Seq(S)
           /\ q # <<>> => (p \o <<Head(q)>>) \o Tail(q) = p \o q
           /\ p \o Append(q, x) = Append(p \o q, x)
<1>1. p \o <<>> = p OBVIOUS
<1>2. Append(p, x) = p \o <<x>> OBVIOUS
<1>3. (p \o <<x>>) \o q \in Seq(S) OBVIOUS
<1>4. q # <<>> => (p \o <<Head(q)>>) \o Tail(q) = p \o q
  <2>. SUFFICES ASSUME q # <<>> PROVE (p \o <<Head(q)>>) \o Tail(q) = p \o q OBVIOUS
  <2>. DEFINE a == (p \o <<Head(q)>>) \o Tail(q)
  <2>1. a \in Seq(S) /\ p \o q \in Seq(S) OBVIOUS
  <2>2. Len(a) = Len(p) + Len(q) /\ Len(p \o q) = Len(p) + Len(q) OBVIOUS
  <2>3. ASSUME NEW i \in 1 .. Len(p) + Len(q) PROVE a[i] = (p \o q)[i]
    <3>1. CASE i <= Len(p) BY <3>1
    <3>2. CASE i = Len(p) + 1 BY <3>2
    <3>3. CASE i > Len(p) + 1 BY <3>3
    <3>. QED BY <3>1, <3>2, <3>3
  <2>. QED BY <2>1, <2>2, <2>3, SeqEqual
<1>5. p \o Append(q, x) = Append(p \o q, x)
  <2>. DEFINE a == p \o Append(q, x)
              b == Append(p \o q, x)
  <2>1. a \in Seq(S) /\ b \in Seq(S) OBVIOUS
  <2>2. Len(a) = Len(p) + Len(q) + 1 /\ Len(b) = Len(p) + Len(q) + 1 OBVIOUS
  <2>3. ASSUME NEW i \in 1 .. Len(p) + Len(q) + 1 PROVE a[i] = b[i]
    <3>1. CASE i <= Len(p) BY <3>1
    <3>2. CASE i > Len(p) /\ i <= Len(p) + Len(q) BY <3>2
    <3>3. CASE i = Len(p) + Len(q) + 1 BY <3>3
    <3>. QED BY <3>1, <3>2, <3>3
  <2>. QED BY <2>1, <2>2, <2>3, SeqEqual
<1>. QED BY <1>1, <1>2, <1>3, <1>4, <1>5

-----------------------------------------------------------------------------
LEMMA InitIInv == Init => IInv
<1>. SUFFICES ASSUME Init PROVE IInv OBVIOUS
<1>. USE DEF Init
<1>1. TypeOK
  <2>1. {woken, initialized, interrupts, panicked} \subseteq BOOLEAN OBVIOUS
  <2>2. /\ tasks \subseteq TaskIds /\ waker_cache \subseteq TaskIds
        /\ cur \in TaskIds \cup {NoTask} /\ waker \in KeyTasks \cup {NoTask}
        /\ wstate \in SUBSET {"REGISTERING", "WAKING"}
    OBVIOUS
  <2>3. /\ task_queue \in Seq(TaskIds) /\ scancode_queue \in Seq(Codes)
        /\ accepted \in Seq(Codes) /\ printed \in Seq(Codes)
    OBVIOUS
  <2>4. pc \in Labels /\ scancode \in Codes \cup {0} /\ typed \in 0 .. MaxKeys
    BY CapacityAssumption DEF Labels
  <2>. QED BY <2>1, <2>2, <2>3, <2>4 DEF TypeOK
<1>2. Control BY DEF Control, InStream
<1>3. Slot BY DEF Slot
<1>4. Reader BY DEF Reader
<1>5. Count
  <2>1. Cardinality(tasks) = 0 BY FS_EmptySet
  <2>2. Cardinality(TaskIds) \in Nat BY CardBounds
  <2>. QED BY <2>1, <2>2 DEF Count, Owed, OverflowNeedsScancodes
<1>6. Cached BY TaskAssumption DEF Cached, NoWakerOfAStoppedTask, InStream, TaskIds
<1>7. AcceptedInOrder BY DEF AcceptedInOrder
<1>. QED BY <1>1, <1>2, <1>3, <1>4, <1>5, <1>6, <1>7 DEF IInv

-----------------------------------------------------------------------------
LEMMA WakeTaskType ==
    ASSUME TypeOK, NEW t \in TaskIds, WakeTask(t)
    PROVE  task_queue' \in Seq(TaskIds) /\ panicked' \in BOOLEAN
<1>1. CASE Len(task_queue) < MAX_TASKS
  <2>1. task_queue' = Append(task_queue, t) BY <1>1 DEF WakeTask
  <2>2. panicked' = panicked BY <1>1 DEF WakeTask
  <2>. QED BY <2>1, <2>2 DEF TypeOK
<1>2. CASE ~(Len(task_queue) < MAX_TASKS)
  <2>1. task_queue' = task_queue BY <1>2 DEF WakeTask
  <2>2. panicked' = TRUE BY <1>2 DEF WakeTask
  <2>. QED BY <2>1, <2>2 DEF TypeOK
<1>. QED BY <1>1, <1>2

LEMMA TypeStep == TypeOK /\ Control /\ Next => TypeOK'
<1>. SUFFICES ASSUME TypeOK, Control, Next PROVE TypeOK' OBVIOUS
<1>. USE CapacityAssumption DEF TypeOK, exec, kbd, slot, hist, Labels, InStream
<1>1. ASSUME NEW t \in TaskIds, Spawn(t) PROVE TypeOK'
  <2>1. task_queue' \in Seq(TaskIds) /\ panicked' \in BOOLEAN
    BY <1>1, WakeTaskType DEF Spawn
  <2>. QED BY <1>1, <2>1 DEF Spawn
<1>2. CASE Run BY <1>2 DEF Run
<1>3. CASE RunReadyTask
  <2>1. Head(task_queue) \in TaskIds /\ Tail(task_queue) \in Seq(TaskIds)
    BY <1>3 DEF RunReadyTask
  <2>. QED BY <1>3, <2>1 DEF RunReadyTask
<1>4. CASE NoReadyTask BY <1>4 DEF NoReadyTask
<1>5. CASE DisableInterrupts BY <1>5 DEF DisableInterrupts
<1>6. CASE CheckIdle BY <1>6 DEF CheckIdle
<1>7. CASE EnableAndHlt BY <1>7 DEF EnableAndHlt
<1>8. CASE EnableInterrupts BY <1>8 DEF EnableInterrupts
<1>9. CASE StreamNew BY <1>9 DEF StreamNew
<1>10. CASE PopFast BY <1>10 DEF PopFast
<1>11. CASE PopFastEmpty BY <1>11 DEF PopFastEmpty
<1>12. CASE RegisterBegin BY <1>12 DEF RegisterBegin
<1>13. CASE RegisterEnd
  <2>1. cur \in KeyTasks BY <1>13 DEF RegisterEnd, Control
  <2>2. task_queue' \in Seq(TaskIds) /\ panicked' \in BOOLEAN
    <3>1. CASE "WAKING" \in wstate
      BY <1>13, <2>1, <3>1, WakeTaskType DEF RegisterEnd, TaskIds
    <3>2. CASE "WAKING" \notin wstate
      BY <1>13, <3>2 DEF RegisterEnd
    <3>. QED BY <3>1, <3>2
  <2>. QED BY <1>13, <2>1, <2>2 DEF RegisterEnd
<1>14. CASE PopAgain BY <1>14 DEF PopAgain
<1>15. CASE PopAgainEmpty BY <1>15 DEF PopAgainEmpty
<1>16. CASE TakeBegin BY <1>16 DEF TakeBegin
<1>17. CASE TakeEnd
  <2>1. scancode \in Codes BY <1>17 DEF TakeEnd, Control
  <2>. QED BY <1>17, <2>1 DEF TakeEnd
<1>18. CASE SelfWake
  <2>1. cur \in TaskIds BY <1>18 DEF SelfWake, Control, TaskIds
  <2>2. task_queue' \in Seq(TaskIds) /\ panicked' \in BOOLEAN
    BY <1>18, <2>1, WakeTaskType DEF SelfWake
  <2>. QED BY <1>18, <2>1, <2>2 DEF SelfWake
<1>19. CASE PollPending BY <1>19 DEF PollPending
<1>20. CASE PollReady BY <1>20 DEF PollReady
<1>21. CASE KeyAccepted
  <2>1. typed' \in Codes BY <1>21 DEF KeyAccepted, Codes
  <2>2. task_queue' \in Seq(TaskIds) /\ panicked' \in BOOLEAN
    <3>1. CASE wstate = {} /\ waker # NoTask
      BY <1>21, <3>1, WakeTaskType DEF KeyAccepted, Wake, TaskIds
    <3>2. CASE ~(wstate = {} /\ waker # NoTask)
      BY <1>21, <3>2 DEF KeyAccepted, Wake
    <3>. QED BY <3>1, <3>2
  <2>3. /\ waker' \in KeyTasks \cup {NoTask}
        /\ wstate' \in SUBSET {"REGISTERING", "WAKING"}
    BY <1>21 DEF KeyAccepted, Wake
  <2>4. pc' \in Labels BY <1>21 DEF KeyAccepted, Resume
  <2>. QED BY <1>21, <2>1, <2>2, <2>3, <2>4 DEF KeyAccepted, Codes
<1>22. CASE KeyLost BY <1>22 DEF KeyLost, Resume
<1>23. CASE TimerInterrupt BY <1>23 DEF TimerInterrupt, Resume
<1>. QED
  BY <1>1, <1>2, <1>3, <1>4, <1>5, <1>6, <1>7, <1>8, <1>9, <1>10, <1>11, <1>12,
     <1>13, <1>14, <1>15, <1>16, <1>17, <1>18, <1>19, <1>20, <1>21, <1>22, <1>23
  DEF Next, ExecutorStep

LEMMA ControlStep == TypeOK /\ Control /\ Next => Control'
<1>. SUFFICES ASSUME TypeOK, Control, Next PROVE Control' OBVIOUS
<1>. USE DEF TypeOK, Control, exec, kbd, slot, hist, Labels, InStream
<1>0. ~panicked BY DEF Next
<1>1. ASSUME NEW t \in TaskIds, Spawn(t) PROVE Control'
  BY <1>1 DEF Spawn, WakeTask
<1>2. CASE Run BY <1>2 DEF Run
<1>3. CASE RunReadyTask BY <1>3 DEF RunReadyTask, TaskIds
<1>4. CASE NoReadyTask BY <1>4 DEF NoReadyTask
<1>5. CASE DisableInterrupts BY <1>5 DEF DisableInterrupts
<1>6. CASE CheckIdle BY <1>6 DEF CheckIdle
<1>7. CASE EnableAndHlt BY <1>0, <1>7 DEF EnableAndHlt
<1>8. CASE EnableInterrupts BY <1>8 DEF EnableInterrupts
<1>9. CASE StreamNew BY <1>9 DEF StreamNew
<1>10. CASE PopFast BY <1>10 DEF PopFast
<1>11. CASE PopFastEmpty BY <1>11 DEF PopFastEmpty
<1>12. CASE RegisterBegin BY <1>12 DEF RegisterBegin
<1>13. CASE RegisterEnd BY <1>13 DEF RegisterEnd
<1>14. CASE PopAgain
  <2>1. scancode' \in Codes BY <1>14 DEF PopAgain
  <2>2. scancode' # 0 BY <2>1, CapacityAssumption DEF Codes
  <2>. QED BY <1>14, <2>2 DEF PopAgain
<1>15. CASE PopAgainEmpty BY <1>15 DEF PopAgainEmpty
<1>16. CASE TakeBegin BY <1>16 DEF TakeBegin
<1>17. CASE TakeEnd BY <1>17 DEF TakeEnd
<1>18. CASE SelfWake BY <1>18 DEF SelfWake
<1>19. CASE PollPending BY <1>19 DEF PollPending
<1>20. CASE PollReady BY <1>20 DEF PollReady
<1>21. CASE KeyAccepted BY <1>21 DEF KeyAccepted, Resume
<1>22. CASE KeyLost BY <1>22 DEF KeyLost, Resume
<1>23. CASE TimerInterrupt BY <1>23 DEF TimerInterrupt, Resume
<1>. QED
  BY <1>1, <1>2, <1>3, <1>4, <1>5, <1>6, <1>7, <1>8, <1>9, <1>10, <1>11, <1>12,
     <1>13, <1>14, <1>15, <1>16, <1>17, <1>18, <1>19, <1>20, <1>21, <1>22, <1>23
  DEF Next, ExecutorStep

LEMMA SlotStep == TypeOK /\ Slot /\ Next => Slot'
<1>. SUFFICES ASSUME TypeOK, Slot, Next PROVE Slot' OBVIOUS
<1>. USE DEF TypeOK, Slot, exec, kbd, slot, hist
<1>1. ASSUME NEW t \in TaskIds, Spawn(t) PROVE Slot'
  BY <1>1 DEF Spawn
<1>2. CASE Run BY <1>2 DEF Run
<1>3. CASE RunReadyTask BY <1>3 DEF RunReadyTask
<1>4. CASE NoReadyTask BY <1>4 DEF NoReadyTask
<1>5. CASE DisableInterrupts BY <1>5 DEF DisableInterrupts
<1>6. CASE CheckIdle BY <1>6 DEF CheckIdle
<1>7. CASE EnableAndHlt BY <1>7 DEF EnableAndHlt
<1>8. CASE EnableInterrupts BY <1>8 DEF EnableInterrupts
<1>9. CASE StreamNew BY <1>9 DEF StreamNew
<1>10. CASE PopFast BY <1>10 DEF PopFast
<1>11. CASE PopFastEmpty BY <1>11 DEF PopFastEmpty
<1>12. CASE RegisterBegin BY <1>12 DEF RegisterBegin
<1>13. CASE RegisterEnd BY <1>13 DEF RegisterEnd
<1>14. CASE PopAgain BY <1>14 DEF PopAgain
<1>15. CASE PopAgainEmpty BY <1>15 DEF PopAgainEmpty
<1>16. CASE TakeBegin BY <1>16 DEF TakeBegin
<1>17. CASE TakeEnd BY <1>17 DEF TakeEnd
<1>18. CASE SelfWake BY <1>18 DEF SelfWake
<1>19. CASE PollPending BY <1>19 DEF PollPending
<1>20. CASE PollReady BY <1>20 DEF PollReady
<1>21. CASE KeyAccepted BY <1>21 DEF KeyAccepted, Wake, Resume
<1>22. CASE KeyLost BY <1>22 DEF KeyLost, Resume
<1>23. CASE TimerInterrupt BY <1>23 DEF TimerInterrupt, Resume
<1>. QED
  BY <1>1, <1>2, <1>3, <1>4, <1>5, <1>6, <1>7, <1>8, <1>9, <1>10, <1>11, <1>12,
     <1>13, <1>14, <1>15, <1>16, <1>17, <1>18, <1>19, <1>20, <1>21, <1>22, <1>23
  DEF Next, ExecutorStep

\* A push either enlarges the queue by one or panics.
LEMMA WakeTaskPushes ==
    ASSUME TypeOK, NEW t \in TaskIds, WakeTask(t)
    PROVE  \/ /\ task_queue' = Append(task_queue, t)
              /\ Len(task_queue') = Len(task_queue) + 1
              /\ panicked' = panicked
           \/ /\ Len(task_queue) >= MAX_TASKS
              /\ task_queue' = task_queue
              /\ panicked' = TRUE
BY CapacityAssumption DEF WakeTask, TypeOK

LEMMA ReaderAppend ==
    ASSUME TypeOK, Reader, NEW t \in TaskIds, task_queue' = Append(task_queue, t),
           tasks' = tasks \/ tasks' = tasks \cup {t}, t \in tasks'
    PROVE  \A i \in 1 .. Len(task_queue') :
               task_queue'[i] \in KeyTasks => task_queue'[i] \in tasks'
BY DEF TypeOK, Reader

LEMMA ReaderStep == IInv /\ Next => Reader'
<1>. SUFFICES ASSUME IInv, Next PROVE Reader' OBVIOUS
<1>. USE DEF IInv, exec, kbd, slot, hist
<1>. DEFINE Live == \A i \in 1 .. Len(task_queue) :
                       task_queue[i] \in KeyTasks => task_queue[i] \in tasks
<1>0. ~panicked BY DEF Next
<1>1. ASSUME NEW t \in TaskIds, Spawn(t) PROVE Reader'
  <2>1. ~initialized' /\ pc' = "spawn" BY <1>1 DEF Spawn, Control
  <2>2. Live'
    BY <1>1, WakeTaskPushes, ReaderAppend DEF Spawn, Reader
  <2>. QED BY <2>1, <2>2 DEF Reader
<1>2. CASE Run BY <1>2 DEF Run, Reader, InStream
<1>3. CASE RunReadyTask
  <2>. DEFINE id == Head(task_queue)
  <2>1. task_queue' = Tail(task_queue) /\ tasks' = tasks /\ task_queue # <<>>
        /\ UNCHANGED <<initialized, waker, scancode_queue>>
    BY <1>3 DEF RunReadyTask
  <2>2. Live'
    BY <2>1 DEF TypeOK, Reader
  <2>3. pc' # "pop2"
    BY <1>3 DEF RunReadyTask
  <2>4. id \in KeyTasks => id \in tasks
    BY <2>1 DEF TypeOK, Reader
  <2>5. id \in KeyTasks => pc' \in InStream
    BY <1>3, <2>4, TaskAssumption DEF RunReadyTask, InStream
  <2>6. CASE id \notin KeyTasks
    <3>1. Holds(task_queue, KeyTasks) => Holds(task_queue', KeyTasks)
      BY <2>1, <2>6, HoldsTail DEF TypeOK
    <3>2. pc = "pop" BY <1>3 DEF RunReadyTask
    <3>. QED BY <1>0, <2>1, <2>2, <2>3, <3>1, <3>2 DEF Reader, InStream
  <2>. QED BY <2>2, <2>3, <2>5, <2>6 DEF Reader
<1>4. CASE NoReadyTask BY <1>4 DEF NoReadyTask, Reader, InStream
<1>5. CASE DisableInterrupts BY <1>5 DEF DisableInterrupts, Reader, InStream
<1>6. CASE CheckIdle BY <1>6 DEF CheckIdle, Reader, InStream
<1>7. CASE EnableAndHlt BY <1>7 DEF EnableAndHlt, Reader, InStream
<1>8. CASE EnableInterrupts BY <1>8 DEF EnableInterrupts, Reader, InStream
<1>9. CASE StreamNew BY <1>9 DEF StreamNew, Reader, InStream
<1>10. CASE PopFast BY <1>10 DEF PopFast, Reader, InStream
<1>11. CASE PopFastEmpty BY <1>11 DEF PopFastEmpty, Reader, InStream
<1>12. CASE RegisterBegin BY <1>12 DEF RegisterBegin, Reader, InStream
<1>13. CASE RegisterEnd
  <2>1. pc = "registering" /\ pc' = "pop2" /\ cur \in KeyTasks /\ tasks' = tasks
    BY <1>13 DEF RegisterEnd, Control, InStream
  <2>2. CASE "WAKING" \notin wstate
    BY <1>13, <2>1, <2>2 DEF RegisterEnd, Reader, InStream
  <2>3. CASE "WAKING" \in wstate
    <3>1. WakeTask(cur) BY <1>13, <2>3 DEF RegisterEnd
    <3>2. cur \in tasks BY <2>1 DEF Cached, InStream
    <3>3. CASE task_queue' = Append(task_queue, cur)
      <4>1. Live' BY <2>1, <3>2, <3>3, ReaderAppend DEF TaskIds
      <4>2. Holds(task_queue', KeyTasks)
        BY <2>1, <3>3, HoldsAppend DEF TypeOK, TaskIds
      <4>. QED BY <2>1, <4>1, <4>2 DEF Reader, InStream
    <3>4. CASE task_queue' = task_queue /\ panicked'
      BY <2>1, <3>4 DEF Reader, InStream
    <3>. QED BY <2>1, <3>1, <3>3, <3>4, WakeTaskPushes DEF TaskIds
  <2>. QED BY <2>2, <2>3
<1>14. CASE PopAgain BY <1>14 DEF PopAgain, Reader, InStream
<1>15. CASE PopAgainEmpty BY <1>15 DEF PopAgainEmpty, Reader, InStream
<1>16. CASE TakeBegin BY <1>16 DEF TakeBegin, Reader, InStream
<1>17. CASE TakeEnd BY <1>17 DEF TakeEnd, Reader, InStream
<1>18. CASE SelfWake
  <2>1. cur \in TaskIds /\ cur \in tasks /\ pc = "other" /\ pc' = "other" /\ WakeTask(cur)
        /\ UNCHANGED <<tasks, initialized, waker, scancode_queue>>
    BY <1>18 DEF SelfWake, Control, Cached, TaskIds
  <2>2. CASE task_queue' = Append(task_queue, cur) /\ panicked' = panicked
    <3>1. Live' BY <2>1, <2>2, ReaderAppend
    <3>2. Holds(task_queue, KeyTasks) => Holds(task_queue', KeyTasks)
      BY <2>1, <2>2, HoldsAppend DEF TypeOK
    <3>. QED BY <1>0, <2>1, <2>2, <3>1, <3>2 DEF Reader, InStream
  <2>3. CASE task_queue' = task_queue /\ panicked'
    BY <2>1, <2>3 DEF Reader, InStream
  <2>. QED BY <2>1, <2>2, <2>3, WakeTaskPushes
<1>19. CASE PollPending BY <1>19 DEF PollPending, Reader, InStream
<1>20. CASE PollReady
  <2>1. cur \in OtherTasks BY <1>20 DEF PollReady, Control
  <2>. QED BY <1>20, <2>1, TaskAssumption DEF PollReady, Reader, InStream
<1>21. CASE KeyAccepted
  <2>1. pc' = IF pc = "hlt" THEN "pop" ELSE pc
    BY <1>21 DEF KeyAccepted, Resume
  <2>2. initialized /\ initialized' /\ tasks' = tasks
    BY <1>21 DEF KeyAccepted
  <2>3. CASE wstate = {} /\ waker # NoTask
    <3>1. waker \in KeyTasks /\ waker \in TaskIds /\ waker \in tasks
      BY <2>3 DEF TypeOK, Cached, TaskIds
    <3>2. WakeTask(waker) BY <1>21, <2>3 DEF KeyAccepted, Wake
    <3>3. CASE task_queue' = Append(task_queue, waker)
      <4>1. Live' BY <2>2, <3>1, <3>3, ReaderAppend
      <4>2. Holds(task_queue', KeyTasks)
        BY <3>1, <3>3, HoldsAppend DEF TypeOK
      <4>. QED BY <4>1, <4>2 DEF Reader
    <3>4. CASE task_queue' = task_queue /\ panicked'
      BY <2>2, <3>4 DEF Reader
    <3>. QED BY <3>1, <3>2, <3>3, <3>4, WakeTaskPushes
  <2>4. CASE wstate = {} /\ waker = NoTask
    <3>1. NoTask \notin KeyTasks BY TaskAssumption DEF TaskIds
    <3>2. task_queue' = task_queue /\ panicked' = panicked
      BY <1>21, <2>4 DEF KeyAccepted, Wake
    <3>. QED BY <1>0, <2>1, <2>2, <2>4, <3>1, <3>2 DEF Reader, InStream
  <2>5. CASE wstate # {}
    <3>1. pc \in {"registering", "taking"} BY <2>5 DEF Slot
    <3>2. task_queue' = task_queue BY <1>21, <2>5 DEF KeyAccepted, Wake
    <3>. QED BY <2>1, <2>2, <3>1, <3>2 DEF Reader, InStream
  <2>. QED BY <2>3, <2>4, <2>5
<1>22. CASE KeyLost BY <1>22 DEF KeyLost, Resume, Reader, InStream
<1>23. CASE TimerInterrupt BY <1>23 DEF TimerInterrupt, Resume, Reader, InStream
<1>. QED
  BY <1>1, <1>2, <1>3, <1>4, <1>5, <1>6, <1>7, <1>8, <1>9, <1>10, <1>11, <1>12,
     <1>13, <1>14, <1>15, <1>16, <1>17, <1>18, <1>19, <1>20, <1>21, <1>22, <1>23
  DEF Next, ExecutorStep

LEMMA CachedStep == IInv /\ Next => Cached'
<1>. SUFFICES ASSUME IInv, Next PROVE Cached' OBVIOUS
<1>. USE DEF IInv, Cached, NoWakerOfAStoppedTask, Control, InStream, exec, kbd, slot, hist
<1>1. ASSUME NEW t \in TaskIds, Spawn(t) PROVE Cached'
  BY <1>1 DEF Spawn
<1>2. CASE Run BY <1>2 DEF Run
<1>3. CASE RunReadyTask BY <1>3 DEF RunReadyTask
<1>4. CASE NoReadyTask BY <1>4 DEF NoReadyTask
<1>5. CASE DisableInterrupts BY <1>5 DEF DisableInterrupts
<1>6. CASE CheckIdle BY <1>6 DEF CheckIdle
<1>7. CASE EnableAndHlt BY <1>7 DEF EnableAndHlt
<1>8. CASE EnableInterrupts BY <1>8 DEF EnableInterrupts
<1>9. CASE StreamNew BY <1>9 DEF StreamNew
<1>10. CASE PopFast BY <1>10 DEF PopFast
<1>11. CASE PopFastEmpty BY <1>11 DEF PopFastEmpty
<1>12. CASE RegisterBegin BY <1>12 DEF RegisterBegin
<1>13. CASE RegisterEnd
  <2>1. waker' \in {cur, NoTask} /\ pc' = "pop2" /\ pc = "registering"
        /\ UNCHANGED <<tasks, waker_cache, cur>>
    BY <1>13 DEF RegisterEnd
  <2>2. NoTask \notin KeyTasks BY TaskAssumption DEF TaskIds
  <2>. QED BY <2>1, <2>2
<1>14. CASE PopAgain BY <1>14 DEF PopAgain
<1>15. CASE PopAgainEmpty BY <1>15 DEF PopAgainEmpty
<1>16. CASE TakeBegin
  <2>1. NoTask \notin KeyTasks BY TaskAssumption DEF TaskIds
  <2>. QED BY <1>16, <2>1 DEF TakeBegin
<1>17. CASE TakeEnd BY <1>17 DEF TakeEnd
<1>18. CASE SelfWake BY <1>18 DEF SelfWake
<1>19. CASE PollPending BY <1>19 DEF PollPending
<1>20. CASE PollReady
  <2>1. waker \in KeyTasks => waker # cur BY <1>20, TaskAssumption DEF PollReady
  <2>. QED BY <1>20, <2>1 DEF PollReady
<1>21. CASE KeyAccepted
  <2>1. NoTask \notin KeyTasks BY TaskAssumption DEF TaskIds
  <2>2. waker' \in {waker, NoTask} BY <1>21 DEF KeyAccepted, Wake
  <2>. QED BY <1>21, <2>1, <2>2 DEF KeyAccepted, Resume
<1>22. CASE KeyLost BY <1>22 DEF KeyLost, Resume
<1>23. CASE TimerInterrupt BY <1>23 DEF TimerInterrupt, Resume
<1>. QED
  BY <1>1, <1>2, <1>3, <1>4, <1>5, <1>6, <1>7, <1>8, <1>9, <1>10, <1>11, <1>12,
     <1>13, <1>14, <1>15, <1>16, <1>17, <1>18, <1>19, <1>20, <1>21, <1>22, <1>23
  DEF Next, ExecutorStep

LEMMA CountStep == IInv /\ Next => Count'
<1>. SUFFICES ASSUME IInv, Next PROVE Count' OBVIOUS
<1>. USE CapacityAssumption
     DEF IInv, Count, Owed, OverflowNeedsScancodes, TypeOK, exec, kbd, slot, hist
<1>0. ~panicked BY DEF Next
<1>a. Cardinality(TaskIds) \in Nat /\ Len(task_queue) \in Nat /\ typed \in Nat
  BY CardBounds
<1>1. ASSUME NEW t \in TaskIds, Spawn(t) PROVE Count'
  <2>1. pc = "spawn" /\ pc' = "spawn" /\ typed' = typed /\ WakeTask(t)
        /\ tasks' = tasks \cup {t} /\ t \notin tasks
    BY <1>1 DEF Spawn
  <2>2. /\ Cardinality(tasks') = Cardinality(tasks) + 1
        /\ Cardinality(tasks) + 1 <= Cardinality(TaskIds)
        /\ Cardinality(tasks) \in Nat
    BY <2>1, CardBounds
  <2>3. Len(task_queue) <= Cardinality(tasks) BY <2>1
  <2>4. \/ Len(task_queue') = Len(task_queue) + 1 /\ panicked' = panicked
        \/ /\ Len(task_queue) >= MAX_TASKS
           /\ task_queue' = task_queue
    BY <2>1, WakeTaskPushes
  <2>. QED BY <1>0, <1>a, <2>1, <2>2, <2>3, <2>4
<1>2. CASE Run BY <1>0, <1>a, <1>2 DEF Run
<1>3. CASE RunReadyTask
  <2>1. Len(task_queue') = Len(task_queue) - 1 BY <1>3 DEF RunReadyTask
  <2>2. pc = "pop" /\ pc' \in {"pop", "other", "new", "pop1"}
        /\ UNCHANGED <<typed, panicked, woken>>
    BY <1>3 DEF RunReadyTask
  <2>. QED BY <1>0, <1>a, <2>1, <2>2
<1>4. CASE NoReadyTask BY <1>4 DEF NoReadyTask
<1>5. CASE DisableInterrupts BY <1>5 DEF DisableInterrupts
<1>6. CASE CheckIdle BY <1>6 DEF CheckIdle
<1>7. CASE EnableAndHlt BY <1>7 DEF EnableAndHlt
<1>8. CASE EnableInterrupts BY <1>8 DEF EnableInterrupts
<1>9. CASE StreamNew BY <1>9 DEF StreamNew
<1>10. CASE PopFast BY <1>10 DEF PopFast
<1>11. CASE PopFastEmpty BY <1>11 DEF PopFastEmpty
<1>12. CASE RegisterBegin
  <2>1. "WAKING" \notin wstate' BY <1>12 DEF RegisterBegin
  <2>. QED BY <1>0, <1>a, <1>12, <2>1 DEF RegisterBegin
<1>13. CASE RegisterEnd
  <2>1. pc = "registering" /\ pc' = "pop2" /\ typed' = typed /\ cur \in TaskIds
    BY <1>13 DEF RegisterEnd, Control, InStream, TaskIds
  <2>2. CASE "WAKING" \notin wstate
    BY <1>0, <1>a, <1>13, <2>1, <2>2 DEF RegisterEnd
  <2>3. CASE "WAKING" \in wstate
    <3>1. WakeTask(cur) BY <1>13, <2>3 DEF RegisterEnd
    <3>2. \/ Len(task_queue') = Len(task_queue) + 1 /\ panicked' = panicked
          \/ Len(task_queue) >= MAX_TASKS /\ task_queue' = task_queue
      BY <2>1, <3>1, WakeTaskPushes
    <3>. QED BY <1>0, <1>a, <2>1, <2>3, <3>2
  <2>. QED BY <2>2, <2>3
<1>14. CASE PopAgain BY <1>14 DEF PopAgain
<1>15. CASE PopAgainEmpty BY <1>15 DEF PopAgainEmpty
<1>16. CASE TakeBegin BY <1>16 DEF TakeBegin
<1>17. CASE TakeEnd BY <1>17 DEF TakeEnd
<1>18. CASE SelfWake
  <2>1. /\ pc = "other" /\ pc' = "other" /\ ~woken /\ woken' /\ typed' = typed
        /\ WakeTask(cur) /\ cur \in TaskIds
    BY <1>18 DEF SelfWake, Control, TaskIds
  <2>2. \/ Len(task_queue') = Len(task_queue) + 1 /\ panicked' = panicked
        \/ Len(task_queue) >= MAX_TASKS /\ task_queue' = task_queue
    BY <2>1, WakeTaskPushes
  <2>. QED BY <1>0, <1>a, <2>1, <2>2
<1>19. CASE PollPending BY <1>19 DEF PollPending
<1>20. CASE PollReady BY <1>0, <1>a, <1>20 DEF PollReady
<1>21. CASE KeyAccepted
  <2>1. /\ typed' = typed + 1 /\ woken' = woken /\ pc # "spawn"
        /\ pc' = IF pc = "hlt" THEN "pop" ELSE pc
    BY <1>21 DEF KeyAccepted, Resume, Control
  <2>2. CASE wstate = {}
    <3>1. wstate' = {} BY <1>21, <2>2 DEF KeyAccepted, Wake
    <3>2. CASE waker = NoTask
      <4>1. UNCHANGED <<task_queue, panicked>> BY <1>21, <2>2, <3>2 DEF KeyAccepted, Wake
      <4>. QED BY <1>0, <1>a, <2>1, <2>2, <3>1, <4>1
    <3>3. CASE waker # NoTask
      <4>1. WakeTask(waker) /\ waker \in TaskIds
        BY <1>21, <2>2, <3>3 DEF KeyAccepted, Wake, TaskIds
      <4>2. \/ Len(task_queue') = Len(task_queue) + 1 /\ panicked' = panicked
            \/ Len(task_queue) >= MAX_TASKS /\ task_queue' = task_queue
        BY <4>1, WakeTaskPushes
      <4>. QED BY <1>0, <1>a, <2>1, <2>2, <3>1, <4>2
    <3>. QED BY <3>2, <3>3
  <2>3. CASE wstate # {}
    <3>1. UNCHANGED <<task_queue, panicked>> /\ pc \in {"registering", "taking"}
      BY <1>21, <2>3 DEF KeyAccepted, Wake, Slot
    <3>. QED BY <1>0, <1>a, <2>1, <3>1
  <2>. QED BY <2>2, <2>3
<1>22. CASE KeyLost BY <1>0, <1>a, <1>22 DEF KeyLost, Resume
<1>23. CASE TimerInterrupt BY <1>23 DEF TimerInterrupt, Resume
<1>. QED
  BY <1>1, <1>2, <1>3, <1>4, <1>5, <1>6, <1>7, <1>8, <1>9, <1>10, <1>11, <1>12,
     <1>13, <1>14, <1>15, <1>16, <1>17, <1>18, <1>19, <1>20, <1>21, <1>22, <1>23
  DEF Next, ExecutorStep

LEMMA OrderStep == IInv /\ Next => AcceptedInOrder'
<1>. SUFFICES ASSUME IInv, Next PROVE AcceptedInOrder' OBVIOUS
<1>. USE DEF AcceptedInOrder
<1>1. TypeOK /\ AcceptedInOrder BY DEF IInv
<1>2. printed \in Seq(Codes) /\ scancode_queue \in Seq(Codes) BY <1>1 DEF TypeOK
<1>3. CASE PopFast
  <2>1. scancode = 0 BY <1>3 DEF PopFast, IInv, Control
  <2>2. scancode_queue # <<>> /\ Head(scancode_queue) \in Codes
        /\ Tail(scancode_queue) \in Seq(Codes)
    BY <1>2, <1>3 DEF PopFast
  <2>3. accepted = printed \o scancode_queue BY <1>1, <1>2, <2>1, MoveHead
  <2>4. Append(printed, Head(scancode_queue)) \o <<>>
           = Append(printed, Head(scancode_queue))
    BY <1>2, <2>2, MoveHead
  <2>5. Append(printed, Head(scancode_queue)) \o Tail(scancode_queue) = accepted
    BY <1>2, <2>2, <2>3, MoveHead
  <2>. QED BY <1>3, <2>1, <2>4, <2>5 DEF PopFast, exec, kbd, slot, hist
<1>4. CASE PopAgain
  <2>1. scancode = 0 BY <1>4 DEF PopAgain, IInv, Control
  <2>2. scancode_queue # <<>> /\ Head(scancode_queue) \in Codes
    BY <1>2, <1>4 DEF PopAgain
  <2>3. accepted = printed \o scancode_queue BY <1>1, <1>2, <2>1, MoveHead
  <2>4. scancode' = Head(scancode_queue) /\ scancode' # 0
    BY <1>4, <2>2, CapacityAssumption DEF PopAgain, Codes
  <2>5. (printed \o <<Head(scancode_queue)>>) \o Tail(scancode_queue) = accepted
    BY <1>2, <2>2, <2>3, MoveHead
  <2>. QED BY <1>4, <2>4, <2>5 DEF PopAgain, exec, kbd, slot, hist
<1>5. CASE TakeEnd
  <2>1. scancode # 0 /\ scancode \in Codes BY <1>5 DEF TakeEnd, IInv, Control, TypeOK
  <2>2. accepted = (printed \o <<scancode>>) \o scancode_queue BY <1>1, <2>1
  <2>3. Append(printed, scancode) \in Seq(Codes) BY <1>2, <2>1
  <2>4. Append(printed, scancode) \o <<>> = Append(printed, scancode)
    BY <1>2, <2>1, <2>3, MoveHead
  <2>5. Append(printed, scancode) \o scancode_queue = accepted
    BY <1>2, <2>1, <2>2, MoveHead
  <2>. QED BY <1>5, <2>4, <2>5 DEF TakeEnd, exec, kbd, slot, hist
<1>6. CASE KeyAccepted
  <2>. DEFINE p == printed \o (IF scancode = 0 THEN <<>> ELSE <<scancode>>)
  <2>1. p \in Seq(Codes) BY <1>1, <1>2 DEF TypeOK
  <2>2. typed' \in Codes BY <1>1, <1>6, CapacityAssumption DEF KeyAccepted, TypeOK, Codes
  <2>3. accepted = p \o scancode_queue BY <1>1
  <2>. HIDE DEF p
  <2>4. p \o Append(scancode_queue, typed') = Append(p \o scancode_queue, typed')
    BY <1>2, <2>1, <2>2, MoveHead
  <2>. USE DEF p
  <2>5. /\ accepted' = Append(accepted, typed')
        /\ scancode_queue' = Append(scancode_queue, typed')
        /\ printed' = printed /\ scancode' = scancode
    BY <1>6 DEF KeyAccepted
  <2>. QED BY <2>3, <2>4, <2>5
<1>7. CASE UNCHANGED <<accepted, printed, scancode, scancode_queue>>
  BY <1>1, <1>7
<1>8. Next => \/ PopFast \/ PopAgain \/ TakeEnd \/ KeyAccepted
              \/ UNCHANGED <<accepted, printed, scancode, scancode_queue>>
  BY DEF Next, ExecutorStep, Spawn, Run, RunReadyTask, NoReadyTask, DisableInterrupts,
     CheckIdle, EnableAndHlt, EnableInterrupts, StreamNew, PopFastEmpty, RegisterBegin,
     RegisterEnd, PopAgainEmpty, TakeBegin, SelfWake, PollPending, PollReady, KeyLost,
     TimerInterrupt, exec, kbd, slot, hist
<1>. QED BY <1>3, <1>4, <1>5, <1>6, <1>7, <1>8

-----------------------------------------------------------------------------
LEMMA Inductive == Spec => []IInv
<1>1. IInv /\ [Next]_vars => IInv'
  <2>. SUFFICES ASSUME IInv, [Next]_vars PROVE IInv' OBVIOUS
  <2>1. CASE Next
    BY <2>1, TypeStep, ControlStep, SlotStep, ReaderStep, CountStep, CachedStep,
       OrderStep DEF IInv
  <2>2. CASE UNCHANGED vars
    BY <2>2 DEF IInv, vars, TypeOK, Control, Slot, Reader, Holds, Count, Owed,
       OverflowNeedsScancodes, Cached, NoWakerOfAStoppedTask, AcceptedInOrder
  <2>. QED BY <2>1, <2>2
<1>. QED BY <1>1, InitIInv, PTL DEF Spec

\* The state of the executor, its queues and WAKER stays well-typed.
THEOREM TypeCorrect == Spec => []TypeOK
<1>1. IInv => TypeOK BY DEF IInv
<1>. QED BY <1>1, Inductive, PTL

\* A scancode that waits while no keyboard task is being polled has a keyboard
\* task in the run queue: no wake of add_scancode is lost in register or take.
THEOREM ScancodesHaveReaders == Spec => []WaitingScancodeHasAReader
<1>1. IInv => WaitingScancodeHasAReader
  BY DEF IInv, Control, Reader, WaitingScancodeHasAReader
<1>. QED BY <1>1, Inductive, PTL

\* sleep_if_idle never halts the CPU while a task is ready or a scancode waits.
THEOREM NeverSleepsOnWork == Spec => []NoLostWakeup
<1>1. IInv => NoLostWakeup
  <2>. SUFFICES ASSUME IInv, pc = "hlt" PROVE task_queue = <<>> /\ scancode_queue = <<>>
    BY DEF NoLostWakeup
  <2>1. task_queue = <<>> BY DEF IInv, Control
  <2>2. ~Holds(task_queue, KeyTasks) BY <2>1, HoldsNothing
  <2>3. ~panicked BY DEF IInv, Control
  <2>. QED BY <2>1, <2>2, <2>3 DEF IInv, Control, Reader, InStream
<1>. QED BY <1>1, Inductive, PTL

\* print_keypresses processes each accepted scancode once and in order.
THEOREM ScancodesInOrder == Spec => []AcceptedInOrder
<1>1. IInv => AcceptedInOrder BY DEF IInv
<1>. QED BY <1>1, Inductive, PTL

\* run_ready_tasks drops the cached waker of every task that has finished.
THEOREM WakersOfLiveTasks == Spec => []NoWakerOfAStoppedTask
<1>1. IInv => NoWakerOfAStoppedTask BY DEF IInv, Cached
<1>. QED BY <1>1, Inductive, PTL

\* "Task queue full" needs more tasks and scancodes than the queue has places, if
\* no future wakes itself twice in one poll.
THEOREM QueueBound == Spec => []OverflowNeedsScancodes
<1>1. IInv => OverflowNeedsScancodes BY DEF IInv, Count
<1>. QED BY <1>1, Inductive, PTL
=============================================================================
