--------------------------- MODULE SimpleExecutor ---------------------------
(***************************************************************************)
(* SimpleExecutor (task/simple_executor.rs): a queue of tasks that run     *)
(* polls in turn.  Its wakers do nothing, so whether a task that waits for *)
(* another one ever gets on rests on the order of the queue alone.  A      *)
(* future here is pending until the tasks it needs have finished, and a    *)
(* bounded number of polls longer.                                         *)
(***************************************************************************)
EXTENDS Integers, Sequences, Relation

CONSTANTS
    Tasks,
    MaxPending      \* bound: polls a future takes for reasons of its own

VARIABLES
    needs,          \* needs[t, u]: the future of t waits for the end of u
    pending,        \* task -> polls it still takes
    task_queue,
    running,        \* run has been called and has not returned
    finished        \* the tasks whose poll returned Ready

vars == <<needs, pending, task_queue, running, finished>>

Queued(t) == \E i \in 1 .. Len(task_queue) : task_queue[i] = t

Init ==
    /\ needs \in [Tasks \X Tasks -> BOOLEAN]
    /\ pending \in [Tasks -> 0 .. MaxPending]
    /\ task_queue = <<>> /\ running = FALSE /\ finished = {}

\* run borrows the executor, so tasks are spawned only while it is not running.
spawn(t) ==
    /\ ~running /\ ~Queued(t) /\ t \notin finished
    /\ task_queue' = Append(task_queue, t)
    /\ UNCHANGED <<needs, pending, running, finished>>

Call ==
    /\ ~running /\ running' = TRUE
    /\ UNCHANGED <<needs, pending, task_queue, finished>>

\* A mutated form of push_back: a pending task goes back to the front.
push_front(queue, t) == <<t>> \o queue

push_back(queue, t) == Append(queue, t)

\* One turn of the loop of run: pop_front, poll, and push_back if Pending.
Turn ==
    /\ running /\ task_queue # <<>>
    /\ LET t    == Head(task_queue)
           rest == Tail(task_queue)
       IN  IF pending[t] = 0 /\ \A u \in Tasks : needs[t, u] => u \in finished
           THEN finished' = finished \cup {t} /\ task_queue' = rest /\ UNCHANGED pending
           ELSE /\ task_queue' = push_back(rest, t)
                /\ pending' = [pending EXCEPT ![t] = IF @ = 0 THEN 0 ELSE @ - 1]
                /\ UNCHANGED finished
    /\ UNCHANGED <<needs, running>>

Return ==
    /\ running /\ task_queue = <<>>
    /\ running' = FALSE
    /\ UNCHANGED <<needs, pending, task_queue, finished>>

Next == (\E t \in Tasks : spawn(t)) \/ Call \/ Turn \/ Return

\* The CPU goes on executing run.
Spec == Init /\ [][Next]_vars /\ WF_vars(Turn \/ Return)

-----------------------------------------------------------------------------
\* t waits, in the end, only for tasks that are there and not for itself.
CanFinish(t) ==
    LET waits == TransitiveClosure(needs, Tasks)
    IN  \A u \in Tasks : u = t \/ waits[t, u] =>
            (Queued(u) \/ u \in finished) /\ ~waits[u, u]

\* run finishes every task that can finish, also next to tasks that wait for
\* ever, although no wake ever happens.
TasksFinish ==
    \A t \in Tasks : running /\ Queued(t) /\ CanFinish(t) ~> t \in finished
=============================================================================
