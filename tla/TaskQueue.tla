------------------------------ MODULE TaskQueue ------------------------------
(***************************************************************************)
(* The task queue of libobs (libobs/util/task.c): one worker thread, a     *)
(* deque guarded by a mutex, a semaphore that counts the tasks, and two    *)
(* special tasks that the worker keeps at the back of the deque: the one   *)
(* that answers os_task_queue_wait and the one that ends the thread.       *)
(*                                                                         *)
(* libobs runs its destruction of sources on such a queue.  Any thread     *)
(* queues a task; the thread that owns the queue (the UI thread, in        *)
(* obs_wait_for_destroy_queue and obs_shutdown) waits for it and destroys  *)
(* it.  A task may queue further tasks while it runs: destroying a source  *)
(* releases the sources it holds.                                          *)
(*                                                                         *)
(* A section under the mutex is one step; os_sem_post, os_sem_wait and the *)
(* event are steps of their own, so the others run in between.             *)
(***************************************************************************)
EXTENDS Naturals, Sequences, FiniteSets

CONSTANTS
    Clients,    \* threads that use the queue
    Owner,      \* the client that waits for the queue and destroys it
    Tasks,      \* ordinary tasks; each is queued at most once
    Children,   \* Children[t]: the tasks t itself queues when it runs
    MaxWaits    \* bound: how often the owner waits

\* wait_for_thread and stop_thread, the two tasks the worker recognises.
WAIT == "wait_for_thread"
STOP == "stop_thread"

ASSUME TaskQueueAssumption ==
    /\ IsFiniteSet(Clients) /\ Owner \in Clients
    /\ WAIT \notin Tasks /\ STOP \notin Tasks
    /\ Children \in [Tasks -> SUBSET Tasks]
    /\ MaxWaits \in Nat

VARIABLES
    tasks,          \* tq->tasks
    sem,            \* the value of tq->sem
    waiting,        \* tq->waiting
    tasksProcessed, \* tq->tasks_processed
    event,          \* tq->wait_event (auto reset): is it signalled
    exitThread,     \* exit_thread of the worker
    worker,         \* where the worker is
    cur,            \* the worker's ti.task
    todo,           \* the tasks cur has still to queue
    pc,             \* where each client is
    waits,          \* waits the owner has begun
    result,         \* what the owner's last wait returned
    \* history, read by no action
    pushed,         \* the ordinary tasks in the order they were pushed
    ran,            \* the ordinary tasks in the order they finished
    before,         \* Len(pushed) when the owner's last wait was pushed, and
                    \* again when the worker took it
    popped,         \* number of ordinary tasks popped so far
    poppedAtPush,   \* popped when the owner's last wait was pushed
    poppedAtWait    \* popped when the owner's last wait was popped

queueVars == <<tasks, sem, waiting, tasksProcessed, event>>
workerVars == <<exitThread, worker, cur, todo>>
waitHistory == <<before, poppedAtPush, poppedAtWait>>
history == <<pushed, ran, popped, waitHistory>>
vars == <<queueVars, workerVars, pc, waits, result, history>>

NoTask == "none"
Entries == Tasks \cup {WAIT, STOP}

Init ==
    /\ tasks = <<>> /\ sem = 0
    /\ waiting = FALSE /\ tasksProcessed = FALSE /\ event = FALSE
    /\ exitThread = FALSE /\ worker = "semwait" /\ cur = NoTask /\ todo = {}
    /\ pc = [c \in Clients |-> "idle"]
    /\ waits = 0 /\ result = FALSE
    /\ pushed = <<>> /\ ran = <<>>
    /\ before = 0 /\ popped = 0 /\ poppedAtPush = 0 /\ poppedAtWait = 0

Queued == {pushed[i] : i \in DOMAIN pushed}

-----------------------------------------------------------------------------
(* What the operations do to the queue.                                    *)

Push(t) == tasks' = Append(tasks, t)

\* Mutants: a binary semaphore, which forgets a second post; a post too many.
Post_Binary == sem' = 1
Post_Twice == sem' = sem + 2

Post == sem' = sem + 1

SemWait == sem > 0 /\ sem' = sem - 1

StartWaiting == waiting' = TRUE /\ tasksProcessed' = FALSE

\* Mutant: the worker does not look at exit_thread.
MustExit_Never == FALSE

MustExit == exitThread

-----------------------------------------------------------------------------
(* Clients.  Nobody may use the queue once its owner destroys it.          *)

Alive == pc[Owner] \notin {"stopPost", "join", "freed"}

\* A task that some other task queues is not queued from outside.
FromOutside == Tasks \ UNION {Children[t] : t \in Tasks}

QueueTask(c, t) ==
    /\ Alive /\ pc[c] = "idle"
    /\ t \in FromOutside \ Queued
    /\ Push(t)
    /\ pushed' = Append(pushed, t)
    /\ pc' = [pc EXCEPT ![c] = "post"]
    /\ UNCHANGED <<sem, waiting, tasksProcessed, event, workerVars, waits,
                   result, ran, popped, waitHistory>>

QueueTaskPost(c) ==
    /\ pc[c] = "post"
    /\ Post
    /\ pc' = [pc EXCEPT ![c] = "idle"]
    /\ UNCHANGED <<tasks, waiting, tasksProcessed, event, workerVars, waits,
                   result, history>>

WaitPush ==
    /\ pc[Owner] = "idle" /\ waits < MaxWaits
    /\ StartWaiting
    /\ Push(WAIT)
    /\ pc' = [pc EXCEPT ![Owner] = "waitPost"]
    /\ waits' = waits + 1
    /\ before' = Len(pushed)
    /\ poppedAtPush' = popped
    /\ UNCHANGED <<sem, event, workerVars, result, pushed, ran, popped,
                   poppedAtWait>>

WaitPost ==
    /\ pc[Owner] = "waitPost"
    /\ Post
    /\ pc' = [pc EXCEPT ![Owner] = "waitEvent"]
    /\ UNCHANGED <<tasks, waiting, tasksProcessed, event, workerVars, waits,
                   result, history>>

\* os_event_wait on an auto-reset event consumes the signal.
WaitEvent ==
    /\ pc[Owner] = "waitEvent" /\ event
    /\ event' = FALSE
    /\ pc' = [pc EXCEPT ![Owner] = "waitRead"]
    /\ UNCHANGED <<tasks, sem, waiting, tasksProcessed, workerVars, waits,
                   result, history>>

WaitRead ==
    /\ pc[Owner] = "waitRead"
    /\ result' = tasksProcessed
    /\ pc' = [pc EXCEPT ![Owner] = "idle"]
    /\ UNCHANGED <<queueVars, workerVars, waits, history>>

\* The owner destroys the queue when the other clients are done with it.
DestroyPush ==
    /\ pc[Owner] = "idle"
    /\ \A c \in Clients : pc[c] = "idle"
    /\ Push(STOP)
    /\ pc' = [pc EXCEPT ![Owner] = "stopPost"]
    /\ UNCHANGED <<sem, waiting, tasksProcessed, event, workerVars, waits,
                   result, history>>

DestroyPost ==
    /\ pc[Owner] = "stopPost"
    /\ Post
    /\ pc' = [pc EXCEPT ![Owner] = "join"]
    /\ UNCHANGED <<tasks, waiting, tasksProcessed, event, workerVars, waits,
                   result, history>>

DestroyJoin ==
    /\ pc[Owner] = "join" /\ worker = "exited"
    /\ pc' = [pc EXCEPT ![Owner] = "freed"]
    /\ UNCHANGED <<queueVars, workerVars, waits, result, history>>

-----------------------------------------------------------------------------
(* The worker, tiny_tubular_task_thread.                                   *)

WorkerTop ==
    /\ worker = "semwait"
    /\ \/ MustExit /\ worker' = "exited" /\ UNCHANGED sem
       \/ ~MustExit /\ SemWait /\ worker' = "pop"
    /\ UNCHANGED <<tasks, waiting, tasksProcessed, event, exitThread, cur, todo,
                   pc, waits, result, history>>

\* Mutant: any task is put off, not only the special one.
PutOff_Any(p, special) ==
    IF p.rest # <<>>
    THEN [ti |-> Head(p.rest), rest |-> Append(Tail(p.rest), p.ti)]
    ELSE p

\* Push a special task behind the others and take the next one instead.
PutOff(p, special) ==
    IF p.rest # <<>> /\ p.ti = special
    THEN [ti |-> Head(p.rest), rest |-> Append(Tail(p.rest), p.ti)]
    ELSE p

\* Mutant: the wait task is taken in its turn.
PopTask_WaitInTurn(q) == PutOff([ti |-> Head(q), rest |-> Tail(q)], STOP)

\* Which task the worker runs next and what stays in the deque.
PopTask(q) == PutOff(PutOff([ti |-> Head(q), rest |-> Tail(q)], WAIT), STOP)

WorkerPop ==
    /\ worker = "pop"
    /\ LET p == PopTask(tasks) IN
       /\ cur' = p.ti
       /\ tasks' = p.rest
       /\ waiting' = (waiting /\ p.ti # WAIT)
       /\ tasksProcessed' = (tasksProcessed \/ (waiting /\ p.ti # WAIT))
       /\ popped' = IF p.ti \in Tasks THEN popped + 1 ELSE popped
       /\ poppedAtWait' = IF p.ti = WAIT THEN popped ELSE poppedAtWait
       /\ before' = IF p.ti = WAIT THEN Len(pushed) ELSE before
       /\ todo' = IF p.ti \in Tasks THEN Children[p.ti] ELSE {}
    /\ worker' = "run"
    /\ UNCHANGED <<sem, event, exitThread, pc, waits, result, pushed, ran,
                   poppedAtPush>>

\* A running task queues another one: push, then post.
RunQueueTask(t) ==
    /\ worker = "run" /\ t \in todo
    /\ Push(t)
    /\ pushed' = Append(pushed, t)
    /\ todo' = todo \ {t}
    /\ worker' = "runPost"
    /\ UNCHANGED <<sem, waiting, tasksProcessed, event, exitThread, cur, pc,
                   waits, result, ran, popped, waitHistory>>

RunQueueTaskPost ==
    /\ worker = "runPost"
    /\ Post
    /\ worker' = "run"
    /\ UNCHANGED <<tasks, waiting, tasksProcessed, event, exitThread, cur, todo,
                   pc, waits, result, history>>

\* ti.task(ti.param) returns.
RunReturn ==
    /\ worker = "run" /\ todo = {}
    /\ event' = (event \/ cur = WAIT)
    /\ exitThread' = (exitThread \/ cur = STOP)
    /\ ran' = IF cur \in Tasks THEN Append(ran, cur) ELSE ran
    /\ cur' = NoTask
    /\ worker' = "semwait"
    /\ UNCHANGED <<tasks, sem, waiting, tasksProcessed, todo, pc, waits, result,
                   pushed, popped, waitHistory>>

-----------------------------------------------------------------------------
Worker ==
    \/ WorkerTop
    \/ WorkerPop
    \/ \E t \in Tasks : RunQueueTask(t)
    \/ RunQueueTaskPost
    \/ RunReturn

\* The rest of an operation a client has begun.
Finish(c) == QueueTaskPost(c)
FinishOwner == WaitPost \/ WaitEvent \/ WaitRead \/ DestroyPost \/ DestroyJoin

Next ==
    \/ \E c \in Clients, t \in Tasks : QueueTask(c, t)
    \/ \E c \in Clients : Finish(c)
    \/ WaitPush
    \/ DestroyPush
    \/ FinishOwner
    \/ Worker

Spec == Init /\ [][Next]_vars

\* The scheduler runs every thread that can run; nobody has to call anything.
FairSpec ==
    /\ Spec
    /\ WF_vars(Worker)
    /\ WF_vars(FinishOwner)
    /\ \A c \in Clients : WF_vars(Finish(c))

-----------------------------------------------------------------------------
ClientStates == {"idle", "post", "waitPost", "waitEvent", "waitRead",
                 "stopPost", "join", "freed"}
WorkerStates == {"semwait", "pop", "run", "runPost", "exited"}

\* Every variable holds a value the code can store in it; only the owner waits
\* or destroys.
TypeOK ==
    /\ tasks \in Seq(Entries)
    /\ sem \in Nat
    /\ waiting \in BOOLEAN /\ tasksProcessed \in BOOLEAN
    /\ event \in BOOLEAN /\ exitThread \in BOOLEAN
    /\ worker \in WorkerStates
    /\ cur \in Entries \cup {NoTask}
    /\ todo \in SUBSET Tasks
    /\ pc \in [Clients -> ClientStates]
    /\ \A c \in Clients \ {Owner} : pc[c] \in {"idle", "post"}
    /\ waits \in 0..MaxWaits
    /\ result \in BOOLEAN
    /\ pushed \in Seq(Tasks) /\ ran \in Seq(Tasks)
    /\ before \in Nat /\ popped \in Nat
    /\ poppedAtPush \in Nat /\ poppedAtWait \in Nat

\* The worker never pops an empty deque: between push and post, and through the
\* rotations, the semaphore never runs ahead of the deque
\* (os_task_queue_queue_task, tiny_tubular_task_thread).
NeverPopsEmpty == worker = "pop" => tasks # <<>>

\* The count behind it: the deque holds one task for each unit of the semaphore,
\* for each thread between its push and its post, and for the worker between
\* os_sem_wait and the pop.
One(b) == IF b THEN 1 ELSE 0
Posters == {c \in Clients : pc[c] \in {"post", "waitPost", "stopPost"}}
SemCountsTasks ==
    Len(tasks) = sem + Cardinality(Posters) + One(worker = "runPost")
                 + One(worker = "pop")

\* Moving the special tasks to the back reorders nothing else: ordinary tasks
\* finish in the order they were pushed, each once; and os_task_queue_destroy,
\* which frees the deque after the thread has ended, drops none of them, not even
\* those that the last tasks pushed.
RunsInOrder ==
    /\ Len(ran) <= Len(pushed) /\ ran = SubSeq(pushed, 1, Len(ran))
    /\ worker = "exited" => tasks = <<>> /\ ran = pushed

\* When os_task_queue_wait returns, every task has finished that was pushed
\* before the worker came to answer it: those queued before the call, and those
\* that they queued in turn while the answer was put off. And what it returns
\* tells whether a task was taken up during the wait: the frontend repeats
\* obs_wait_for_destroy_queue until it says no.
WaitFlushes ==
    pc[Owner] = "waitRead" =>
        /\ Len(ran) >= before
        /\ tasksProcessed <=> poppedAtWait > poppedAtPush

\* os_task_queue_wait returns, its event being signalled once for each wait, and
\* so does os_task_queue_destroy: the thread it joins comes to its stop task.
OwnerReturns ==
    /\ pc[Owner] = "waitPost" ~> pc[Owner] = "idle"
    /\ pc[Owner] = "stopPost" ~> pc[Owner] = "freed"
=============================================================================
