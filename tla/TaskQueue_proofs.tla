--------------------------- MODULE TaskQueue_proofs ---------------------------
(***************************************************************************)
(* The task queue never pops an empty deque, for any set of threads and    *)
(* tasks.  SemCountsTasks, with the types, is inductive: a thread enters   *)
(* Posters when it pushes and leaves it when it posts, and the worker's    *)
(* rotations leave the length of the deque alone.                          *)
(*                                                                         *)
(* The order rests on a second invariant, OrderInv: the deque is what was  *)
(* pushed and not yet popped, with at most one special task in it, and     *)
(* where the owner is tells which one and how far it has come.             *)
(***************************************************************************)
EXTENDS TaskQueue, TLAPS, FiniteSetTheorems, SequenceTheorems

\* Taking a task with PopTask removes exactly one entry, whichever rotation
\* applied (tiny_tubular_task_thread).
LEMMA PopTaskType ==
    ASSUME NEW q \in Seq(Entries), q # <<>>
    PROVE  /\ PopTask(q).ti \in Entries
           /\ PopTask(q).rest \in Seq(Entries)
           /\ Len(PopTask(q).rest) = Len(q) - 1
<1> DEFINE P == [ti : Entries, rest : Seq(Entries)]
<1>1. ASSUME NEW p \in P, NEW s \in Entries
      PROVE  PutOff(p, s) \in P /\ Len(PutOff(p, s).rest) = Len(p.rest)
  <2>1. CASE p.rest # <<>> /\ p.ti = s
    <3>1. Head(p.rest) \in Entries /\ Tail(p.rest) \in Seq(Entries)
          /\ Len(Tail(p.rest)) = Len(p.rest) - 1
      BY <2>1, HeadTailProperties
    <3>2. Append(Tail(p.rest), p.ti) \in Seq(Entries)
          /\ Len(Append(Tail(p.rest), p.ti)) = Len(p.rest)
      BY <3>1, LenProperties, AppendProperties
    <3> QED BY <2>1, <3>1, <3>2 DEF PutOff
  <2>2. CASE ~(p.rest # <<>> /\ p.ti = s)
    BY <2>2 DEF PutOff
  <2> QED BY <2>1, <2>2
<1>2. [ti |-> Head(q), rest |-> Tail(q)] \in P /\ Len(Tail(q)) = Len(q) - 1
  BY HeadTailProperties
<1>3. WAIT \in Entries /\ STOP \in Entries
  BY DEF Entries
<1> DEFINE a == [ti |-> Head(q), rest |-> Tail(q)]
           b == PutOff(a, WAIT)
<1>4. b \in P /\ Len(b.rest) = Len(q) - 1
  BY <1>1, <1>2, <1>3
<1>5. PutOff(b, STOP) \in P /\ Len(PutOff(b, STOP).rest) = Len(q) - 1
  <2> HIDE DEF b
  <2> QED BY <1>1, <1>3, <1>4
<1>6. PopTask(q) = PutOff(b, STOP)
  BY DEF PopTask
<1> HIDE DEF b
<1> QED BY <1>5, <1>6

-----------------------------------------------------------------------------
Posting == {"post", "waitPost", "stopPost"}

\* The number of threads between push and post is a number.
LEMMA PostersFinite == IsFiniteSet(Posters) /\ Cardinality(Posters) \in Nat
BY TaskQueueAssumption, FS_Subset, FS_CardinalityType DEF Posters

\* A thread that pushes becomes one of them (os_task_queue_queue_task,
\* os_task_queue_wait, os_task_queue_destroy).
LEMMA PosterAdded ==
    ASSUME pc \in [Clients -> ClientStates], NEW c \in Clients,
           pc[c] \notin Posting, NEW x \in Posting, pc' = [pc EXCEPT ![c] = x]
    PROVE  Cardinality(Posters') = Cardinality(Posters) + 1
<1>1. Posters' = Posters \cup {c} /\ c \notin Posters
  BY DEF Posters, Posting
<1> QED BY <1>1, PostersFinite, FS_AddElement

\* A thread that posts is no longer one of them (os_sem_post).
LEMMA PosterRemoved ==
    ASSUME pc \in [Clients -> ClientStates], NEW c \in Clients,
           pc[c] \in Posting, NEW x, x \notin Posting, pc' = [pc EXCEPT ![c] = x]
    PROVE  Cardinality(Posters') = Cardinality(Posters) - 1
<1>1. Posters' = Posters \ {c} /\ c \in Posters
  BY DEF Posters, Posting
<1> QED BY <1>1, PostersFinite, FS_RemoveElement, FS_CardinalityType

\* Any other change of a thread's place leaves them as they are.
LEMMA PosterKept ==
    ASSUME pc \in [Clients -> ClientStates], NEW c \in Clients,
           pc[c] \notin Posting, NEW x, x \notin Posting, pc' = [pc EXCEPT ![c] = x]
    PROVE  Posters' = Posters
BY DEF Posters, Posting

\* A post turns the thread into a unit of the semaphore (os_sem_post).
LEMMA PostCounts ==
    ASSUME TypeOK, SemCountsTasks, Post, UNCHANGED <<tasks, worker>>,
           Cardinality(Posters') = Cardinality(Posters) - 1
    PROVE  SemCountsTasks'
<1>1. sem \in Nat /\ Cardinality(Posters) \in Nat
  BY PostersFinite DEF TypeOK
<1>2. One(worker = "runPost")' = One(worker = "runPost") /\ One(worker = "pop")' = One(worker = "pop")
  BY DEF One
<1>3. One(worker = "runPost") \in Nat /\ One(worker = "pop") \in Nat
  BY DEF One
<1> QED
  BY <1>1, <1>2, <1>3 DEF SemCountsTasks, Post

-----------------------------------------------------------------------------
\* In every reachable state each variable has its type, and each task in the
\* deque is accounted for: by the semaphore, by a thread that has still to post,
\* or by the worker that is about to pop (libobs/util/task.c:57-164).
IInv == TypeOK /\ SemCountsTasks

LEMMA InitInv == Init => IInv
<1> SUFFICES ASSUME Init PROVE IInv
  OBVIOUS
<1>1. TypeOK
  <2>1. /\ tasks \in Seq(Entries) /\ pushed \in Seq(Tasks) /\ ran \in Seq(Tasks)
    BY EmptySeq DEF Init
  <2>2. /\ pc \in [Clients -> ClientStates]
        /\ \A c \in Clients \ {Owner} : pc[c] \in {"idle", "post"}
    BY DEF Init, ClientStates
  <2>3. waits \in 0..MaxWaits
    BY TaskQueueAssumption DEF Init
  <2> QED BY <2>1, <2>2, <2>3 DEF Init, TypeOK, WorkerStates, NoTask
<1>2. Posters = {}
  BY DEF Init, Posters
<1>3. SemCountsTasks
  BY <1>2, FS_EmptySet DEF Init, SemCountsTasks, One
<1> QED BY <1>1, <1>3 DEF IInv

LEMMA QueueTaskInv ==
    ASSUME IInv, NEW c \in Clients, NEW t \in Tasks, QueueTask(c, t)
    PROVE  IInv'
<1> USE DEF IInv
<1>1. TypeOK'
  BY DEF TypeOK, QueueTask, Push, workerVars, waitHistory, ClientStates, Entries
<1>2. Cardinality(Posters') = Cardinality(Posters) + 1
  BY PosterAdded DEF TypeOK, QueueTask, Posting
<1>3. Len(tasks') = Len(tasks) + 1
  BY DEF TypeOK, QueueTask, Push
<1>4. SemCountsTasks'
  BY <1>2, <1>3, PostersFinite
     DEF TypeOK, SemCountsTasks, QueueTask, workerVars, One
<1> QED BY <1>1, <1>4

LEMMA QueueTaskPostInv ==
    ASSUME IInv, NEW c \in Clients, QueueTaskPost(c)
    PROVE  IInv'
<1> USE DEF IInv
<1>1. TypeOK'
  BY DEF TypeOK, QueueTaskPost, Post, workerVars, history, waitHistory,
         ClientStates
<1>2. Cardinality(Posters') = Cardinality(Posters) - 1
  BY PosterRemoved DEF TypeOK, QueueTaskPost, Posting
<1>3. SemCountsTasks'
  BY <1>2, PostCounts DEF QueueTaskPost, workerVars
<1> QED BY <1>1, <1>3

LEMMA WaitPushInv ==
    ASSUME IInv, WaitPush
    PROVE  IInv'
<1> USE DEF IInv
<1>1. tasks' = Append(tasks, WAIT) /\ WAIT \in Entries
  BY DEF WaitPush, Push, Entries
<1>2. tasks' \in Seq(Entries) /\ Len(tasks') = Len(tasks) + 1
  BY <1>1, AppendProperties DEF TypeOK
<1>3. waits' \in 0..MaxWaits /\ before' \in Nat /\ poppedAtPush' \in Nat
  BY TaskQueueAssumption, LenProperties DEF TypeOK, WaitPush
<1>4. TypeOK'
  BY <1>2, <1>3, TaskQueueAssumption
     DEF TypeOK, WaitPush, StartWaiting, workerVars, ClientStates
<1>5. Cardinality(Posters') = Cardinality(Posters) + 1
  BY TaskQueueAssumption, PosterAdded DEF TypeOK, WaitPush, Posting
<1>6. SemCountsTasks'
  BY <1>2, <1>5, PostersFinite
     DEF TypeOK, SemCountsTasks, WaitPush, workerVars, One
<1> QED BY <1>4, <1>6

LEMMA WaitPostInv ==
    ASSUME IInv, WaitPost
    PROVE  IInv'
<1> USE DEF IInv
<1>1. TypeOK'
  BY TaskQueueAssumption
     DEF TypeOK, WaitPost, Post, workerVars, queueVars, history,
         waitHistory, ClientStates, WorkerStates, Entries
<1>2. Cardinality(Posters') = Cardinality(Posters) - 1
  BY TaskQueueAssumption, PosterRemoved
     DEF TypeOK, WaitPost, Post, Posting
<1>3. SemCountsTasks'
  BY <1>2, PostCounts DEF WaitPost, workerVars
<1> QED BY <1>1, <1>3

LEMMA WaitEventInv ==
    ASSUME IInv, WaitEvent
    PROVE  IInv'
<1> USE DEF IInv
<1>1. TypeOK'
  BY TaskQueueAssumption
     DEF TypeOK, WaitEvent, workerVars, queueVars, history,
         waitHistory, ClientStates, WorkerStates, Entries
<1>2. Posters' = Posters
  BY TaskQueueAssumption, PosterKept
     DEF TypeOK, WaitEvent, Posting
<1>3. SemCountsTasks'
  BY <1>2, PostersFinite
     DEF TypeOK, SemCountsTasks, WaitEvent, workerVars,
         queueVars, One
<1> QED BY <1>1, <1>3

LEMMA WaitReadInv ==
    ASSUME IInv, WaitRead
    PROVE  IInv'
<1> USE DEF IInv
<1>1. TypeOK'
  BY TaskQueueAssumption
     DEF TypeOK, WaitRead, workerVars, queueVars, history,
         waitHistory, ClientStates, WorkerStates, Entries
<1>2. Posters' = Posters
  BY TaskQueueAssumption, PosterKept
     DEF TypeOK, WaitRead, Posting
<1>3. SemCountsTasks'
  BY <1>2, PostersFinite
     DEF TypeOK, SemCountsTasks, WaitRead, workerVars,
         queueVars, One
<1> QED BY <1>1, <1>3

LEMMA DestroyPushInv ==
    ASSUME IInv, DestroyPush
    PROVE  IInv'
<1> USE DEF IInv
<1>1. TypeOK'
  BY TaskQueueAssumption
     DEF TypeOK, DestroyPush, Push, workerVars, queueVars, history,
         waitHistory, ClientStates, WorkerStates, Entries
<1>2. Cardinality(Posters') = Cardinality(Posters) + 1
  BY TaskQueueAssumption, PosterAdded
     DEF TypeOK, DestroyPush, Push, Posting
<1>3. SemCountsTasks'
  BY <1>2, PostersFinite
     DEF TypeOK, SemCountsTasks, DestroyPush, Push, workerVars,
         queueVars, One
<1> QED BY <1>1, <1>3

LEMMA DestroyPostInv ==
    ASSUME IInv, DestroyPost
    PROVE  IInv'
<1> USE DEF IInv
<1>1. TypeOK'
  BY TaskQueueAssumption
     DEF TypeOK, DestroyPost, Post, workerVars, queueVars, history,
         waitHistory, ClientStates, WorkerStates, Entries
<1>2. Cardinality(Posters') = Cardinality(Posters) - 1
  BY TaskQueueAssumption, PosterRemoved
     DEF TypeOK, DestroyPost, Post, Posting
<1>3. SemCountsTasks'
  BY <1>2, PostCounts DEF DestroyPost, workerVars, queueVars
<1> QED BY <1>1, <1>3

LEMMA DestroyJoinInv ==
    ASSUME IInv, DestroyJoin
    PROVE  IInv'
<1> USE DEF IInv
<1>1. TypeOK'
  BY TaskQueueAssumption
     DEF TypeOK, DestroyJoin, workerVars, queueVars, history,
         waitHistory, ClientStates, WorkerStates, Entries
<1>2. Posters' = Posters
  BY TaskQueueAssumption, PosterKept
     DEF TypeOK, DestroyJoin, Posting
<1>3. SemCountsTasks'
  BY <1>2, PostersFinite
     DEF TypeOK, SemCountsTasks, DestroyJoin, workerVars,
         queueVars, One
<1> QED BY <1>1, <1>3

\* The worker leaves the clients where they are.
LEMMA PostersSame == ASSUME UNCHANGED pc PROVE Posters' = Posters
BY DEF Posters

LEMMA WorkerTopInv ==
    ASSUME IInv, WorkerTop
    PROVE  IInv'
<1> USE DEF IInv
<1>1. TypeOK'
  BY DEF TypeOK, WorkerTop, SemWait, history, waitHistory, WorkerStates
<1>2. Posters' = Posters
  BY PostersSame DEF WorkerTop
<1>3. SemCountsTasks'
  BY <1>2, PostersFinite
     DEF TypeOK, SemCountsTasks, WorkerTop, SemWait, One
<1> QED BY <1>1, <1>3

LEMMA WorkerPopInv ==
    ASSUME IInv, WorkerPop
    PROVE  IInv'
<1> USE DEF IInv
<1>1. tasks \in Seq(Entries) /\ tasks # <<>>
  BY PostersFinite, EmptySeq
     DEF TypeOK, SemCountsTasks, WorkerPop, One
<1> DEFINE p == PopTask(tasks)
<1>2. p.ti \in Entries /\ p.rest \in Seq(Entries) /\ Len(p.rest) = Len(tasks) - 1
  BY <1>1, PopTaskType
<1>3. /\ cur' = p.ti /\ tasks' = p.rest /\ worker' = "run"
      /\ UNCHANGED <<sem, event, exitThread, pc, waits, result, pushed, ran>>
  BY DEF WorkerPop
<1>4. /\ waiting' \in BOOLEAN /\ tasksProcessed' \in BOOLEAN
  BY DEF WorkerPop, TypeOK
<1>5. /\ popped' \in Nat /\ poppedAtWait' \in Nat /\ poppedAtPush' \in Nat
      /\ before' \in Nat /\ todo' \in SUBSET Tasks
  <2>1. Len(pushed) \in Nat
    BY LenProperties DEF TypeOK
  <2> QED BY <2>1, TaskQueueAssumption DEF WorkerPop, TypeOK
<1> HIDE DEF p
<1>6. TypeOK'
  BY <1>2, <1>3, <1>4, <1>5 DEF TypeOK, WorkerStates
<1>7. Posters' = Posters
  BY <1>3, PostersSame
<1>8. SemCountsTasks'
  BY <1>2, <1>3, <1>7, PostersFinite
     DEF TypeOK, SemCountsTasks, One, WorkerPop
<1> QED BY <1>6, <1>8

LEMMA RunQueueTaskInv ==
    ASSUME IInv, NEW t \in Tasks, RunQueueTask(t)
    PROVE  IInv'
<1> USE DEF IInv
<1>1. TypeOK'
  BY DEF TypeOK, RunQueueTask, Push, waitHistory, WorkerStates, Entries
<1>2. Posters' = Posters
  BY PostersSame DEF RunQueueTask
<1>3. SemCountsTasks'
  BY <1>2, PostersFinite
     DEF TypeOK, SemCountsTasks, RunQueueTask, Push, One
<1> QED BY <1>1, <1>3

LEMMA RunQueueTaskPostInv ==
    ASSUME IInv, RunQueueTaskPost
    PROVE  IInv'
<1> USE DEF IInv
<1>1. TypeOK'
  BY DEF TypeOK, RunQueueTaskPost, Post, history, waitHistory, WorkerStates
<1>2. Posters' = Posters
  BY PostersSame DEF RunQueueTaskPost
<1>3. SemCountsTasks'
  BY <1>2, PostersFinite
     DEF TypeOK, SemCountsTasks, RunQueueTaskPost, Post, One
<1> QED BY <1>1, <1>3

LEMMA RunReturnInv ==
    ASSUME IInv, RunReturn
    PROVE  IInv'
<1> USE DEF IInv
<1>1. TypeOK'
  BY DEF TypeOK, RunReturn, waitHistory, WorkerStates
<1>2. Posters' = Posters
  BY PostersSame DEF RunReturn
<1>3. SemCountsTasks'
  BY <1>2, PostersFinite
     DEF TypeOK, SemCountsTasks, RunReturn, One
<1> QED BY <1>1, <1>3

LEMMA NextInv == IInv /\ [Next]_vars => IInv'
<1> SUFFICES ASSUME IInv, [Next]_vars PROVE IInv'
  OBVIOUS
<1>1. CASE \E c \in Clients, t \in Tasks : QueueTask(c, t)
  BY <1>1, QueueTaskInv
<1>2. CASE \E c \in Clients : Finish(c)
  BY <1>2, QueueTaskPostInv DEF Finish
<1>3. CASE WaitPush
  BY <1>3, WaitPushInv
<1>4. CASE DestroyPush
  BY <1>4, DestroyPushInv
<1>5. CASE FinishOwner
  BY <1>5, WaitPostInv, WaitEventInv, WaitReadInv, DestroyPostInv,
     DestroyJoinInv DEF FinishOwner
<1>6. CASE Worker
  BY <1>6, WorkerTopInv, WorkerPopInv, RunQueueTaskInv, RunQueueTaskPostInv,
     RunReturnInv DEF Worker
<1>7. CASE UNCHANGED vars
  <2>1. TypeOK'
    BY <1>7 DEF IInv, TypeOK, vars, queueVars, workerVars, history, waitHistory
  <2>2. SemCountsTasks'
    BY <1>7, PostersSame
       DEF IInv, SemCountsTasks, vars, queueVars, workerVars, One
  <2> QED BY <2>1, <2>2 DEF IInv
<1> QED BY <1>1, <1>2, <1>3, <1>4, <1>5, <1>6, <1>7 DEF Next

\* Every variable keeps its type (struct os_task_queue, and each thread's place).
THEOREM Typing == Spec => []TypeOK
<1>1. IInv => TypeOK
  BY DEF IInv
<1> QED BY InitInv, NextInv, <1>1, PTL DEF Spec

\* The deque always holds exactly the tasks that the semaphore, the threads about
\* to post and the worker about to pop stand for (os_task_queue_queue_task,
\* os_task_queue_wait, os_task_queue_destroy, tiny_tubular_task_thread).
THEOREM Counting == Spec => []SemCountsTasks
<1>1. IInv => SemCountsTasks
  BY DEF IInv
<1> QED BY InitInv, NextInv, <1>1, PTL DEF Spec

\* Whatever the threads and their tasks, the worker finds a task when the
\* semaphore lets it pass (deque_pop_front in tiny_tubular_task_thread).
THEOREM PopsNonEmpty == Spec => []NeverPopsEmpty
<1>1. IInv => NeverPopsEmpty
  BY PostersFinite, EmptySeq
     DEF IInv, TypeOK, SemCountsTasks, NeverPopsEmpty, One
<1> QED BY InitInv, NextInv, <1>1, PTL DEF Spec

-----------------------------------------------------------------------------
(* The order of the tasks.  At most one special task is about, its owner   *)
(* being the only thread that waits or destroys.                           *)

Running == worker \in {"run", "runPost"}

\* The deque q is what was pushed (u) and not yet popped (p tasks were).
Rest(q, u, p) ==
    /\ p <= Len(u) /\ Len(q) = Len(u) - p
    /\ \A i \in 1 .. Len(q) : q[i] = u[p + i]

\* The same with the special task s in place k.
RestWith(q, u, p, s, k) ==
    /\ p <= Len(u) /\ Len(q) = Len(u) - p + 1
    /\ q[k] = s
    /\ \A i \in 1 .. (k - 1) : q[i] = u[p + i]
    /\ \A i \in (k + 1) .. Len(q) : q[i] = u[p + i - 1]

Plain == Rest(tasks, pushed, popped)
With(s) == \E k \in 1 .. Len(tasks) : RestWith(tasks, pushed, popped, s, k)

\* What was popped has run, or runs.
InOrder ==
    /\ popped = Len(ran) + One(Running /\ cur \in Tasks) /\ popped <= Len(pushed)
    /\ \A i \in 1 .. Len(ran) : i <= Len(pushed) /\ ran[i] = pushed[i]
    /\ Running /\ cur \in Tasks => cur = pushed[popped]
    /\ ~(Running /\ cur \in Tasks) => todo = {}
    /\ worker = "runPost" => cur \in Tasks

Runs(s) == Running /\ cur = s
NoneRuns == ~Runs(WAIT) /\ ~Runs(STOP)

\* The wait task has been popped, with everything that was pushed before.
Answered ==
    /\ ~waiting /\ before <= Len(ran)
    /\ tasksProcessed <=> poppedAtWait > poppedAtPush

Quiet == Plain /\ NoneRuns /\ ~event /\ ~exitThread

WaitQueued ==
    /\ With(WAIT) /\ NoneRuns /\ ~event /\ ~exitThread
    /\ waiting /\ popped >= poppedAtPush
    /\ tasksProcessed <=> popped > poppedAtPush

WaitTaken ==
    /\ Plain /\ ~Runs(STOP) /\ ~exitThread
    /\ event <=> ~Runs(WAIT)
    /\ Answered

StopQueued == With(STOP) /\ NoneRuns /\ ~event /\ ~exitThread

StopTaken ==
    /\ tasks = <<>> /\ popped = Len(pushed) /\ ~event
    /\ exitThread => ~Running
    /\ ~exitThread => Runs(STOP)

\* Where the owner is tells which special task there is.
Phases ==
    /\ pc[Owner] \in {"idle", "post", "waitRead"} => Quiet
    /\ pc[Owner] = "waitRead" => Answered
    /\ pc[Owner] \in {"waitPost", "waitEvent"} => WaitQueued \/ WaitTaken
    /\ pc[Owner] \in {"stopPost", "join"} => StopQueued \/ StopTaken
    /\ pc[Owner] = "freed" => StopTaken /\ exitThread
    /\ worker = "exited" => exitThread

OrderInv == InOrder /\ Phases

\* A task that is pushed goes behind the others, in both accounts.
LEMMA RestPush ==
  ASSUME NEW q \in Seq(Entries), NEW u \in Seq(Tasks), NEW p \in Nat, NEW t \in Tasks,
         Rest(q, u, p)
  PROVE  Rest(Append(q, t), Append(u, t), p)
<1>1. Len(Append(q, t)) = Len(q) + 1 /\ Len(Append(u, t)) = Len(u) + 1
  BY AppendProperties DEF Entries
<1>2. \A i \in 1 .. Len(q) + 1 : Append(q, t)[i] = IF i <= Len(q) THEN q[i] ELSE t
  BY AppendProperties DEF Entries
<1>3. \A i \in 1 .. Len(u) + 1 : Append(u, t)[i] = IF i <= Len(u) THEN u[i] ELSE t
  BY AppendProperties
<1> QED
  BY <1>1, <1>2, <1>3 DEF Rest

LEMMA RestWithPush ==
  ASSUME NEW q \in Seq(Entries), NEW u \in Seq(Tasks), NEW p \in Nat, NEW t \in Tasks,
         NEW s, NEW k \in 1 .. Len(q), RestWith(q, u, p, s, k)
  PROVE  RestWith(Append(q, t), Append(u, t), p, s, k) /\ k \in 1 .. Len(Append(q, t))
<1>0. t \in Entries /\ Len(q) \in Nat /\ Len(u) \in Nat
  BY DEF Entries
<1>1. Len(Append(q, t)) = Len(q) + 1 /\ Len(Append(u, t)) = Len(u) + 1
  BY <1>0, AppendProperties
<1>2. \A i \in 1 .. Len(q) + 1 : Append(q, t)[i] = IF i <= Len(q) THEN q[i] ELSE t
  BY <1>0, AppendProperties
<1>3. \A i \in 1 .. Len(u) + 1 : Append(u, t)[i] = IF i <= Len(u) THEN u[i] ELSE t
  BY <1>0, AppendProperties
<1>4. /\ p <= Len(u) + 1 /\ Len(q) + 1 = (Len(u) + 1) - p + 1 /\ Append(q, t)[k] = s
      /\ k \in 1 .. Len(q) + 1
  BY <1>0, <1>2 DEF RestWith
<1>5. ASSUME NEW i \in 1 .. (k - 1)
      PROVE  Append(q, t)[i] = Append(u, t)[p + i]
  BY <1>0, <1>2, <1>3 DEF RestWith
<1>6. ASSUME NEW i \in (k + 1) .. Len(q) + 1
      PROVE  Append(q, t)[i] = Append(u, t)[p + i - 1]
  <2>1. Len(u) = p + Len(q) - 1 /\ p + i - 1 \in 1 .. Len(u) + 1 /\ i \in 1 .. Len(q) + 1
    BY <1>0 DEF RestWith
  <2>2. Append(u, t)[p + i - 1] = IF p + i - 1 <= Len(u) THEN u[p + i - 1] ELSE t
    BY <1>3, <2>1
  <2>3. CASE i <= Len(q)
    BY <1>0, <1>2, <2>1, <2>2, <2>3 DEF RestWith
  <2>4. CASE i = Len(q) + 1
    BY <1>0, <1>2, <2>1, <2>2, <2>4
  <2> QED
    BY <1>0, <2>1, <2>3, <2>4
<1> QED
  BY <1>1, <1>4, <1>5, <1>6 DEF RestWith

\* The special task is pushed.
LEMMA RestSpecial ==
  ASSUME NEW q \in Seq(Entries), NEW u \in Seq(Tasks), NEW p \in Nat, NEW s \in {WAIT, STOP},
         Rest(q, u, p)
  PROVE  /\ RestWith(Append(q, s), u, p, s, Len(q) + 1)
         /\ Len(q) + 1 \in 1 .. Len(Append(q, s))
<1>0. s \in Entries /\ Len(q) \in Nat /\ Len(u) \in Nat
  BY DEF Entries
<1>1. /\ Len(Append(q, s)) = Len(q) + 1
      /\ \A i \in 1 .. Len(q) + 1 : Append(q, s)[i] = IF i <= Len(q) THEN q[i] ELSE s
  BY <1>0, AppendProperties
<1> QED
  BY <1>0, <1>1 DEF Rest, RestWith

\* Without a special task in front the worker takes the first.
LEMMA PopPlain ==
  ASSUME NEW q \in Seq(Entries), q # <<>>, q[1] \in Tasks
  PROVE  PopTask(q).ti = q[1] /\ PopTask(q).rest = Tail(q)
<1>1. q[1] # WAIT /\ q[1] # STOP /\ Head(q) = q[1]
  BY TaskQueueAssumption
<1> QED
  BY <1>1 DEF PopTask, PutOff

\* The rest of a sequence behind its second element.
LEMMA TwoTails ==
  ASSUME NEW S, NEW q \in Seq(S), Len(q) > 1
  PROVE  /\ Head(q) = q[1] /\ Tail(q) # <<>> /\ Head(Tail(q)) = q[2]
         /\ Tail(Tail(q)) \in Seq(S) /\ Len(Tail(Tail(q))) = Len(q) - 2
         /\ \A i \in 1 .. Len(q) - 2 : Tail(Tail(q))[i] = q[i + 2]
<1> DEFINE t == Tail(q)
<1>1. q # <<>> /\ Len(q) \in Nat
  OBVIOUS
<1>2. /\ t \in Seq(S) /\ Len(t) = Len(q) - 1 /\ \A i \in 1 .. Len(t) : t[i] = q[i + 1]
      /\ Head(q) = q[1]
  BY <1>1, HeadTailProperties
<1> HIDE DEF t
<1>3. t # <<>> /\ 1 \in 1 .. Len(t)
  BY <1>1, <1>2
<1>4. /\ Tail(t) \in Seq(S) /\ Len(Tail(t)) = Len(t) - 1
      /\ \A i \in 1 .. Len(Tail(t)) : Tail(t)[i] = t[i + 1]
      /\ Head(t) = t[1]
  BY <1>2, <1>3, HeadTailProperties
<1>5. t[1] = q[2]
  BY <1>2, <1>3
<1>6. Len(Tail(t)) = Len(q) - 2
  BY <1>1, <1>2, <1>4
<1>7. \A i \in 1 .. Len(q) - 2 : Tail(t)[i] = q[i + 2]
  <2> TAKE i \in 1 .. Len(q) - 2
  <2>1. i \in 1 .. Len(Tail(t)) /\ i + 1 \in 1 .. Len(t) /\ (i + 1) + 1 = i + 2
    BY <1>1, <1>2, <1>6
  <2> QED
    BY <1>2, <1>4, <2>1
<1> QED
  BY <1>2, <1>3, <1>4, <1>5, <1>6, <1>7 DEF t

\* A special task in front is put off as long as there are others.
LEMMA PopSpecial ==
  ASSUME NEW q \in Seq(Entries), Len(q) > 1, q[1] \in {WAIT, STOP}, q[2] \in Tasks
  PROVE  PopTask(q).ti = q[2] /\ PopTask(q).rest = Append(Tail(Tail(q)), q[1])
<1>1. /\ q # <<>> /\ Head(q) = q[1] /\ Tail(q) # <<>> /\ Head(Tail(q)) = q[2]
      /\ q[2] # WAIT /\ q[2] # STOP /\ WAIT # STOP
  <2>1. /\ Head(q) = q[1] /\ Tail(q) # <<>> /\ Head(Tail(q)) = q[2]
    BY TwoTails
  <2>2. WAIT # STOP
    BY DEF WAIT, STOP
  <2> QED
    BY <2>1, <2>2, TaskQueueAssumption
<1> HIDE DEF WAIT, STOP
<1> DEFINE a == [ti |-> Head(q), rest |-> Tail(q)]
           b == [ti |-> q[2], rest |-> Append(Tail(Tail(q)), q[1])]
<1>2. a.ti = q[1] /\ a.rest = Tail(q)
  BY <1>1
<1>3. b.ti = q[2] /\ b.rest = Append(Tail(Tail(q)), q[1])
  OBVIOUS
<1>4. PopTask(q) = PutOff(PutOff(a, WAIT), STOP)
  BY DEF PopTask
<1>5. PutOff(b, STOP) = b
  BY <1>1, <1>3 DEF PutOff
<1>6. CASE q[1] = WAIT
  <2>1. PutOff(a, WAIT) = b
    BY <1>1, <1>2, <1>6 DEF PutOff
  <2> QED
    BY <1>3, <1>4, <1>5, <2>1
<1>7. CASE q[1] = STOP
  <2>1. PutOff(a, WAIT) = a
    BY <1>1, <1>2, <1>7 DEF PutOff
  <2>2. PutOff(a, STOP) = b
    BY <1>1, <1>2, <1>7 DEF PutOff
  <2> QED
    BY <1>3, <1>4, <2>1, <2>2
<1> QED
  BY <1>6, <1>7

\* Alone in the deque it is taken.
LEMMA PopAlone ==
  ASSUME NEW s \in {WAIT, STOP}, NEW q \in Seq(Entries), Len(q) = 1, q[1] = s
  PROVE  PopTask(q).ti = s /\ PopTask(q).rest = <<>>
<1>1. q # <<>> /\ Head(q) = s /\ Tail(q) = <<>>
  <2>1. q # <<>>
    OBVIOUS
  <2>2. Head(q) = q[1] /\ Tail(q) \in Seq(Entries) /\ Len(Tail(q)) = 0
    BY <2>1, HeadTailProperties
  <2>3. Tail(q) = <<>>
    BY <2>2, EmptySeq
  <2> QED
    BY <2>1, <2>2, <2>3
<1> DEFINE a == [ti |-> s, rest |-> <<>>]
<1>2. \A x \in {WAIT, STOP} : PutOff(a, x) = a
  BY DEF PutOff
<1> QED
  BY <1>1, <1>2 DEF PopTask

\* What a pop does to a deque without a special task: the next of what was pushed.
LEMMA RestPop ==
  ASSUME NEW q \in Seq(Entries), NEW u \in Seq(Tasks), NEW p \in Nat, q # <<>>, Rest(q, u, p)
  PROVE  /\ PopTask(q).ti = u[p + 1] /\ p + 1 \in 1 .. Len(u) /\ u[p + 1] \in Tasks
         /\ Rest(PopTask(q).rest, u, p + 1)
<1>0. Len(q) \in Nat \ {0} /\ Len(u) \in Nat
  OBVIOUS
<1>1. q[1] = u[p + 1] /\ p + 1 \in 1 .. Len(u) /\ u[p + 1] \in Tasks
  BY <1>0 DEF Rest
<1>2. PopTask(q).ti = q[1] /\ PopTask(q).rest = Tail(q)
  BY <1>1, PopPlain
<1>3. Len(Tail(q)) = Len(q) - 1 /\ \A i \in 1 .. Len(q) - 1 : Tail(q)[i] = q[i + 1]
  BY HeadTailProperties
<1>4. Rest(Tail(q), u, p + 1)
  BY <1>0, <1>1, <1>3 DEF Rest
<1> QED
  BY <1>1, <1>2, <1>4

\* With the special task s it takes either the next one, s being put off perhaps, or
\* s itself, and then nothing is left.
LEMMA RestWithPop ==
  ASSUME NEW q \in Seq(Entries), NEW u \in Seq(Tasks), NEW p \in Nat, NEW s \in {WAIT, STOP},
         NEW k \in 1 .. Len(q), RestWith(q, u, p, s, k)
  PROVE  \/ /\ PopTask(q).ti = u[p + 1] /\ p + 1 \in 1 .. Len(u) /\ u[p + 1] \in Tasks
            /\ \E j \in 1 .. Len(PopTask(q).rest) : RestWith(PopTask(q).rest, u, p + 1, s, j)
         \/ PopTask(q).ti = s /\ PopTask(q).rest = <<>> /\ p = Len(u)
<1>0. Len(q) \in Nat \ {0} /\ Len(u) \in Nat /\ q # <<>> /\ k \in 1 .. Len(q) /\ p \in Nat
  OBVIOUS
<1>1. Len(Tail(q)) = Len(q) - 1 /\ Tail(q) \in Seq(Entries)
      /\ \A i \in 1 .. Len(q) - 1 : Tail(q)[i] = q[i + 1]
  BY <1>0, HeadTailProperties
<1>2. CASE k > 1
  <2>1. q[1] = u[p + 1] /\ p + 1 \in 1 .. Len(u) /\ u[p + 1] \in Tasks
    BY <1>0, <1>2 DEF RestWith
  <2>2. PopTask(q).ti = u[p + 1] /\ PopTask(q).rest = Tail(q)
    BY <1>0, <2>1, PopPlain
  <2>3. RestWith(Tail(q), u, p + 1, s, k - 1) /\ k - 1 \in 1 .. Len(Tail(q))
    BY <1>0, <1>1, <1>2 DEF RestWith
  <2> QED
    BY <2>1, <2>2, <2>3
<1>3. CASE k = 1 /\ Len(q) > 1
  <2>1. q[1] = s /\ q[2] = u[p + 1] /\ p + 1 \in 1 .. Len(u) /\ u[p + 1] \in Tasks
    BY <1>0, <1>3 DEF RestWith
  <2>2. PopTask(q).ti = u[p + 1] /\ PopTask(q).rest = Append(Tail(Tail(q)), s)
    BY <1>3, <2>1, PopSpecial
  <2> DEFINE r == Tail(Tail(q))
  <2>3. /\ r \in Seq(Entries) /\ Len(r) = Len(q) - 2
        /\ \A i \in 1 .. Len(q) - 2 : r[i] = q[i + 2]
    BY <1>3, TwoTails
  <2> HIDE DEF r
  <2>4. s \in Entries
    BY DEF Entries
  <2>5. /\ Len(Append(r, s)) = Len(q) - 1
        /\ \A i \in 1 .. Len(q) - 1 : Append(r, s)[i] = IF i <= Len(q) - 2 THEN q[i + 2] ELSE s
    BY <1>0, <1>3, <2>3, <2>4, AppendProperties
  <2> DEFINE n == Len(q) - 1
  <2>6. RestWith(Append(r, s), u, p + 1, s, n) /\ n \in 1 .. Len(Append(r, s))
    <3>1. n \in Nat \ {0} /\ Len(Append(r, s)) = n /\ Append(r, s)[n] = s
      BY <1>0, <1>3, <2>5
    <3>2. p + 1 <= Len(u) /\ n = Len(u) - (p + 1) + 1
      BY <1>0, <2>1 DEF RestWith
    <3>3. ASSUME NEW i \in 1 .. (n - 1) PROVE Append(r, s)[i] = u[(p + 1) + i]
      <4>1. i + 2 \in (k + 1) .. Len(q) /\ Append(r, s)[i] = q[i + 2] /\ p + (i + 2) - 1 = (p + 1) + i
        BY <1>0, <1>3, <2>5
      <4>2. \A m \in (k + 1) .. Len(q) : q[m] = u[p + m - 1]
        BY DEF RestWith
      <4>3. q[i + 2] = u[p + (i + 2) - 1]
        BY <4>1, <4>2, Zenon
      <4> QED
        BY <4>1, <4>3, Zenon
    <3> DEFINE z == Append(r, s)
    <3>4. \A i \in (n + 1) .. Len(z) : z[i] = u[(p + 1) + i - 1]
      BY <3>1
    <3>5. n \in 1 .. Len(z) /\ p + 1 <= Len(u) /\ Len(z) = Len(u) - (p + 1) + 1 /\ z[n] = s
      BY <3>1, <3>2
    <3>6. \A i \in 1 .. (n - 1) : z[i] = u[(p + 1) + i]
      BY <3>3
    <3> HIDE DEF n, z
    <3>7. RestWith(z, u, p + 1, s, n)
      BY <3>4, <3>5, <3>6, Zenon DEF RestWith
    <3> QED
      BY <3>5, <3>7, Zenon DEF z
  <2> QED
    BY <2>1, <2>2, <2>6 DEF r
<1>4. CASE k = 1 /\ Len(q) = 1
  <2>1. q[k] = s /\ Len(q) = Len(u) - p + 1
    BY DEF RestWith
  <2>2. q[1] = s
    BY <1>4, <2>1
  <2>3. p = Len(u)
    <3> DEFINE m == Len(u)
               n == Len(q)
    <3>1. m \in Nat /\ n = 1 /\ n = m - p + 1
      BY <1>0, <1>4, <2>1
    <3> HIDE DEF m, n
    <3>2. p = m
      BY <3>1
    <3> QED
      BY <3>2 DEF m
  <2> QED
    BY <1>4, <2>2, <2>3, PopAlone
<1>5. k > 1 \/ (k = 1 /\ Len(q) > 1) \/ (k = 1 /\ Len(q) = 1)
  <2> DEFINE m == Len(q)
  <2>1. m \in Nat \ {0} /\ k \in 1 .. m
    BY <1>0
  <2> HIDE DEF m
  <2>2. k > 1 \/ (k = 1 /\ m > 1) \/ (k = 1 /\ m = 1)
    BY <2>1
  <2> QED
    BY <2>2 DEF m
<1> QED
  BY <1>2, <1>3, <1>4, <1>5

-----------------------------------------------------------------------------

LEMMA OrderInit == Init => OrderInv
<1> SUFFICES ASSUME Init PROVE OrderInv
  OBVIOUS
<1>1. Plain
  BY DEF Init, Plain, Rest
<1>2. InOrder
  BY DEF Init, InOrder, Running, One
<1>3. Quiet /\ pc[Owner] = "idle"
  BY <1>1, TaskQueueAssumption DEF Init, Quiet, NoneRuns, Runs, Running
<1> QED
  BY <1>2, <1>3 DEF Init, OrderInv, Phases

\* A task is pushed, by a client or by the task that runs.
LEMMA PushKeeps ==
  ASSUME TypeOK, NEW t \in Tasks, InOrder,
         tasks' = Append(tasks, t), pushed' = Append(pushed, t),
         UNCHANGED <<popped, ran, cur, worker, todo>>
         \/ (UNCHANGED <<popped, ran, cur>> /\ worker = "run" /\ worker' = "runPost"
                /\ cur \in Tasks /\ todo' \subseteq todo)
  PROVE  /\ Plain => Plain'
         /\ \A s : With(s) => With(s)'
         /\ InOrder'
<1>1. /\ tasks \in Seq(Entries) /\ pushed \in Seq(Tasks) /\ popped \in Nat /\ ran \in Seq(Tasks)
      /\ popped' = popped
  BY DEF TypeOK
<1>2. Plain => Plain'
  BY <1>1, RestPush DEF Plain
<1>3. ASSUME NEW s, With(s)
      PROVE  With(s)'
  <2>1. PICK k \in 1 .. Len(tasks) : RestWith(tasks, pushed, popped, s, k)
    BY <1>3 DEF With
  <2>2. RestWith(tasks', pushed', popped', s, k) /\ k \in 1 .. Len(tasks')
    BY <1>1, <2>1, RestWithPush
  <2> QED
    BY <2>2 DEF With
<1>4. /\ Len(pushed') = Len(pushed) + 1 /\ Len(pushed) \in Nat
      /\ \A i \in 1 .. Len(pushed) : pushed'[i] = pushed[i]
  BY <1>1, AppendProperties
<1>5. /\ Len(ran) \in Nat
      /\ popped = Len(ran) + One(Running /\ cur \in Tasks)
  BY <1>1 DEF InOrder
<1>6. \A i \in 1 .. Len(ran) : i <= Len(pushed') /\ ran[i] = pushed'[i]
  BY <1>4, <1>5 DEF InOrder
<1>7. UNCHANGED <<ran, cur, popped>> /\ todo' \subseteq todo
      /\ (Running' <=> Running) /\ (worker' = "runPost" => cur \in Tasks)
  BY DEF Running, InOrder
<1>8. Running /\ cur \in Tasks => cur = pushed'[popped]
  BY <1>1, <1>4, <1>5 DEF InOrder, One
<1>9. InOrder'
  BY <1>4, <1>5, <1>6, <1>7, <1>8 DEF InOrder, One
<1> QED
  BY <1>2, <1>3, <1>9

LEMMA QueueTaskOrder ==
  ASSUME IInv, OrderInv, NEW c \in Clients, NEW t \in Tasks, QueueTask(c, t)
  PROVE  OrderInv'
<1>1. /\ (Plain => Plain') /\ (\A s : With(s) => With(s)') /\ InOrder'
  BY PushKeeps DEF IInv, OrderInv, QueueTask, Push, workerVars
<1>2. UNCHANGED <<popped, ran, cur, worker, todo, waiting, tasksProcessed, event, exitThread,
                  before, poppedAtPush, poppedAtWait>>
  BY DEF QueueTask, workerVars, waitHistory
<1>3. pc'[Owner] = pc[Owner] \/ (pc[Owner] = "idle" /\ pc'[Owner] = "post")
  BY TaskQueueAssumption DEF QueueTask, IInv, TypeOK
<1>4. pc[Owner] \notin {"stopPost", "join", "freed"}
  BY DEF QueueTask, Alive
<1> QED
  BY <1>1, <1>2, <1>3, <1>4
     DEF OrderInv, Phases, Quiet, Answered, WaitQueued, WaitTaken, NoneRuns, Runs, Running

LEMMA RunQueueTaskOrder ==
  ASSUME IInv, OrderInv, NEW t \in Tasks, RunQueueTask(t)
  PROVE  OrderInv'
<1>1. worker = "run" /\ worker' = "runPost" /\ t \in todo /\ cur \in Tasks
  BY DEF RunQueueTask, OrderInv, InOrder, Running
<1>2. /\ (Plain => Plain') /\ (\A s : With(s) => With(s)') /\ InOrder'
  BY <1>1, PushKeeps DEF IInv, OrderInv, RunQueueTask, Push
<1>3. UNCHANGED <<popped, ran, cur, waiting, tasksProcessed, event, exitThread, pc,
                  before, poppedAtPush, poppedAtWait>>
  BY DEF RunQueueTask, waitHistory
<1>4. ~StopTaken
  BY <1>1, TaskQueueAssumption DEF StopTaken, Runs, Running
<1> QED
  BY <1>1, <1>2, <1>3, <1>4
     DEF OrderInv, Phases, Quiet, Answered, WaitQueued, WaitTaken, StopQueued, NoneRuns, Runs,
         Running

\* The steps that touch neither the deque nor its history.
LEMMA OrderKept ==
  ASSUME OrderInv,
         UNCHANGED <<tasks, pushed, popped, ran, cur, todo, waiting, tasksProcessed,
                     exitThread, before, poppedAtPush, poppedAtWait>>,
         UNCHANGED worker \/ (worker' = "run" /\ worker = "runPost")
            \/ (worker' \in {"pop", "exited"} /\ worker = "semwait"
                  /\ (worker' = "exited" => exitThread)),
         \/ UNCHANGED <<pc, event>>
         \/ UNCHANGED event /\ pc[Owner] = "post" /\ pc'[Owner] = "idle"
         \/ UNCHANGED event /\ pc[Owner] = "waitPost" /\ pc'[Owner] = "waitEvent"
         \/ UNCHANGED event /\ pc[Owner] = "stopPost" /\ pc'[Owner] = "join"
         \/ event /\ ~event' /\ pc[Owner] = "waitEvent" /\ pc'[Owner] = "waitRead"
         \/ UNCHANGED event /\ pc[Owner] = "waitRead" /\ pc'[Owner] = "idle"
         \/ UNCHANGED event /\ pc[Owner] = "join" /\ pc'[Owner] = "freed" /\ worker = "exited"
         \/ UNCHANGED event /\ pc'[Owner] = pc[Owner]
  PROVE  OrderInv'
<1>1. InOrder'
  BY DEF OrderInv, InOrder, Running, One
<1>2. Plain' = Plain /\ \A s : With(s)' = With(s)
  BY DEF Plain, With
<1>3. Running' = Running /\ \A s : Runs(s)' = Runs(s)
  BY DEF Running, Runs
<1>4. (worker' = "exited" => exitThread') /\ (Answered' = Answered)
  BY DEF OrderInv, Phases, Answered
<1>5. Phases'
  BY <1>2, <1>3, <1>4
     DEF OrderInv, Phases, Quiet, WaitQueued, WaitTaken, StopQueued, StopTaken, NoneRuns
<1> QED
  BY <1>1, <1>5 DEF OrderInv

LEMMA PostOrder ==
  ASSUME IInv, OrderInv,
         (\E c \in Clients : QueueTaskPost(c)) \/ FinishOwner
  PROVE  OrderInv'
<1>1. /\ UNCHANGED <<tasks, pushed, popped, ran, cur, todo, waiting, tasksProcessed,
                     exitThread, before, poppedAtPush, poppedAtWait, worker>>
  BY DEF FinishOwner, QueueTaskPost, WaitPost, WaitEvent, WaitRead, DestroyPost, DestroyJoin,
         workerVars, history, waitHistory, queueVars
<1>2. /\ pc \in [Clients -> ClientStates] /\ Owner \in Clients
  BY TaskQueueAssumption DEF IInv, TypeOK
<1>3. CASE \E c \in Clients : QueueTaskPost(c)
  BY <1>1, <1>2, <1>3, OrderKept DEF QueueTaskPost
<1>4. CASE FinishOwner
  BY <1>1, <1>2, <1>4, OrderKept
     DEF FinishOwner, WaitPost, WaitEvent, WaitRead, DestroyPost, DestroyJoin, queueVars
<1> QED
  BY <1>3, <1>4

LEMMA WorkerPostOrder ==
  ASSUME IInv, OrderInv, WorkerTop \/ RunQueueTaskPost
  PROVE  OrderInv'
<1>1. /\ UNCHANGED <<tasks, pushed, popped, ran, cur, todo, waiting, tasksProcessed,
                     exitThread, before, poppedAtPush, poppedAtWait, pc, event>>
  BY DEF WorkerTop, RunQueueTaskPost, history, waitHistory
<1>2. \/ worker' = "run" /\ worker = "runPost"
      \/ worker' \in {"pop", "exited"} /\ worker = "semwait" /\ (worker' = "exited" => exitThread)
  BY DEF WorkerTop, RunQueueTaskPost, MustExit
<1> QED
  BY <1>1, <1>2, OrderKept

\* The owner pushes its special task when there is none.
LEMMA SpecialKeeps ==
  ASSUME IInv, OrderInv, NEW s \in {WAIT, STOP}, Plain, tasks' = Append(tasks, s),
         UNCHANGED <<pushed, popped, ran, cur, todo, worker>>
  PROVE  With(s)' /\ InOrder'
<1>1. /\ tasks \in Seq(Entries) /\ pushed \in Seq(Tasks) /\ popped \in Nat
  BY DEF IInv, TypeOK
<1>2. /\ RestWith(tasks', pushed', popped', s, Len(tasks) + 1)
      /\ Len(tasks) + 1 \in 1 .. Len(tasks')
  BY <1>1, RestSpecial DEF Plain
<1>3. With(s)'
  BY <1>2 DEF With
<1>4. InOrder'
  BY DEF OrderInv, InOrder, Running, One
<1> QED
  BY <1>3, <1>4

LEMMA WaitPushOrder == ASSUME IInv, OrderInv, WaitPush PROVE OrderInv'
<1>1. Plain /\ NoneRuns /\ ~event /\ ~exitThread /\ popped \in Nat
  BY DEF WaitPush, OrderInv, Phases, Quiet, IInv, TypeOK
<1>2. UNCHANGED <<pushed, popped, ran, cur, todo, worker, event, exitThread>>
  BY DEF WaitPush, workerVars
<1>3. With(WAIT)' /\ InOrder'
  BY <1>1, <1>2, SpecialKeeps DEF WaitPush, Push
<1>4. WaitQueued'
  BY <1>1, <1>2, <1>3 DEF WaitPush, StartWaiting, WaitQueued, NoneRuns, Runs, Running
<1>5. pc'[Owner] = "waitPost"
  BY TaskQueueAssumption DEF WaitPush, IInv, TypeOK
<1>6. worker' = "exited" => exitThread'
  BY <1>2 DEF OrderInv, Phases
<1> QED
  BY <1>3, <1>4, <1>5, <1>6 DEF OrderInv, Phases

LEMMA DestroyPushOrder == ASSUME IInv, OrderInv, DestroyPush PROVE OrderInv'
<1>1. Plain /\ NoneRuns /\ ~event /\ ~exitThread
  BY DEF DestroyPush, OrderInv, Phases, Quiet
<1>2. UNCHANGED <<pushed, popped, ran, cur, todo, worker, event, exitThread>>
  BY DEF DestroyPush, workerVars, history
<1>3. With(STOP)' /\ InOrder'
  BY <1>1, <1>2, SpecialKeeps DEF DestroyPush, Push
<1>4. StopQueued'
  BY <1>1, <1>2, <1>3 DEF StopQueued, NoneRuns, Runs, Running
<1>5. pc'[Owner] = "stopPost"
  BY TaskQueueAssumption DEF DestroyPush, IInv, TypeOK
<1>6. worker' = "exited" => exitThread'
  BY <1>2 DEF OrderInv, Phases
<1> QED
  BY <1>3, <1>4, <1>5, <1>6 DEF OrderInv, Phases

\* ti.task(ti.param) returns: what was popped has run.
LEMMA RunReturnOrder == ASSUME IInv, OrderInv, RunReturn PROVE OrderInv'
<1>1. /\ worker = "run" /\ worker' = "semwait" /\ Running /\ ~Running' /\ todo = {}
      /\ UNCHANGED <<tasks, waiting, tasksProcessed, todo, pc, pushed, popped, before,
                     poppedAtPush, poppedAtWait>>
      /\ event' = (event \/ cur = WAIT) /\ exitThread' = (exitThread \/ cur = STOP)
  BY DEF RunReturn, Running, waitHistory
<1>2. /\ ran \in Seq(Tasks) /\ Len(ran) \in Nat /\ pushed \in Seq(Tasks) /\ popped \in Nat
      /\ event \in BOOLEAN /\ exitThread \in BOOLEAN
  BY DEF IInv, TypeOK
<1>3. InOrder'
  <2>1. CASE cur \in Tasks
    <3>1. ran' = Append(ran, cur) /\ popped = Len(ran) + 1 /\ cur = pushed[popped]
      BY <1>1, <2>1 DEF RunReturn, OrderInv, InOrder, One
    <3>2. /\ Len(ran') = Len(ran) + 1
          /\ \A i \in 1 .. Len(ran) + 1 : ran'[i] = IF i <= Len(ran) THEN ran[i] ELSE cur
      BY <1>2, <2>1, <3>1, AppendProperties
    <3>3. popped' <= Len(pushed') /\ popped' = Len(ran')
      BY <1>1, <3>1, <3>2 DEF OrderInv, InOrder
    <3>4. \A i \in 1 .. Len(ran') : i <= Len(pushed') /\ ran'[i] = pushed'[i]
      BY <1>1, <1>2, <3>1, <3>2, <3>3 DEF OrderInv, InOrder
    <3> QED
      BY <1>1, <1>2, <3>3, <3>4 DEF InOrder, One
  <2>2. CASE cur \notin Tasks
    BY <1>1, <1>2, <2>2 DEF RunReturn, OrderInv, InOrder, One
  <2> QED
    BY <2>1, <2>2
<1>4. Len(ran) <= Len(ran') /\ Len(ran') \in Nat
  BY <1>2, AppendProperties DEF RunReturn
<1>5. Plain' = Plain /\ \A s : With(s)' = With(s)
  BY <1>1 DEF Plain, With
<1>6. Answered => Answered'
  BY <1>1, <1>2, <1>4 DEF Answered, IInv, TypeOK
<1>7. ~Runs(WAIT)' /\ ~Runs(STOP)' /\ NoneRuns'
  BY <1>1 DEF Runs, NoneRuns
<1>8. WAIT # STOP
  BY DEF WAIT, STOP
<1>9. /\ Quiet => Quiet'
      /\ WaitQueued => WaitQueued'
      /\ WaitTaken => WaitTaken'
      /\ StopQueued => StopQueued'
      /\ StopTaken => StopTaken'
  BY <1>1, <1>2, <1>5, <1>6, <1>7, <1>8
     DEF Quiet, WaitQueued, WaitTaken, StopQueued, StopTaken, NoneRuns, Runs
<1>10. Phases'
  BY <1>1, <1>6, <1>9 DEF OrderInv, Phases
<1> QED
  BY <1>3, <1>10 DEF OrderInv

\* An ordinary task is popped: it is the next of what was pushed.
LEMMA OrdinaryPopped ==
  ASSUME IInv, InOrder, WorkerPop, PopTask(tasks).ti \in Tasks,
         popped + 1 \in 1 .. Len(pushed), PopTask(tasks).ti = pushed[popped + 1]
  PROVE  /\ InOrder' /\ NoneRuns' /\ popped' = popped + 1
         /\ waiting' = waiting /\ tasksProcessed' = (tasksProcessed \/ waiting)
         /\ UNCHANGED <<event, exitThread, pc, ran, before, poppedAtPush, poppedAtWait>>
<1> DEFINE x == PopTask(tasks).ti
<1>1. /\ cur' = x /\ worker' = "run" /\ worker = "pop" /\ popped' = popped + 1
      /\ waiting' = (waiting /\ x # WAIT)
      /\ tasksProcessed' = (tasksProcessed \/ (waiting /\ x # WAIT))
      /\ poppedAtWait' = IF x = WAIT THEN popped ELSE poppedAtWait
      /\ before' = IF x = WAIT THEN Len(pushed) ELSE before
      /\ UNCHANGED <<event, exitThread, pc, pushed, ran, poppedAtPush>>
  BY DEF WorkerPop
<1>2. x \in Tasks /\ x # WAIT /\ x # STOP /\ x = pushed[popped + 1]
  BY TaskQueueAssumption
<1> HIDE DEF x
<1>3. waiting \in BOOLEAN /\ tasksProcessed \in BOOLEAN /\ popped \in Nat /\ Len(ran) \in Nat
      /\ Len(pushed) \in Nat
  BY DEF IInv, TypeOK
<1>4. popped = Len(ran)
  BY <1>1, <1>3 DEF InOrder, Running, One
<1>5. InOrder'
  <2>1. popped' = Len(ran') + One(TRUE) /\ popped' <= Len(pushed')
    BY <1>1, <1>3, <1>4 DEF One
  <2>2. (Running /\ cur \in Tasks)' /\ cur' = pushed'[popped']
    BY <1>1, <1>2 DEF Running
  <2> QED
    BY <1>1, <2>1, <2>2 DEF InOrder, One
<1> QED
  BY <1>1, <1>2, <1>3, <1>5 DEF NoneRuns, Runs

LEMMA WorkerPopOrder == ASSUME IInv, OrderInv, WorkerPop PROVE OrderInv'
<1>1. tasks \in Seq(Entries) /\ tasks # <<>>
  BY PostersFinite, EmptySeq DEF IInv, TypeOK, SemCountsTasks, WorkerPop, One
<1>2. /\ pushed \in Seq(Tasks) /\ popped \in Nat /\ Len(ran) \in Nat /\ Len(pushed) \in Nat
      /\ waiting \in BOOLEAN /\ tasksProcessed \in BOOLEAN /\ event \in BOOLEAN
      /\ poppedAtPush \in Nat /\ exitThread \in BOOLEAN /\ pc[Owner] \in ClientStates
  BY TaskQueueAssumption DEF IInv, TypeOK
<1>3. /\ worker = "pop" /\ worker' = "run" /\ ~Running /\ Running' /\ InOrder
      /\ tasks' = PopTask(tasks).rest /\ cur' = PopTask(tasks).ti
      /\ UNCHANGED <<event, exitThread, pc, pushed, ran, poppedAtPush>>
  BY DEF WorkerPop, Running, OrderInv
<1>4. popped = Len(ran)
  BY <1>2, <1>3 DEF InOrder, Running, One
<1>5. ~StopTaken /\ WAIT # STOP
  BY <1>1 DEF StopTaken, WAIT, STOP
<1>6. ASSUME Plain
      PROVE  /\ InOrder' /\ NoneRuns' /\ Plain'
             /\ waiting' = waiting /\ tasksProcessed' = (tasksProcessed \/ waiting)
             /\ UNCHANGED <<event, exitThread, pc, ran, before, poppedAtPush, poppedAtWait>>
  <2>1. /\ PopTask(tasks).ti = pushed[popped + 1] /\ popped + 1 \in 1 .. Len(pushed)
        /\ pushed[popped + 1] \in Tasks /\ Rest(PopTask(tasks).rest, pushed, popped + 1)
    BY <1>1, <1>2, <1>6, RestPop DEF Plain
  <2>2. /\ InOrder' /\ NoneRuns' /\ popped' = popped + 1
        /\ waiting' = waiting /\ tasksProcessed' = (tasksProcessed \/ waiting)
        /\ UNCHANGED <<event, exitThread, pc, ran, before, poppedAtPush, poppedAtWait>>
    BY <1>3, <2>1, OrdinaryPopped
  <2>3. Plain'
    BY <1>3, <2>1, <2>2 DEF Plain
  <2> QED
    BY <2>2, <2>3
<1>7. ASSUME NEW s \in {WAIT, STOP}, With(s)
      PROVE  \/ /\ InOrder' /\ NoneRuns' /\ With(s)' /\ popped' = popped + 1
                /\ waiting' = waiting /\ tasksProcessed' = (tasksProcessed \/ waiting)
                /\ UNCHANGED <<event, exitThread, pc, ran, before, poppedAtPush, poppedAtWait>>
             \/ /\ InOrder' /\ PopTask(tasks).ti = s /\ PopTask(tasks).rest = <<>>
                /\ popped = Len(pushed) /\ Plain' /\ Runs(s)' /\ popped' = popped /\ ran' = ran
  <2>0. PICK k \in 1 .. Len(tasks) : RestWith(tasks, pushed, popped, s, k)
    BY <1>7 DEF With
  <2>1. CASE /\ PopTask(tasks).ti = pushed[popped + 1] /\ popped + 1 \in 1 .. Len(pushed)
             /\ pushed[popped + 1] \in Tasks
             /\ \E j \in 1 .. Len(PopTask(tasks).rest) :
                   RestWith(PopTask(tasks).rest, pushed, popped + 1, s, j)
    <3>1. /\ InOrder' /\ NoneRuns' /\ popped' = popped + 1
          /\ waiting' = waiting /\ tasksProcessed' = (tasksProcessed \/ waiting)
          /\ UNCHANGED <<event, exitThread, pc, ran, before, poppedAtPush, poppedAtWait>>
      BY <1>3, <2>1, OrdinaryPopped
    <3>2. With(s)'
      BY <1>3, <2>1, <3>1 DEF With
    <3> QED
      BY <3>1, <3>2
  <2>2. CASE PopTask(tasks).ti = s /\ PopTask(tasks).rest = <<>> /\ popped = Len(pushed)
    <3>1. s \notin Tasks
      BY TaskQueueAssumption
    <3>2. popped' = popped /\ todo' = {} /\ cur' = s /\ tasks' = <<>> /\ ran' = ran
          /\ pushed' = pushed /\ worker' = "run"
      BY <2>2, <3>1 DEF WorkerPop
    <3>3. Plain'
      BY <1>2, <2>2, <3>2 DEF Plain, Rest
    <3>4. InOrder'
      BY <1>2, <1>3, <1>4, <3>1, <3>2 DEF InOrder, One
    <3> QED
      BY <1>3, <2>2, <3>2, <3>3, <3>4 DEF Runs
  <2>3. \/ /\ PopTask(tasks).ti = pushed[popped + 1] /\ popped + 1 \in 1 .. Len(pushed)
           /\ pushed[popped + 1] \in Tasks
           /\ \E j \in 1 .. Len(PopTask(tasks).rest) :
                 RestWith(PopTask(tasks).rest, pushed, popped + 1, s, j)
        \/ PopTask(tasks).ti = s /\ PopTask(tasks).rest = <<>> /\ popped = Len(pushed)
    <3>1. ASSUME NEW q \in Seq(Entries), NEW u \in Seq(Tasks), NEW p \in Nat,
                 NEW j \in 1 .. Len(q), RestWith(q, u, p, s, j)
          PROVE  \/ /\ PopTask(q).ti = u[p + 1] /\ p + 1 \in 1 .. Len(u) /\ u[p + 1] \in Tasks
                    /\ \E i \in 1 .. Len(PopTask(q).rest) : RestWith(PopTask(q).rest, u, p + 1, s, i)
                 \/ PopTask(q).ti = s /\ PopTask(q).rest = <<>> /\ p = Len(u)
      BY <3>1, RestWithPop
    <3> QED
      BY <1>1, <1>2, <2>0, <3>1
  <2> QED
    BY <2>1, <2>2, <2>3, Zenon
<1>8. CASE pc[Owner] \in {"idle", "post", "waitRead"}
  <2>1. Quiet
    BY <1>8 DEF OrderInv, Phases
  <2>2. Quiet' /\ InOrder' /\ pc' = pc /\ worker' = "run"
    BY <1>3, <1>6, <2>1 DEF Quiet
  <2>3. Answered => Answered'
    BY <1>2, <1>6, <2>1 DEF Quiet, Answered
  <2> QED
    BY <1>8, <2>2, <2>3 DEF OrderInv, Phases
<1>9. CASE pc[Owner] \in {"waitPost", "waitEvent"}
  <2>1. WaitQueued \/ WaitTaken
    BY <1>9 DEF OrderInv, Phases
  <2>2. CASE WaitTaken
    <3>1. Plain /\ Answered /\ ~exitThread /\ event
      BY <1>3, <2>2 DEF WaitTaken, Runs
    <3>2. Answered'
      BY <1>2, <1>6, <3>1 DEF Answered
    <3>3. WaitTaken' /\ InOrder' /\ pc' = pc
      BY <1>6, <3>1, <3>2 DEF WaitTaken, NoneRuns
    <3> QED
      BY <1>3, <1>9, <3>3 DEF OrderInv, Phases
  <2>3. CASE WaitQueued
    <3>0. /\ With(WAIT) /\ waiting /\ popped >= poppedAtPush /\ ~event /\ ~exitThread
          /\ tasksProcessed <=> popped > poppedAtPush
      BY <2>3 DEF WaitQueued
    <3>1. CASE /\ InOrder' /\ NoneRuns' /\ With(WAIT)' /\ popped' = popped + 1
               /\ waiting' = waiting /\ tasksProcessed' = (tasksProcessed \/ waiting)
               /\ UNCHANGED <<event, exitThread, pc, ran, before, poppedAtPush, poppedAtWait>>
      <4>1. tasksProcessed' /\ waiting'
        BY <3>0, <3>1
      <4>2. popped' > poppedAtPush'
        BY <1>2, <3>0, <3>1
      <4>3. popped' >= poppedAtPush'
        BY <1>2, <1>3, <3>1, <4>2
      <4>4. With(WAIT)' /\ NoneRuns' /\ ~event' /\ ~exitThread'
        BY <3>0, <3>1
      <4>5. WaitQueued'
        BY <4>1, <4>2, <4>3, <4>4, Zenon DEF WaitQueued
      <4> QED
        BY <1>3, <1>9, <3>1, <4>5 DEF OrderInv, Phases
    <3>2. CASE /\ InOrder' /\ PopTask(tasks).ti = WAIT /\ PopTask(tasks).rest = <<>>
               /\ popped = Len(pushed) /\ Plain' /\ Runs(WAIT)' /\ popped' = popped /\ ran' = ran
      <4>1. /\ ~waiting' /\ before' = Len(pushed) /\ poppedAtWait' = popped
            /\ tasksProcessed' = tasksProcessed /\ poppedAtPush' = poppedAtPush
        BY <1>2, <3>2 DEF WorkerPop
      <4>2. before' <= Len(ran')
        <5>1. before' = popped /\ popped = Len(ran) /\ ran' = ran
          BY <1>4, <3>2, <4>1, Zenon
        <5>2. popped <= popped
          BY <1>2
        <5> QED
          BY <5>1, <5>2, Zenon
      <4>3. tasksProcessed' <=> poppedAtWait' > poppedAtPush'
        BY <3>0, <4>1, Zenon
      <4>4. Answered'
        BY <4>1, <4>2, <4>3, Zenon DEF Answered
      <4>5. ~Runs(STOP)'
        BY <1>5, <3>2 DEF Runs
      <4>6. WaitTaken'
        BY <1>3, <3>0, <3>2, <4>4, <4>5 DEF WaitTaken
      <4> QED
        BY <1>3, <1>9, <3>2, <4>6 DEF OrderInv, Phases
    <3> QED
      BY <1>7, <3>0, <3>1, <3>2
  <2> QED
    BY <2>1, <2>2, <2>3
<1>10. CASE pc[Owner] \in {"stopPost", "join"}
  <2>1. StopQueued
    BY <1>5, <1>10 DEF OrderInv, Phases
  <2>2. CASE /\ InOrder' /\ NoneRuns' /\ With(STOP)'
             /\ UNCHANGED <<event, exitThread, pc>>
    BY <1>3, <1>10, <2>1, <2>2 DEF OrderInv, Phases, StopQueued
  <2>3. CASE /\ InOrder' /\ PopTask(tasks).ti = STOP /\ PopTask(tasks).rest = <<>>
             /\ popped = Len(pushed) /\ Runs(STOP)' /\ popped' = popped
    <3>1. StopTaken'
      BY <1>3, <2>1, <2>3 DEF StopTaken, StopQueued
    <3> QED
      BY <1>3, <1>10, <2>3, <3>1 DEF OrderInv, Phases
  <2> QED
    BY <1>7, <2>1, <2>2, <2>3 DEF StopQueued
<1>11. CASE pc[Owner] = "freed"
  BY <1>5, <1>11 DEF OrderInv, Phases
<1> QED
  BY <1>2, <1>8, <1>9, <1>10, <1>11 DEF ClientStates

LEMMA OrderStep == IInv /\ OrderInv /\ [Next]_vars => OrderInv'
<1> SUFFICES ASSUME IInv, OrderInv, [Next]_vars PROVE OrderInv'
  OBVIOUS
<1>1. CASE \E c \in Clients, t \in Tasks : QueueTask(c, t)
  BY <1>1, QueueTaskOrder
<1>2. CASE (\E c \in Clients : Finish(c)) \/ FinishOwner
  BY <1>2, PostOrder DEF Finish
<1>3. CASE WaitPush
  BY <1>3, WaitPushOrder
<1>4. CASE DestroyPush
  BY <1>4, DestroyPushOrder
<1>5. CASE Worker
  BY <1>5, WorkerPostOrder, WorkerPopOrder, RunQueueTaskOrder, RunReturnOrder DEF Worker
<1>6. CASE UNCHANGED vars
  BY <1>6, OrderKept DEF vars, queueVars, workerVars, history, waitHistory
<1> QED
  BY <1>1, <1>2, <1>3, <1>4, <1>5, <1>6 DEF Next

\* A sequence that agrees with another as far as it goes is its beginning.
LEMMA IsPrefixOf ==
  ASSUME NEW S, NEW u \in Seq(S), NEW r \in Seq(S), Len(r) <= Len(u),
         \A i \in 1 .. Len(r) : r[i] = u[i]
  PROVE  r = SubSeq(u, 1, Len(r)) /\ (Len(r) = Len(u) => r = u)
<1>1. Len(r) \in Nat /\ Len(u) \in Nat
  OBVIOUS
<1> DEFINE n == Len(r)
           v == SubSeq(u, 1, n)
<1>2. /\ v \in Seq(S) /\ Len(v) = n /\ \A i \in 1 .. n : v[i] = u[i]
  <2>1. n \in Nat /\ n <= Len(u)
    BY <1>1
  <2> HIDE DEF n
  <2>2. CASE n = 0
    BY <2>1, <2>2, SubSeqProperties
  <2>3. CASE n > 0
    BY <1>1, <2>1, <2>3, SubSeqProperties
  <2> QED
    BY <2>1, <2>2, <2>3
<1> HIDE DEF v
<1>3. r = v
  BY <1>2, SeqEqual
<1>4. n = Len(u) => r = u
  BY SeqEqual
<1> QED
  BY <1>3, <1>4 DEF v

\* Ordinary tasks finish in the order they were pushed, and the thread ends with
\* none left, whatever the threads, the tasks and what the tasks queue in turn
\* (tiny_tubular_task_thread, os_task_queue_destroy).
THEOREM TasksRunInOrder == Spec => []RunsInOrder
<1>1. IInv /\ OrderInv => RunsInOrder
  <2> SUFFICES ASSUME IInv, OrderInv PROVE RunsInOrder
    OBVIOUS
  <2>1. /\ pushed \in Seq(Tasks) /\ ran \in Seq(Tasks) /\ popped \in Nat
        /\ Len(ran) \in Nat /\ Len(pushed) \in Nat /\ pc[Owner] \in ClientStates
    BY TaskQueueAssumption DEF IInv, TypeOK
  <2>2. /\ Len(ran) <= popped /\ popped <= Len(pushed)
        /\ \A i \in 1 .. Len(ran) : ran[i] = pushed[i]
    BY <2>1 DEF OrderInv, InOrder, One
  <2>3. ran = SubSeq(pushed, 1, Len(ran)) /\ (Len(ran) = Len(pushed) => ran = pushed)
    BY <2>1, <2>2, IsPrefixOf
  <2>4. ASSUME worker = "exited" PROVE tasks = <<>> /\ ran = pushed
    <3>1. exitThread /\ ~Running
      BY <2>4 DEF OrderInv, Phases, Running
    <3>2. StopTaken
      BY <2>1, <3>1
         DEF OrderInv, Phases, ClientStates, Quiet, WaitQueued, WaitTaken, StopQueued
    <3>3. popped = Len(ran)
      BY <2>1, <3>1 DEF OrderInv, InOrder, One
    <3> QED
      BY <2>3, <3>2, <3>3 DEF StopTaken
  <2> QED
    BY <2>1, <2>2, <2>3, <2>4 DEF RunsInOrder
<1> QED
  BY InitInv, NextInv, OrderInit, OrderStep, <1>1, PTL DEF Spec

\* os_task_queue_wait is a flush, and what it returns tells whether it flushed
\* anything (os_task_queue_wait, the wait task in tiny_tubular_task_thread).
THEOREM WaitIsAFlush == Spec => []WaitFlushes
<1>1. IInv /\ OrderInv => WaitFlushes
  BY DEF OrderInv, Phases, Answered, WaitFlushes
<1> QED
  BY InitInv, NextInv, OrderInit, OrderStep, <1>1, PTL DEF Spec
=============================================================================
