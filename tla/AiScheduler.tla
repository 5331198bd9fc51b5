---------------------------- MODULE AiScheduler ----------------------------
(***************************************************************************)
(* kernel/ai-scheduler-main.c: priority queues of inference tasks, a pool  *)
(* of worker threads, a watchdog, synchronous and asynchronous submission, *)
(* query, cancellation and module unload.                                  *)
(*                                                                         *)
(* A step is what the code does between two points where another thread    *)
(* can observe or disturb it: one critical section, or the unlocked stores *)
(* up to the next such point.  Task structures are the elements of Task;   *)
(* each is allocated once, so the reuse of freed memory is not represented *)
(* as a new task but as the outcome "stale" of an access to freed memory.  *)
(***************************************************************************)
EXTENDS TaskTrackOps, FiniteSets, SequencesExt

CONSTANTS
  Task,        \* the struct ai_task objects kzalloc can return
  Caller,      \* processes that submit
  Worker,      \* workers[AI_SCHED_THREAD_POOL]
  NoTask,      \* the NULL pointer
  Realtime,    \* AI_PRIO_REALTIME, the highest queue index
  Capacity     \* queue_capacity[]

Prio == 0..Realtime

ASSUME SchedAssumption ==
  /\ Realtime \in Nat
  /\ Capacity \in [Prio -> Nat \ {0}]
  /\ NoTask \notin Task
  /\ IsFiniteSet(Caller)

VARIABLES
  phase,     \* g_sched: running; unloading; watchdog cancelled; freed
  crash,     \* auxiliary: the first access the code had no right to make
  task,      \* contents of the task structures
  queue,     \* queues[p].queue; queues[p].count is its length
  nextId,    \* next_task_id
  late,      \* the deadlines of the tasks with ids 1..late have passed
  caller,    \* program counter of each submitter, its task, what it was told
  worker,    \* program counter, local variable task, published current_task
  watchdog,  \* the worker and task watchdog_callback is acting on
  track,     \* task_track[] and track_evict_idx
  query,     \* the ai_sched_query call in progress
  drain      \* the loop of ai_scheduler_exit over the queues

vars == <<phase, crash, task, queue, nextId, late, caller, worker, watchdog,
          track, query, drain>>

-----------------------------------------------------------------------------
(* State *)

Phase == {"running", "exiting", "stopping", "gone"}

Crash == {"none", "stale", "doublefree", "unloaded"}

\* prio is task->priority, want the req.priority the caller asked for.
TaskRecord ==
  [mem: {"none", "live", "freed"}, id: Nat, async: BOOLEAN, prio: Prio,
   want: Prio, status: Status, resp: Status, done: BOOLEAN]

CallerRecord ==
  [pc: {"idle", "checked", "stamped", "linked", "waiting"},
   t: Task \cup {NoTask}]

\* cur stands for current_task together with busy: the two are stored in
\* adjacent statements and every reader requires both.
WorkerRecord ==
  [pc: {"idle", "got", "run", "filled", "signalled", "released", "stopped"},
   t: Task \cup {NoTask}, cur: Task \cup {NoTask}]

WatchdogRecord == [w: Worker \cup {NoTask}, t: Task \cup {NoTask}]

QueryRecord == [pc: {"idle", "queues", "workers"}, id: Nat]

\* next is the loop's i.  History: strayed holds the tasks that were linked
\* into a queue which the loop had already emptied.
DrainRecord == [next: 0..(Realtime + 1), strayed: SUBSET Task]

Unallocated ==
  [mem |-> "none", id |-> 0, async |-> FALSE, prio |-> 0, want |-> 0,
   status |-> "PENDING", resp |-> "PENDING", done |-> FALSE]

IdleCaller == [pc |-> "idle", t |-> NoTask]
IdleWorker == [pc |-> "idle", t |-> NoTask, cur |-> NoTask]
IdleWatchdog == [w |-> NoTask, t |-> NoTask]
IdleQuery == [pc |-> "idle", id |-> 0]
NoDrain == [next |-> 0, strayed |-> {}]

\* ai_scheduler_init has returned 0.
Init ==
  /\ phase = "running"
  /\ crash = "none"
  /\ task = [t \in Task |-> Unallocated]
  /\ queue = [p \in Prio |-> <<>>]
  /\ nextId = 0
  /\ late = 0
  /\ caller = [c \in Caller |-> IdleCaller]
  /\ worker = [w \in Worker |-> IdleWorker]
  /\ watchdog = IdleWatchdog
  /\ track = EmptyTrack
  /\ query = IdleQuery
  /\ drain = NoDrain

\* After the first wrong access nothing more is claimed: every step needs Up.
Up == crash = "none"

Freed(t) == t \in Task /\ task[t].mem = "freed"

\* kfree(task): the second one of the same object corrupts the allocator.
CrashOfFree(t) == IF Freed(t) THEN "doublefree" ELSE crash

-----------------------------------------------------------------------------
(* Submission: ai_sched_submit, ai_sched_submit_async, enqueue_task *)

\* priority_to_queue: clamps into the range of the queues.
priority_to_queue(prio) ==
  IF prio > Realtime THEN Realtime ELSE IF prio < 0 THEN 0 ELSE prio

\* The task as kzalloc and the stores before enqueue_task leave it: neither
\* submit function assigns task->priority, so it keeps kzalloc's zero.
NewTask(async, want) ==
  [Unallocated EXCEPT !.mem = "live", !.async = async, !.want = want]

\* The unlocked test of enqueue_task: atomic_read(&pq->count) >= pq->capacity.
QueueFull(p) == Len(queue[p]) >= Capacity[p]

\* Faulty variant: the capacity is not tested.
SubmitBeginUnchecked(c, t, async, want) ==
  /\ Up
  /\ phase = "running"
  /\ caller[c].pc = "idle"
  /\ task[t].mem = "none"
  /\ task' = [task EXCEPT ![t] = NewTask(async, want)]
  /\ caller' = [caller EXCEPT ![c] = [pc |-> "checked", t |-> t]]
  /\ UNCHANGED <<phase, crash, queue, nextId, late, worker, watchdog, track, query, drain>>

\* From the test of running to the test of the capacity.  The early returns
\* (not running, no memory, queue full) leave no trace: a task that was
\* allocated is freed before anyone else has seen it.
SubmitBegin(c, t, async, want) ==
  /\ Up
  /\ phase = "running"
  /\ caller[c].pc = "idle"
  /\ task[t].mem = "none"
  /\ ~QueueFull(priority_to_queue(NewTask(async, want).prio))
  /\ task' = [task EXCEPT ![t] = NewTask(async, want)]
  /\ caller' = [caller EXCEPT ![c] = [pc |-> "checked", t |-> t]]
  /\ UNCHANGED <<phase, crash, queue, nextId, late, worker, watchdog, track, query, drain>>

\* alloc_task_id, status, enqueue_time and deadline: before the queue lock.
EnqueueStamp(c) ==
  /\ Up
  /\ caller[c].pc = "checked"
  /\ phase # "gone"
  /\ nextId' = nextId + 1
  /\ task' = [task EXCEPT ![caller[c].t].id = nextId', ![caller[c].t].status = "PENDING"]
  /\ caller' = [caller EXCEPT ![c].pc = "stamped"]
  /\ UNCHANGED <<phase, crash, queue, late, worker, watchdog, track, query, drain>>

\* The critical section of enqueue_task.
EnqueueLink(c) ==
  LET t == caller[c].t
      p == priority_to_queue(task[t].prio)
  IN  /\ Up
      /\ caller[c].pc = "stamped"
      /\ phase # "gone"
      /\ queue' = [queue EXCEPT ![p] = Append(@, t)]
      /\ caller' = [caller EXCEPT ![c].pc = IF task[t].async THEN "linked" ELSE "waiting"]
      /\ drain' = [drain EXCEPT !.strayed = IF p < drain.next THEN @ \cup {t} ELSE @]
      /\ UNCHANGED <<phase, crash, task, nextId, late, worker, watchdog, track, query>>

\* ai_sched_submit_async reads task->task_id for its caller and returns.
AsyncReturn(c) ==
  /\ Up
  /\ caller[c].pc = "linked"
  /\ caller' = [caller EXCEPT ![c] = IdleCaller]
  /\ UNCHANGED <<phase, crash, task, queue, nextId, late, worker, watchdog, track, query, drain>>

\* ai_sched_submit after the wait: copy the response, free the task.
SubmitReap(c) ==
  LET t == caller[c].t
  IN  /\ Up
      /\ crash' = CrashOfFree(t)
      /\ task' = [task EXCEPT ![t].mem = "freed"]
      /\ caller' = [caller EXCEPT ![c] = IdleCaller]
      /\ UNCHANGED <<phase, queue, nextId, late, worker, watchdog, track, query, drain>>

\* wait_for_completion_interruptible returns because of complete_all ...
WaitDone(c) == caller[c].pc = "waiting" /\ task[caller[c].t].done /\ SubmitReap(c)

\* ... or because of a signal; its return value is not looked at.
WaitInterrupted(c) == caller[c].pc = "waiting" /\ ~task[caller[c].t].done /\ SubmitReap(c)

-----------------------------------------------------------------------------
(* Worker threads: dequeue_task and ai_worker_thread *)

\* The queue the scan from high to low stops at.
HighestNonEmpty(p) == queue[p] # <<>> /\ \A q \in Prio : q > p => queue[q] = <<>>

\* Faulty variant: the head is looked at and not unlinked.
DequeuePeek(w, p) ==
  LET t == Head(queue[p])
  IN  /\ Up
      /\ worker[w].pc = "idle"
      /\ HighestNonEmpty(p)
      /\ task' = [task EXCEPT ![t].status = "RUNNING"]
      /\ worker' = [worker EXCEPT ![w].pc = "got", ![w].t = t]
      /\ UNCHANGED <<phase, crash, queue, nextId, late, caller, watchdog, track, query, drain>>

\* dequeue_task's critical section.
Dequeue(w, p) ==
  LET t == Head(queue[p])
  IN  /\ Up
      /\ worker[w].pc = "idle"
      /\ HighestNonEmpty(p)
      /\ queue' = [queue EXCEPT ![p] = Tail(@)]
      /\ task' = [task EXCEPT ![t].status = "RUNNING"]
      /\ worker' = [worker EXCEPT ![w].pc = "got", ![w].t = t]
      /\ UNCHANGED <<phase, crash, nextId, late, caller, watchdog, track, query, drain>>

\* current_task = task; busy = 1.
Publish(w) ==
  /\ Up
  /\ worker[w].pc = "got"
  /\ worker' = [worker EXCEPT ![w].pc = "run", ![w].cur = worker[w].t]
  /\ UNCHANGED <<phase, crash, task, queue, nextId, late, caller, watchdog, track, query, drain>>

\* Faulty variant: complete_all comes before the response is filled in.
FillAfterSignal(w) ==
  /\ Up
  /\ worker[w].pc = "run"
  /\ task' = [task EXCEPT ![worker[w].t].done = TRUE]
  /\ worker' = [worker EXCEPT ![w].pc = "filled"]
  /\ UNCHANGED <<phase, crash, queue, nextId, late, caller, watchdog, track, query, drain>>

\* The inference is over: the response is filled in (the counters follow it).
Fill(w) ==
  /\ Up
  /\ worker[w].pc = "run"
  /\ task' = [task EXCEPT ![worker[w].t].resp = "COMPLETED"]
  /\ worker' = [worker EXCEPT ![w].pc = "filled"]
  /\ UNCHANGED <<phase, crash, queue, nextId, late, caller, watchdog, track, query, drain>>

\* complete_all(&task->done).
Signal(w) ==
  /\ Up
  /\ worker[w].pc = "filled"
  /\ task' = [task EXCEPT ![worker[w].t].done = TRUE]
  /\ worker' = [worker EXCEPT ![w].pc = "signalled"]
  /\ UNCHANGED <<phase, crash, queue, nextId, late, caller, watchdog, track, query, drain>>

\* Faulty variant: is_async is not tested.
ReleaseAnyTask(t, status) ==
  /\ track' = TrackAdd(track, task[t].id, status)
  /\ task' = [task EXCEPT ![t].mem = "freed"]
  /\ crash' = CrashOfFree(t)

\* An asynchronous task is recorded in the tracking table and freed.
ReleaseTask(t, status) ==
  IF task[t].async
  THEN /\ track' = TrackAdd(track, task[t].id, status)
       /\ task' = [task EXCEPT ![t].mem = "freed"]
       /\ crash' = CrashOfFree(t)
  ELSE UNCHANGED <<track, task, crash>>

\* if (task->is_async) { ... }.
Release(w) ==
  /\ Up
  /\ worker[w].pc = "signalled"
  /\ ReleaseTask(worker[w].t, "COMPLETED")
  /\ worker' = [worker EXCEPT ![w].pc = "released"]
  /\ UNCHANGED <<phase, queue, nextId, late, caller, watchdog, query, drain>>

\* current_task = NULL; busy = 0; back to the head of the loop.
Clear(w) ==
  /\ Up
  /\ worker[w].pc = "released"
  /\ worker' = [worker EXCEPT ![w] = IdleWorker]
  /\ UNCHANGED <<phase, crash, task, queue, nextId, late, caller, watchdog, track, query, drain>>

WorkerStep(w) ==
  \/ \E p \in Prio : Dequeue(w, p)
  \/ Publish(w) \/ Fill(w) \/ Signal(w) \/ Release(w) \/ Clear(w)

-----------------------------------------------------------------------------
(* Watchdog: watchdog_callback, for one worker that is past its deadline *)

\* Time: AI_SCHED_MAX_RUNTIME_MS after its enqueue_time a task is late.
\* Deadlines are stamped in the order of the ids and pass in that order.
DeadlinePasses ==
  /\ Up
  /\ late < nextId
  /\ late' = late + 1
  /\ UNCHANGED <<phase, crash, task, queue, nextId, caller, worker, watchdog, track, query, drain>>

\* The stores up to total_tasks_timeout.  A callback that began before the
\* unload goes on while ai_scheduler_exit waits for it.
WatchdogFire(w) ==
  LET t == worker[w].cur
  IN  /\ Up
      /\ phase \in {"running", "exiting"}
      /\ watchdog = IdleWatchdog
      /\ t # NoTask
      /\ task[t].id <= late
      /\ task' = [task EXCEPT ![t].status = "FAILED", ![t].resp = "FAILED", ![t].done = TRUE]
      /\ watchdog' = [w |-> w, t |-> t]
      /\ UNCHANGED <<phase, crash, queue, nextId, late, caller, worker, track, query, drain>>

\* Record and free an asynchronous task, then busy = 0; current_task = NULL.
WatchdogRelease ==
  /\ Up
  /\ watchdog # IdleWatchdog
  /\ ReleaseTask(watchdog.t, "FAILED")
  /\ worker' = [worker EXCEPT ![watchdog.w].cur = NoTask]
  /\ watchdog' = IdleWatchdog
  /\ UNCHANGED <<phase, queue, nextId, late, caller, query, drain>>

-----------------------------------------------------------------------------
(* ai_sched_cancel and ai_sched_query *)

\* Faulty variant: the cancelled task is unlinked and nobody is woken.
CancelSilently(p, i) ==
  /\ Up
  /\ phase # "gone"
  /\ i \in DOMAIN queue[p]
  /\ queue' = [queue EXCEPT ![p] = RemoveAt(@, i)]
  /\ task' = [task EXCEPT ![queue[p][i]].status = "CANCELLED"]
  /\ UNCHANGED <<phase, crash, nextId, late, caller, worker, watchdog, track, query, drain>>

\* cancel_task: only a queued task is found.  Nothing but the task's own
\* status says so afterwards, and an asynchronous one is not freed.
Cancel(p, i) ==
  /\ Up
  /\ phase # "gone"
  /\ i \in DOMAIN queue[p]
  /\ queue' = [queue EXCEPT ![p] = RemoveAt(@, i)]
  /\ task' = [task EXCEPT ![queue[p][i]].status = "CANCELLED", ![queue[p][i]].done = TRUE]
  /\ UNCHANGED <<phase, crash, nextId, late, caller, worker, watchdog, track, query, drain>>

\* ai_sched_query looks into the tracking table, and returns what it takes
\* out of it, ...
QueryTrack(id) ==
  /\ Up
  /\ phase = "running"
  /\ query = IdleQuery
  /\ IF TrackFound(track, id)
     THEN track' = TrackTake(track, id) /\ UNCHANGED query
     ELSE query' = [pc |-> "queues", id |-> id] /\ UNCHANGED track
  /\ UNCHANGED <<phase, crash, task, queue, nextId, late, caller, worker, watchdog, drain>>

QueuedTasks == UNION {ToSet(queue[p]) : p \in Prio}

Waiting(id) == {t \in QueuedTasks : task[t].id = id}

Executing(id) == {w \in Worker : worker[w].cur # NoTask /\ task[worker[w].cur].id = id}

\* ... then into the queues, then at what the workers have published.
QueryMovesOn ==
  /\ Up
  /\ query.pc = "queues"
  /\ Waiting(query.id) = {}
  /\ phase # "gone"
  /\ query' = [query EXCEPT !.pc = "workers"]
  /\ UNCHANGED <<phase, crash, task, queue, nextId, late, caller, worker, watchdog, track, drain>>

\* The status of the waiting or executing task is copied out.
QueryHit ==
  /\ Up
  /\ \/ query.pc = "queues" /\ Waiting(query.id) # {}
     \/ query.pc = "workers" /\ Executing(query.id) # {}
  /\ phase # "gone"
  /\ query' = IdleQuery
  /\ UNCHANGED <<phase, crash, task, queue, nextId, late, caller, worker, watchdog, track, drain>>

\* -AI_ERR_INVALID_PARAM: not found.
QueryMiss ==
  /\ Up
  /\ query.pc = "workers"
  /\ Executing(query.id) = {}
  /\ phase # "gone"
  /\ query' = IdleQuery
  /\ UNCHANGED <<phase, crash, task, queue, nextId, late, caller, worker, watchdog, track, drain>>

-----------------------------------------------------------------------------
(* Unload: ai_scheduler_exit *)

\* running = false.
ExitBegin ==
  /\ Up
  /\ phase = "running"
  /\ phase' = "exiting"
  /\ UNCHANGED <<crash, task, queue, nextId, late, caller, worker, watchdog, track, query, drain>>

\* cancel_delayed_work_sync returns once the callback is not running.
ExitCancelWork ==
  /\ Up
  /\ phase = "exiting"
  /\ watchdog = IdleWatchdog
  /\ phase' = "stopping"
  /\ UNCHANGED <<crash, task, queue, nextId, late, caller, worker, watchdog, track, query, drain>>

\* kthread_stop: the worker leaves at the head of its loop.
WorkerStop(w) ==
  /\ Up
  /\ phase = "stopping"
  /\ worker[w].pc = "idle"
  /\ worker' = [worker EXCEPT ![w].pc = "stopped"]
  /\ UNCHANGED <<phase, crash, task, queue, nextId, late, caller, watchdog, track, query, drain>>

\* The critical section for one queue: every task in it is completed and
\* freed at once.  A submitter that has taken its id may get the lock later.
ExitDrain ==
  LET p == drain.next
  IN  /\ Up
      /\ phase = "stopping"
      /\ \A w \in Worker : worker[w].pc = "stopped"
      /\ p <= Realtime
      /\ crash' = IF \E t \in ToSet(queue[p]) : Freed(t) THEN "doublefree" ELSE crash
      /\ queue' = [queue EXCEPT ![p] = <<>>]
      /\ task' = [t \in Task |->
                    IF t \in ToSet(queue[p])
                    THEN [task[t] EXCEPT !.status = "CANCELLED", !.done = TRUE, !.mem = "freed"]
                    ELSE task[t]]
      /\ drain' = [drain EXCEPT !.next = p + 1]
      /\ UNCHANGED <<phase, nextId, late, caller, worker, watchdog, track, query>>

\* Faulty variant: the loop ends at i < AI_PRIO_REALTIME.
ExitFreeEarly ==
  /\ Up
  /\ phase = "stopping"
  /\ \A w \in Worker : worker[w].pc = "stopped"
  /\ drain.next >= Realtime
  /\ phase' = "gone"
  /\ UNCHANGED <<crash, task, queue, nextId, late, caller, worker, watchdog, track, query, drain>>

\* kfree(g_sched), after the last queue: nobody looks at the queues again.
ExitFree ==
  /\ Up
  /\ phase = "stopping"
  /\ drain.next > Realtime
  /\ phase' = "gone"
  /\ UNCHANGED <<crash, task, queue, nextId, late, caller, worker, watchdog, track, query, drain>>

-----------------------------------------------------------------------------
(* Undefined behaviour.  The actions above read a freed task as it was left *)
(* (its memory not yet reused); the steps here are the other outcome.       *)

\* The tasks whose memory some thread accesses in its next step.
Touched ==
       {worker[w].t : w \in {v \in Worker : worker[v].pc \in {"run", "filled", "signalled"}}}
  \cup {worker[w].cur : w \in Worker}
  \cup {caller[c].t : c \in {d \in Caller : caller[d].pc \in {"linked", "waiting"}}}
  \cup {watchdog.t} \cup (IF phase = "gone" THEN {} ELSE QueuedTasks)

StaleAccess ==
  /\ Up
  /\ \E t \in Touched : Freed(t)
  /\ crash' = "stale"
  /\ UNCHANGED <<phase, task, queue, nextId, late, caller, worker, watchdog, track, query, drain>>

\* A submitter or a query that passed the test of running uses g_sched after
\* ai_scheduler_exit has freed it.
UnloadedAccess ==
  /\ Up
  /\ phase = "gone"
  /\ \/ \E c \in Caller : caller[c].pc \in {"checked", "stamped"}
     \/ query.pc # "idle"
  /\ crash' = "unloaded"
  /\ UNCHANGED <<phase, task, queue, nextId, late, caller, worker, watchdog, track, query, drain>>

-----------------------------------------------------------------------------

\* The ids a process can know of: those of asynchronous tasks.
AsyncIds == {task[t].id : t \in {u \in Task : task[u].async}} \ {0}

CallerStep(c) ==
  \/ \E t \in Task, async \in BOOLEAN, want \in Prio : SubmitBegin(c, t, async, want)
  \/ EnqueueStamp(c) \/ EnqueueLink(c) \/ AsyncReturn(c)
  \/ WaitDone(c) \/ WaitInterrupted(c)

Next ==
  \/ \E c \in Caller : CallerStep(c)
  \/ \E w \in Worker : WorkerStep(w) \/ WatchdogFire(w) \/ WorkerStop(w)
  \/ DeadlinePasses
  \/ WatchdogRelease
  \/ \E p \in Prio : \E i \in DOMAIN queue[p] : Cancel(p, i)
  \/ \E id \in AsyncIds : QueryTrack(id)
  \/ QueryMovesOn \/ QueryHit \/ QueryMiss
  \/ ExitBegin \/ ExitCancelWork \/ ExitDrain \/ ExitFree
  \/ StaleAccess \/ UnloadedAccess

Spec == Init /\ [][Next]_vars

-----------------------------------------------------------------------------
(* Properties *)

\* Type invariant.
TypeOK ==
  /\ phase \in Phase
  /\ crash \in Crash
  /\ task \in [Task -> TaskRecord]
  /\ queue \in [Prio -> Seq(Task)]
  /\ nextId \in Nat
  /\ late \in 0..nextId
  /\ caller \in [Caller -> CallerRecord]
  /\ worker \in [Worker -> WorkerRecord]
  /\ watchdog \in WatchdogRecord
  /\ track \in TrackTable
  /\ query \in QueryRecord
  /\ drain \in DrainRecord

\* The worker executes its task: from dequeue_task to current_task = NULL.
Holds(w, t) == worker[w].t = t /\ worker[w].pc \notin {"idle", "stopped"}

\* The submitter has the task to itself: enqueue_task has not linked it yet.
Submitting(c, t) == caller[c].t = t /\ caller[c].pc \in {"checked", "stamped"}

(***************************************************************************)
(* A task is in one place: it occurs once in the queues, or one worker has *)
(* dequeued it, or one submitter is about to link it.  This is what the    *)
(* queue locks are for: two workers that dequeue, a canceller and a        *)
(* submitter never share a task (enqueue_task, dequeue_task, cancel_task). *)
(***************************************************************************)
ExclusiveOwnership ==
  /\ \A p, q \in Prio : \A i \in DOMAIN queue[p], j \in DOMAIN queue[q] :
       queue[p][i] = queue[q][j] => p = q /\ i = j
  /\ \A v, w \in Worker : \A t \in Task : Holds(v, t) /\ Holds(w, t) => v = w
  /\ \A c, d \in Caller : \A t \in Task : Submitting(c, t) /\ Submitting(d, t) => c = d
  /\ \A t \in QueuedTasks :
       /\ \A w \in Worker : ~Holds(w, t)
       /\ \A c \in Caller : ~Submitting(c, t)
  /\ \A w \in Worker, c \in Caller, t \in Task : ~(Holds(w, t) /\ Submitting(c, t))

\* Nobody will complete the task: g_sched was freed with it in a queue, into
\* which it was linked after ai_scheduler_exit had emptied that queue.
Stranded(t) == phase = "gone" /\ t \in drain.strayed

(***************************************************************************)
(* No task falls between the threads: a task that is allocated and not     *)
(* completed is with its submitter, in a queue of a loaded module, or with *)
(* a worker that will still complete it; the only tasks ever lost are the  *)
(* stranded ones.  And the structure a submitter waits on is only freed    *)
(* under it by the drain of its own queue.                                 *)
(***************************************************************************)
NoTaskLost ==
  /\ \A t \in Task :
       task[t].mem = "live" /\ ~task[t].done =>
         \/ \E c \in Caller : Submitting(c, t)
         \/ t \in QueuedTasks /\ phase # "gone"
         \/ \E w \in Worker : Holds(w, t) /\ worker[w].pc \in {"got", "run", "filled"}
         \/ Stranded(t)
  /\ \A c \in Caller :
       LET t == caller[c].t
       IN  caller[c].pc = "waiting" =>
             \/ task[t].mem = "live"
             \/ priority_to_queue(task[t].prio) < drain.next /\ t \notin drain.strayed

(***************************************************************************)
(* The capacity test of enqueue_task is made before the lock is taken, so  *)
(* concurrent submitters may pass it together; still a queue exceeds its   *)
(* capacity by at most the number of submitters less one.                  *)
(***************************************************************************)
OvershootBounded ==
  \A p \in Prio : Len(queue[p]) < Capacity[p] + Cardinality(Caller)

(***************************************************************************)
(* Whoever completes a task has given it an outcome first: a response, or  *)
(* the status CANCELLED.  A submitter woken by complete_all never copies   *)
(* out a response that the worker was still about to fill in.              *)
(***************************************************************************)
DoneHasOutcome ==
  \A t \in Task :
    task[t].done => task[t].resp \in {"COMPLETED", "FAILED"} \/ task[t].status = "CANCELLED"

(***************************************************************************)
(* Until a deadline passes or the unload drains a queue, a task structure  *)
(* is freed at most once: worker, submitter and canceller agree through    *)
(* is_async on who frees it.                                               *)
(***************************************************************************)
FreedOnceBeforeDeadline ==
  crash = "doublefree" => late > 0 \/ drain.next > 0

-----------------------------------------------------------------------------
(* Progress *)

\* kthreads and woken submitters run; ai_scheduler_exit runs to its end.
Fairness ==
  /\ \A w \in Worker : WF_vars(WorkerStep(w))
  /\ \A w \in Worker : WF_vars(WorkerStop(w))
  /\ \A c \in Caller : WF_vars(WaitDone(c))
  /\ WF_vars(WatchdogRelease)
  /\ WF_vars((ExitCancelWork \/ ExitDrain \/ ExitFree))

FairSpec == Spec /\ Fairness

(***************************************************************************)
(* ai_sched_submit returns: whatever is cancelled, times out, is           *)
(* interrupted or unloaded meanwhile, a waiting submitter stops waiting,   *)
(* unless the unload strands its task.                                     *)
(***************************************************************************)
SubmitReturns ==
  \A c \in Caller :
    caller[c].pc = "waiting" ~>
      caller[c].pc # "waiting" \/ crash # "none" \/ Stranded(caller[c].t)

=============================================================================
