------------------------- MODULE AiSchedulerProofs -------------------------
(***************************************************************************)
(* Theorems about the scheduler, for any number of tasks, submitters,      *)
(* workers and priorities, any capacities and any tracking table size.     *)
(***************************************************************************)
EXTENDS AiScheduler, WellFoundedInduction, FiniteSetTheorems, TLAPS

-----------------------------------------------------------------------------
(* Operations on the task tracking table, for every table size *)

\* A nonempty set of naturals has a least element: the fact behind every loop
\* that stops at the first slot or entry of some kind.
LEMMA LeastExists ==
  ASSUME NEW S \in SUBSET Nat, S # {}
  PROVE  \E m \in S : \A k \in S : m <= k
<1> DEFINE R == OpToRel(<, Nat)
<1>1. IsWellFoundedOn(R, Nat)
  BY NatLessThanWellFounded
<1>2. \E m \in S : \A k \in S : ~ (<<k, m>> \in R)
  <2> HIDE DEF R
  <2> QED  BY <1>1, WFMin
<1>3. \A k, m \in Nat : k < m => <<k, m>> \in R
  BY DEF OpToRel
<1>4. PICK m \in S : \A k \in S : ~ (<<k, m>> \in R)
  BY <1>2
<1>5. ASSUME NEW k \in S PROVE m <= k
  <2>1. k \in Nat /\ m \in Nat
    OBVIOUS
  <2>2. ~(k < m)
    BY <1>4, <1>3, <2>1
  <2> QED  BY <2>1, <2>2
<1> QED
  BY <1>5

\* The loops of task_track_add and task_track_query stop at a slot of the
\* set they search, if there is one.
LEMMA FirstSlotIn ==
  ASSUME NEW S \in SUBSET Slot, S # {}
  PROVE  FirstSlot(S) \in S
<1>1. S \in SUBSET Nat
  BY TrackSizeAssumption DEF Slot
<1> QED
  BY <1>1, LeastExists DEF FirstSlot

\* task_track_add yields a table again; the index wraps around.
LEMMA TrackAddType ==
  ASSUME NEW T \in TrackTable, NEW id \in Nat, NEW st \in Status
  PROVE  TrackAdd(T, id, st) \in TrackTable
<1> DEFINE entry == [id |-> id, status |-> st]
           mine  == Holding(T, id)
           free  == {i \in Slot : ~InUse(T, i)}
           at    == IF mine # {} THEN FirstSlot(mine)
                    ELSE IF free # {} THEN FirstSlot(free)
                    ELSE T.evict
           next  == IF mine = {} /\ free = {} THEN (T.evict + 1) % TrackSize ELSE T.evict
<1>1. mine \in SUBSET Slot /\ free \in SUBSET Slot
  BY DEF Holding
<1>2. at \in Slot
  <2>1. CASE mine # {}
    BY <2>1, <1>1, FirstSlotIn
  <2>2. CASE mine = {} /\ free # {}
    BY <2>2, <1>1, FirstSlotIn
  <2>3. CASE mine = {} /\ free = {}
    BY <2>3 DEF TrackTable
  <2> QED  BY <2>1, <2>2, <2>3
<1>3. next \in Slot
  BY TrackSizeAssumption DEF TrackTable, Slot
<1>4. entry \in SlotRecord
  BY DEF SlotRecord
<1>5. [T.slot EXCEPT ![at] = entry] \in [Slot -> SlotRecord]
  BY <1>2, <1>4 DEF TrackTable
<1>6. TrackAdd(T, id, st) = [slot |-> [T.slot EXCEPT ![at] = entry], evict |-> next]
  BY DEF TrackAdd
<1> HIDE DEF at, next, entry
<1> QED
  BY <1>3, <1>5, <1>6 DEF TrackTable

\* task_track_query frees the slot it found.
LEMMA TrackTakeType ==
  ASSUME NEW T \in TrackTable, NEW id \in Nat, Holding(T, id) # {}
  PROVE  TrackTake(T, id) \in TrackTable
<1>1. FirstSlot(Holding(T, id)) \in Slot
  BY FirstSlotIn DEF Holding
<1>2. FreeSlot \in SlotRecord
  BY DEF FreeSlot, SlotRecord, Status
<1> QED
  BY <1>1, <1>2 DEF TrackTake, TrackTable

-----------------------------------------------------------------------------
(* Queues *)

\* cancel_task unlinks one element; the others keep their order.
LEMMA RemoveAtElements ==
  ASSUME NEW S, NEW s \in Seq(S), NEW i \in DOMAIN s
  PROVE  /\ RemoveAt(s, i) \in Seq(S)
         /\ Len(RemoveAt(s, i)) = Len(s) - 1
         /\ \A j \in 1..(Len(s) - 1) :
              RemoveAt(s, i)[j] = IF j < i THEN s[j] ELSE s[j + 1]
<1> DEFINE a == SubSeq(s, 1, i - 1)
           b == SubSeq(s, i + 1, Len(s))
<1>1. i \in 1..Len(s) /\ Len(s) \in Nat
  OBVIOUS
<1>2. a \in Seq(S) /\ Len(a) = i - 1 /\ \A j \in 1..(i - 1) : a[j] = s[j]
  BY <1>1
<1>3. b \in Seq(S) /\ Len(b) = Len(s) - i /\ \A j \in 1..(Len(s) - i) : b[j] = s[i + j]
  BY <1>1
<1>4. RemoveAt(s, i) = a \o b
  BY DEF RemoveAt
<1> HIDE DEF a, b
<1>5. a \o b \in Seq(S) /\ Len(a \o b) = Len(s) - 1
  BY <1>1, <1>2, <1>3
<1>6. ASSUME NEW j \in 1..(Len(s) - 1)
      PROVE  (a \o b)[j] = IF j < i THEN s[j] ELSE s[j + 1]
  <2>1. CASE j < i
    BY <2>1, <1>1, <1>2, <1>3
  <2>2. CASE ~(j < i)
    <3>1. (a \o b)[j] = b[j - (i - 1)]
      BY <2>2, <1>1, <1>2, <1>3, SMTT(30)
    <3>2. j - (i - 1) \in 1..(Len(s) - i) /\ i + (j - (i - 1)) = j + 1
      BY <2>2, <1>1
    <3> QED  BY <2>2, <3>1, <3>2, <1>3
  <2> QED  BY <2>1, <2>2
<1> QED
  BY <1>4, <1>5, <1>6

-----------------------------------------------------------------------------
(* Type correctness *)

\* The local pointers of submitters, workers and watchdog are not NULL while
\* the code dereferences them.
Pointers ==
  /\ \A c \in Caller : caller[c].pc # "idle" => caller[c].t \in Task
  /\ \A w \in Worker : worker[w].pc \notin {"idle", "stopped"} => worker[w].t \in Task
  /\ watchdog = IdleWatchdog \/ watchdog.t \in Task

Typed == TypeOK /\ Pointers

\* The loop of ai_scheduler_exit stays within the queues.
LEMMA DrainLoop ==
  ASSUME drain \in DrainRecord
  PROVE  /\ drain.next \in Nat /\ drain.next + 1 > 0 /\ drain.strayed \subseteq Task
         /\ drain.next <= Realtime =>
              /\ drain.next \in Prio
              /\ [drain EXCEPT !.next = drain.next + 1] \in DrainRecord
              /\ [drain EXCEPT !.next = drain.next + 1].next = drain.next + 1
              /\ [drain EXCEPT !.next = drain.next + 1].strayed = drain.strayed
<1>1. Realtime \in Nat
  BY SchedAssumption
<1>2. drain.next \in 0..(Realtime + 1) /\ drain.strayed \in SUBSET Task
  BY DEF DrainRecord
<1>3. drain.next <= Realtime => drain.next \in Prio /\ drain.next + 1 \in 0..(Realtime + 1)
  BY <1>1, <1>2 DEF Prio
<1>4. ASSUME NEW n \in 0..(Realtime + 1)
      PROVE  /\ [drain EXCEPT !.next = n] \in DrainRecord
             /\ [drain EXCEPT !.next = n].next = n
             /\ [drain EXCEPT !.next = n].strayed = drain.strayed
  BY DEF DrainRecord
<1> QED
  BY <1>1, <1>2, <1>3, <1>4

\* The module as ai_scheduler_init leaves it.
LEMMA InitTyped == Init => Typed
<1> SUFFICES ASSUME Init PROVE Typed
  OBVIOUS
<1>1. Unallocated \in TaskRecord
  BY SchedAssumption DEF Unallocated, TaskRecord, Status, Prio
<1>2. EmptyTrack \in TrackTable
  BY TrackSizeAssumption DEF EmptyTrack, TrackTable, FreeSlot, SlotRecord, Status, Slot
<1>0. NoDrain \in DrainRecord
  BY SchedAssumption DEF NoDrain, DrainRecord
<1>3. TypeOK
  BY <1>0, <1>1, <1>2 DEF Init, TypeOK, Phase, Crash, CallerRecord, WorkerRecord, WatchdogRecord,
     QueryRecord, IdleCaller, IdleWorker, IdleWatchdog, IdleQuery
<1>4. Pointers
  BY DEF Init, Pointers, IdleCaller, IdleWorker
<1> QED
  BY <1>3, <1>4 DEF Typed

Tasks == [Task -> TaskRecord]

\* The stores the code makes to a task structure keep it one.
LEMMA TaskStores ==
  ASSUME task \in Tasks, NEW t \in Task, NEW n \in Nat, NEW st \in Status, NEW rs \in Status
  PROVE  /\ [task EXCEPT ![t].id = n, ![t].status = st] \in Tasks
         /\ [task EXCEPT ![t].status = st] \in Tasks
         /\ [task EXCEPT ![t].resp = rs] \in Tasks
         /\ [task EXCEPT ![t].done = TRUE] \in Tasks
         /\ [task EXCEPT ![t].mem = "freed"] \in Tasks
         /\ [task EXCEPT ![t].status = st, ![t].done = TRUE] \in Tasks
         /\ [task EXCEPT ![t].status = st, ![t].resp = rs, ![t].done = TRUE] \in Tasks
<1> DEFINE r == task[t]
<1>1. r \in TaskRecord
  BY DEF Tasks
<1>2. [r EXCEPT !.id = n, !.status = st] \in TaskRecord
  BY <1>1 DEF TaskRecord
<1>3. [r EXCEPT !.status = st] \in TaskRecord /\ [r EXCEPT !.resp = rs] \in TaskRecord
  BY <1>1 DEF TaskRecord
<1>4. [r EXCEPT !.done = TRUE] \in TaskRecord /\ [r EXCEPT !.mem = "freed"] \in TaskRecord
  BY <1>1 DEF TaskRecord
<1>5. [r EXCEPT !.status = st, !.done = TRUE] \in TaskRecord
  BY <1>1 DEF TaskRecord
<1>6. [r EXCEPT !.status = st, !.resp = rs, !.done = TRUE] \in TaskRecord
  BY <1>1 DEF TaskRecord
<1>7. [task EXCEPT ![t].id = n, ![t].status = st] \in Tasks
  BY <1>2 DEF Tasks
<1>8. [task EXCEPT ![t].status = st] \in Tasks /\ [task EXCEPT ![t].resp = rs] \in Tasks
  BY <1>3 DEF Tasks
<1>9. [task EXCEPT ![t].done = TRUE] \in Tasks /\ [task EXCEPT ![t].mem = "freed"] \in Tasks
  BY <1>4 DEF Tasks
<1>10. [task EXCEPT ![t].status = st, ![t].done = TRUE] \in Tasks
  BY <1>5 DEF Tasks
<1>11. [task EXCEPT ![t].status = st, ![t].resp = rs, ![t].done = TRUE] \in Tasks
  BY <1>6 DEF Tasks
<1> QED
  BY <1>7, <1>8, <1>9, <1>10, <1>11

\* Submission.
LEMMA CallerTyped ==
  ASSUME Typed, NEW c \in Caller, CallerStep(c)
  PROVE  Typed'
<1> USE DEF Typed
<1>1. ASSUME NEW t \in Task, NEW async \in BOOLEAN, NEW want \in Prio, SubmitBegin(c, t, async, want)
      PROVE  Typed'
  <2>1. NewTask(async, want) \in TaskRecord
    <3>1. Unallocated \in TaskRecord
      BY SchedAssumption DEF Unallocated, TaskRecord, Status, Prio
    <3>2. ASSUME NEW r \in TaskRecord
          PROVE  [r EXCEPT !.mem = "live", !.async = async, !.want = want] \in TaskRecord
      BY DEF TaskRecord
    <3> QED  BY <3>1, <3>2 DEF NewTask
  <2>2. TypeOK'
    BY <1>1, <2>1 DEF SubmitBegin, TypeOK, CallerRecord
  <2>3. Pointers'
    BY <1>1 DEF SubmitBegin, TypeOK, Pointers, CallerRecord
  <2> QED  BY <2>2, <2>3
<1>2. ASSUME EnqueueStamp(c) PROVE Typed'
  <2>1. caller[c].t \in Task /\ nextId + 1 \in Nat
    BY <1>2 DEF EnqueueStamp, Pointers, TypeOK
  <2>2. task' \in Tasks
    BY <1>2, <2>1, TaskStores, ZenonT(60) DEF EnqueueStamp, TypeOK, Tasks, Status
  <2>3. caller' \in [Caller -> CallerRecord] /\ late' \in 0..nextId'
    BY <1>2 DEF EnqueueStamp, TypeOK, CallerRecord
  <2>4. TypeOK'
    BY <1>2, <2>2, <2>3 DEF EnqueueStamp, TypeOK, Tasks
  <2>5. Pointers'
    BY <1>2 DEF EnqueueStamp, TypeOK, Pointers, CallerRecord
  <2> QED  BY <2>4, <2>5
<1>3. ASSUME EnqueueLink(c) PROVE Typed'
  <2>1. caller[c].t \in Task
    BY <1>3 DEF EnqueueLink, Pointers
  <2>2. TypeOK'
    <3>1. queue' \in [Prio -> Seq(Task)]
      <4> DEFINE p == priority_to_queue(task[caller[c].t].prio)
      <4>1. queue' = [queue EXCEPT ![p] = Append(@, caller[c].t)]
        BY <1>3 DEF EnqueueLink
      <4>2. queue \in [Prio -> Seq(Task)]
        BY DEF TypeOK
      <4> HIDE DEF p
      <4>3. ASSUME NEW q \in Prio PROVE Append(queue[q], caller[c].t) \in Seq(Task)
        BY <4>2, <2>1
      <4> QED  BY <4>1, <4>2, <4>3
    <3>2. caller' \in [Caller -> CallerRecord]
      BY <1>3 DEF EnqueueLink, TypeOK, CallerRecord
    <3>3. drain' \in DrainRecord
      BY <1>3, <2>1 DEF EnqueueLink, TypeOK, DrainRecord
    <3> QED  BY <1>3, <3>1, <3>2, <3>3 DEF EnqueueLink, TypeOK
  <2>3. Pointers'
    BY <1>3, <2>1 DEF EnqueueLink, TypeOK, Pointers, CallerRecord
  <2> QED  BY <2>2, <2>3
<1>4. ASSUME AsyncReturn(c) PROVE Typed'
  <2>1. TypeOK'
    BY <1>4 DEF AsyncReturn, TypeOK, CallerRecord, IdleCaller
  <2>2. Pointers'
    BY <1>4, SMTT(30) DEF AsyncReturn, TypeOK, Pointers, CallerRecord, IdleCaller
  <2> QED  BY <2>1, <2>2
<1>5. ASSUME caller[c].pc = "waiting", SubmitReap(c) PROVE Typed'
  <2>1. task' \in Tasks
    BY <1>5, TaskStores, ZenonT(60) DEF SubmitReap, Pointers, TypeOK, Tasks, Status
  <2>2. crash' \in Crash /\ caller' \in [Caller -> CallerRecord]
    BY <1>5 DEF SubmitReap, CrashOfFree, TypeOK, CallerRecord, IdleCaller, Crash
  <2>3. TypeOK'
    BY <1>5, <2>1, <2>2 DEF SubmitReap, TypeOK, Tasks
  <2>4. Pointers'
    BY <1>5 DEF SubmitReap, TypeOK, Pointers, CallerRecord, IdleCaller
  <2> QED  BY <2>3, <2>4
<1> QED
  BY <1>1, <1>2, <1>3, <1>4, <1>5 DEF CallerStep, WaitDone, WaitInterrupted

\* Recording and freeing an asynchronous task.
LEMMA ReleaseTyped ==
  ASSUME TypeOK, NEW t \in Task, NEW st \in Status, ReleaseTask(t, st)
  PROVE  task' \in [Task -> TaskRecord] /\ track' \in TrackTable /\ crash' \in Crash
<1>1. task[t].id \in Nat
  BY DEF TypeOK, TaskRecord
<1>2. TrackAdd(track, task[t].id, st) \in TrackTable
  BY <1>1, TrackAddType DEF TypeOK
<1>3. CASE task[t].async
  <2>1. task' \in Tasks
    <3>1. task' = [task EXCEPT ![t].mem = "freed"]
      BY <1>3, Zenon DEF ReleaseTask
    <3>2. [task EXCEPT ![t].mem = "freed"] \in Tasks
      BY <1>1, TaskStores DEF TypeOK, Tasks
    <3> QED  BY <3>1, <3>2
  <2>2. crash' \in Crash
    BY <1>3 DEF ReleaseTask, CrashOfFree, TypeOK, Crash
  <2> QED  BY <1>2, <1>3, <2>1, <2>2 DEF ReleaseTask, Tasks
<1>4. CASE ~task[t].async
  BY <1>4 DEF ReleaseTask, TypeOK
<1> QED  BY <1>3, <1>4

\* Worker threads.
LEMMA WorkerTyped ==
  ASSUME Typed, NEW w \in Worker, WorkerStep(w) \/ WorkerStop(w)
  PROVE  Typed'
<1> USE DEF Typed
<1>1. ASSUME NEW p \in Prio, Dequeue(w, p) PROVE Typed'
  <2>1. Head(queue[p]) \in Task /\ Tail(queue[p]) \in Seq(Task)
    BY <1>1 DEF Dequeue, HighestNonEmpty, TypeOK
  <2>2. TypeOK'
    <3>1. task' \in Tasks
      BY <1>1, <2>1, TaskStores DEF Dequeue, TypeOK, Tasks, Status
    <3>2. worker' \in [Worker -> WorkerRecord]
      BY <1>1, <2>1 DEF Dequeue, TypeOK, WorkerRecord
    <3> QED  BY <1>1, <2>1, <3>1, <3>2, SMTT(30) DEF Dequeue, TypeOK, Tasks
  <2>3. Pointers'
    BY <1>1, <2>1 DEF Dequeue, TypeOK, Pointers, WorkerRecord
  <2> QED  BY <2>2, <2>3
<1>2. ASSUME Publish(w) PROVE Typed'
  BY <1>2 DEF Publish, TypeOK, Pointers, WorkerRecord
<1>3. ASSUME Fill(w) PROVE Typed'
  <2>1. task' \in Tasks
    BY <1>3, TaskStores DEF Fill, Pointers, TypeOK, Tasks, Status
  <2>2. worker' \in [Worker -> WorkerRecord] /\ Pointers'
    BY <1>3 DEF Fill, TypeOK, Pointers, WorkerRecord
  <2> QED  BY <1>3, <2>1, <2>2 DEF Fill, TypeOK, Tasks
<1>4. ASSUME Signal(w) PROVE Typed'
  <2>1. task' \in Tasks
    BY <1>4, TaskStores DEF Signal, Pointers, TypeOK, Tasks, Status
  <2>2. worker' \in [Worker -> WorkerRecord] /\ Pointers'
    BY <1>4 DEF Signal, TypeOK, Pointers, WorkerRecord
  <2> QED  BY <1>4, <2>1, <2>2 DEF Signal, TypeOK, Tasks
<1>5. ASSUME Release(w) PROVE Typed'
  <2>1. worker[w].t \in Task
    BY <1>5 DEF Release, Pointers
  <2>2. task' \in [Task -> TaskRecord] /\ track' \in TrackTable /\ crash' \in Crash
    BY <1>5, <2>1, ReleaseTyped DEF Release, Status
  <2>3. TypeOK'
    BY <1>5, <2>2 DEF Release, TypeOK, WorkerRecord
  <2>4. Pointers'
    BY <1>5, <2>1 DEF Release, TypeOK, Pointers, WorkerRecord
  <2> QED  BY <2>3, <2>4
<1>6. ASSUME Clear(w) PROVE Typed'
  BY <1>6 DEF Clear, TypeOK, Pointers, WorkerRecord, IdleWorker
<1>7. ASSUME WorkerStop(w) PROVE Typed'
  BY <1>7 DEF WorkerStop, TypeOK, Pointers, WorkerRecord
<1> QED
  BY <1>1, <1>2, <1>3, <1>4, <1>5, <1>6, <1>7 DEF WorkerStep

\* Watchdog and passing of time.
LEMMA WatchdogTyped ==
  ASSUME Typed, DeadlinePasses \/ WatchdogRelease \/ \E w \in Worker : WatchdogFire(w)
  PROVE  Typed'
<1> USE DEF Typed
<1>1. CASE DeadlinePasses
  BY <1>1 DEF DeadlinePasses, TypeOK, Pointers
<1>2. ASSUME NEW w \in Worker, WatchdogFire(w) PROVE Typed'
  <2>1. worker[w].cur \in Task
    BY <1>2, ZenonT(60) DEF WatchdogFire, TypeOK, WorkerRecord
  <2>2. TypeOK'
    <3>1. task' \in Tasks
      BY <1>2, <2>1, TaskStores DEF WatchdogFire, TypeOK, Tasks, Status
    <3> QED  BY <1>2, <2>1, <3>1, ZenonT(60) DEF WatchdogFire, TypeOK, Tasks, WatchdogRecord
  <2>3. Pointers'
    BY <1>2, <2>1 DEF WatchdogFire, Pointers
  <2> QED  BY <2>2, <2>3, SMTT(30)
<1>3. CASE WatchdogRelease
  <2>1. watchdog.t \in Task
    BY <1>3 DEF WatchdogRelease, Pointers
  <2>2. task' \in [Task -> TaskRecord] /\ track' \in TrackTable /\ crash' \in Crash
    BY <1>3, <2>1, ReleaseTyped DEF WatchdogRelease, Status
  <2>3. worker' \in [Worker -> WorkerRecord] /\ \A w \in Worker : worker'[w].pc = worker[w].pc /\ worker'[w].t = worker[w].t
    BY <1>3 DEF WatchdogRelease, TypeOK, WorkerRecord
  <2>4. TypeOK'
    BY <1>3, <2>2, <2>3 DEF WatchdogRelease, TypeOK, WatchdogRecord, IdleWatchdog
  <2>5. Pointers'
    BY <1>3, <2>3 DEF WatchdogRelease, Pointers
  <2> QED  BY <2>4, <2>5
<1> QED
  BY <1>1, <1>2, <1>3

\* Cancellation and query.
LEMMA RequestTyped ==
  ASSUME Typed,
         \/ \E p \in Prio : \E i \in DOMAIN queue[p] : Cancel(p, i)
         \/ \E id \in AsyncIds : QueryTrack(id)
         \/ QueryMovesOn \/ QueryHit \/ QueryMiss
  PROVE  Typed'
<1> USE DEF Typed
<1>1. ASSUME NEW p \in Prio, NEW i \in DOMAIN queue[p], Cancel(p, i) PROVE Typed'
  <2>1. queue[p] \in Seq(Task)
    BY DEF TypeOK
  <2>2. RemoveAt(queue[p], i) \in Seq(Task) /\ queue[p][i] \in Task
    BY <2>1, RemoveAtElements
  <2>3. TypeOK'
    <3>1. task' \in Tasks
      BY <1>1, <2>2, TaskStores DEF Cancel, TypeOK, Tasks, Status
    <3> QED  BY <1>1, <2>2, <3>1, SMTT(30) DEF Cancel, TypeOK, Tasks
  <2>4. Pointers'
    BY <1>1 DEF Cancel, Pointers
  <2> QED  BY <2>3, <2>4
<1>2. ASSUME NEW id \in AsyncIds, QueryTrack(id) PROVE Typed'
  <2>1. id \in Nat
    BY DEF AsyncIds, TypeOK, TaskRecord
  <2>2. track' \in TrackTable
    BY <1>2, <2>1, TrackTakeType DEF QueryTrack, TrackFound, TypeOK
  <2>3. TypeOK'
    BY <1>2, <2>1, <2>2 DEF QueryTrack, TypeOK, QueryRecord
  <2>4. Pointers'
    BY <1>2 DEF QueryTrack, Pointers
  <2> QED  BY <2>3, <2>4
<1>3. CASE QueryMovesOn
  BY <1>3 DEF QueryMovesOn, TypeOK, Pointers, QueryRecord
<1>4. CASE QueryHit \/ QueryMiss
  BY <1>4 DEF QueryHit, QueryMiss, TypeOK, Pointers, QueryRecord, IdleQuery
<1> QED
  BY <1>1, <1>2, <1>3, <1>4

\* Unload, and the accesses that end a behaviour.
LEMMA ExitTyped ==
  ASSUME Typed, ExitBegin \/ ExitCancelWork \/ ExitDrain \/ ExitFree \/ StaleAccess \/ UnloadedAccess
  PROVE  Typed'
<1> USE DEF Typed
<1>1. CASE ExitBegin \/ ExitCancelWork \/ ExitFree
  BY <1>1 DEF ExitBegin, ExitCancelWork, ExitFree, TypeOK, Pointers, Phase
<1>2. CASE ExitDrain
  <2>1. task' \in [Task -> TaskRecord]
    BY <1>2, ZenonT(60) DEF ExitDrain, TypeOK, TaskRecord, Status
  <2>2. TypeOK'
    <3>1. queue' \in [Prio -> Seq(Task)]
      <4>1. <<>> \in Seq(Task)
        OBVIOUS
      <4> QED  BY <1>2, <4>1 DEF ExitDrain, TypeOK
    <3>2. crash' \in Crash
      BY <1>2 DEF ExitDrain, TypeOK, Crash
    <3>3. drain' \in DrainRecord
      BY <1>2, DrainLoop DEF ExitDrain, TypeOK
    <3> QED  BY <1>2, <2>1, <3>1, <3>2, <3>3 DEF ExitDrain, TypeOK
  <2>3. Pointers'
    BY <1>2 DEF ExitDrain, Pointers
  <2> QED  BY <2>2, <2>3
<1>3. CASE StaleAccess \/ UnloadedAccess
  BY <1>3 DEF StaleAccess, UnloadedAccess, TypeOK, Pointers, Crash
<1> QED
  BY <1>1, <1>2, <1>3

\* Every step keeps the types and the pointers.
LEMMA NextTyped == Typed /\ [Next]_vars => Typed'
<1> SUFFICES ASSUME Typed, [Next]_vars PROVE Typed'
  OBVIOUS
<1>1. CASE UNCHANGED vars
  BY <1>1 DEF vars, Typed, TypeOK, Pointers
<1>2. CASE Next
  BY <1>2, CallerTyped, WorkerTyped, WatchdogTyped, RequestTyped, ExitTyped DEF Next
<1> QED
  BY <1>1, <1>2

(***************************************************************************)
(* The scheduler's state keeps its types: in particular a queue, a worker  *)
(* and a submitter only ever refer to task structures, ids only grow, and  *)
(* the eviction index of the tracking table stays within it, through       *)
(* timeouts, cancellations, interrupted waits and unload.                  *)
(***************************************************************************)
THEOREM SchedulerTyped == Spec => []TypeOK
<1>1. Spec => []Typed
  BY InitTyped, NextTyped, PTL DEF Spec
<1>2. Typed => TypeOK
  BY DEF Typed
<1> QED
  BY <1>1, <1>2, PTL

-----------------------------------------------------------------------------
(* Exclusive ownership *)

\* What the next submission relies on: a structure kzalloc may still return
\* is in no queue and with no thread.
OwnedAllocated ==
  /\ \A p \in Prio : \A i \in DOMAIN queue[p] : task[queue[p][i]].mem # "none"
  /\ \A w \in Worker, t \in Task : Holds(w, t) => task[t].mem # "none"
  /\ \A c \in Caller, t \in Task : Submitting(c, t) => task[t].mem # "none"

\* ExclusiveOwnership by positions in the queues.
QueuedOnce ==
  \A p, q \in Prio : \A i \in DOMAIN queue[p], j \in DOMAIN queue[q] :
    queue[p][i] = queue[q][j] => p = q /\ i = j

WorkerAlone ==
  /\ \A v, w \in Worker : \A t \in Task : Holds(v, t) /\ Holds(w, t) => v = w
  /\ \A p \in Prio : \A i \in DOMAIN queue[p] : \A w \in Worker : ~Holds(w, queue[p][i])

CallerAlone ==
  /\ \A c, d \in Caller : \A t \in Task : Submitting(c, t) /\ Submitting(d, t) => c = d
  /\ \A p \in Prio : \A i \in DOMAIN queue[p] : \A c \in Caller : ~Submitting(c, queue[p][i])
  /\ \A w \in Worker, c \in Caller, t \in Task : ~(Holds(w, t) /\ Submitting(c, t))

Owned == QueuedOnce /\ WorkerAlone /\ CallerAlone /\ OwnedAllocated

\* The two ways of speaking about queued tasks agree.
LEMMA OwnedIsExclusive == Owned => ExclusiveOwnership
<1> SUFFICES ASSUME Owned PROVE ExclusiveOwnership
  OBVIOUS
<1>1. \A t \in QueuedTasks : \E p \in Prio : \E i \in DOMAIN queue[p] : t = queue[p][i]
  BY DEF QueuedTasks, ToSet
<1> QED
  BY <1>1 DEF Owned, QueuedOnce, WorkerAlone, CallerAlone, ExclusiveOwnership

\* A step in which nobody acquires a task: f maps the positions in the new
\* queues to those in the old ones.
LEMMA NobodyAcquires ==
  ASSUME Typed, Typed', Owned, NEW f,
         \A p \in Prio : \A i \in DOMAIN queue'[p] :
           f[p][i] \in DOMAIN queue[p] /\ queue'[p][i] = queue[p][f[p][i]],
         \A p \in Prio : \A i, j \in DOMAIN queue'[p] : f[p][i] = f[p][j] => i = j,
         \A w \in Worker, t \in Task : Holds(w, t)' => Holds(w, t),
         \A c \in Caller, t \in Task : Submitting(c, t)' => Submitting(c, t),
         \A t \in Task : task[t].mem # "none" => task'[t].mem # "none"
  PROVE  Owned'
<1>1. \A p \in Prio : \A i \in DOMAIN queue'[p] : queue'[p][i] \in Task
  BY DEF Typed, TypeOK
<1>2. QueuedOnce'
  BY DEF Owned, QueuedOnce
<1>3. WorkerAlone'
  BY <1>1 DEF Owned, WorkerAlone
<1>4. CallerAlone'
  BY <1>1 DEF Owned, CallerAlone
<1>5. OwnedAllocated'
  BY <1>1 DEF Owned, OwnedAllocated
<1> QED
  BY <1>2, <1>3, <1>4, <1>5 DEF Owned

\* The case of unchanged queues.
LEMMA QueuesUntouched ==
  ASSUME Typed, Typed', Owned, queue' = queue,
         \A w \in Worker, t \in Task : Holds(w, t)' => Holds(w, t),
         \A c \in Caller, t \in Task : Submitting(c, t)' => Submitting(c, t),
         \A t \in Task : task[t].mem # "none" => task'[t].mem # "none"
  PROVE  Owned'
<1> DEFINE f == [p \in Prio |-> [i \in DOMAIN queue[p] |-> i]]
<1>1. \A p \in Prio : \A i \in DOMAIN queue'[p] :
        f[p][i] \in DOMAIN queue[p] /\ queue'[p][i] = queue[p][f[p][i]]
  OBVIOUS
<1>2. \A p \in Prio : \A i, j \in DOMAIN queue'[p] : f[p][i] = f[p][j] => i = j
  OBVIOUS
<1> HIDE DEF f
<1> QED
  BY <1>1, <1>2, NobodyAcquires

\* kzalloc returns a structure nobody owns.
LEMMA SubmitBeginOwned ==
  ASSUME Typed, Owned, NEW c \in Caller, NEW t \in Task, NEW async \in BOOLEAN, NEW want \in Prio,
         SubmitBegin(c, t, async, want)
  PROVE  Owned'
<1>1. /\ queue' = queue /\ worker' = worker
      /\ caller' = [caller EXCEPT ![c] = [pc |-> "checked", t |-> t]]
      /\ task' = [task EXCEPT ![t] = NewTask(async, want)]
      /\ task[t].mem = "none"
  BY DEF SubmitBegin
<1>2. NewTask(async, want).mem = "live"
  BY DEF NewTask, Unallocated
<1>3. /\ \A p \in Prio : \A i \in DOMAIN queue[p] : queue[p][i] \in Task /\ queue[p][i] # t
      /\ \A w \in Worker : ~Holds(w, t)
      /\ \A d \in Caller : ~Submitting(d, t)
  BY <1>1 DEF Owned, OwnedAllocated, Typed, TypeOK
<1>4. /\ \A w \in Worker, u \in Task : Holds(w, u)' <=> Holds(w, u)
      /\ \A d \in Caller, u \in Task : Submitting(d, u)' => Submitting(d, u) \/ (d = c /\ u = t)
  BY <1>1 DEF Holds, Submitting, Typed, TypeOK
<1>5. \A u \in Task : task'[u].mem # "none" <=> (u = t \/ task[u].mem # "none")
  BY <1>1, <1>2 DEF Typed, TypeOK
<1>6. QueuedOnce'
  BY <1>1 DEF Owned, QueuedOnce
<1>7. WorkerAlone'
  BY <1>1, <1>3, <1>4 DEF Owned, WorkerAlone
<1>8. CallerAlone'
  BY <1>1, <1>3, <1>4 DEF Owned, CallerAlone
<1>9. OwnedAllocated'
  BY <1>1, <1>3, <1>4, <1>5 DEF Owned, OwnedAllocated
<1> QED
  BY <1>6, <1>7, <1>8, <1>9 DEF Owned

\* The critical section of enqueue_task hands the task to a queue.
LEMMA EnqueueLinkOwned ==
  ASSUME Typed, Owned, NEW c \in Caller, EnqueueLink(c)
  PROVE  Owned'
<1> DEFINE t == caller[c].t
           p == priority_to_queue(task[t].prio)
<1>1. /\ queue' = [queue EXCEPT ![p] = Append(@, t)]
      /\ task' = task /\ worker' = worker
      /\ caller[c].pc = "stamped"
      /\ caller' = [caller EXCEPT ![c].pc = IF task[t].async THEN "linked" ELSE "waiting"]
  BY DEF EnqueueLink
<1>2. t \in Task
  BY <1>1 DEF Typed, Pointers
<1>3. p \in Prio
  BY <1>2, SchedAssumption DEF Typed, TypeOK, TaskRecord, priority_to_queue, Prio
<1>4. Submitting(c, t)
  BY <1>1 DEF Submitting
<1>5. /\ \A w \in Worker, u \in Task : Holds(w, u)' <=> Holds(w, u)
      /\ \A d \in Caller, u \in Task : Submitting(d, u)' => Submitting(d, u) /\ d # c
  BY <1>1 DEF Holds, Submitting, Typed, TypeOK, CallerRecord
<1> HIDE DEF t, p
<1>6. \A q \in Prio : queue[q] \in Seq(Task)
  BY DEF Typed, TypeOK
<1>7. \A q \in Prio \ {p} : queue'[q] = queue[q]
  BY <1>1, <1>3 DEF Typed, TypeOK
<1>8. /\ queue'[p] = Append(queue[p], t)
      /\ DOMAIN queue'[p] = 1..(Len(queue[p]) + 1) /\ DOMAIN queue[p] = 1..Len(queue[p])
      /\ Len(queue[p]) \in Nat
      /\ \A i \in 1..Len(queue[p]) : queue'[p][i] = queue[p][i]
      /\ queue'[p][Len(queue[p]) + 1] = t
  BY <1>1, <1>2, <1>3, <1>6 DEF Typed, TypeOK
<1>9. \A q \in Prio : \A i \in DOMAIN queue'[q] :
        \/ i \in DOMAIN queue[q] /\ queue'[q][i] = queue[q][i]
        \/ q = p /\ i = Len(queue[p]) + 1 /\ queue'[q][i] = t
  BY <1>7, <1>8
<1>10. \A q \in Prio : \A i \in DOMAIN queue[q] : queue[q][i] \in Task /\ queue[q][i] # t
  BY <1>2, <1>4, <1>6 DEF Owned, CallerAlone
<1>11. QueuedOnce'
  BY <1>9, <1>10 DEF Owned, QueuedOnce
<1>12. WorkerAlone'
  BY <1>2, <1>4, <1>5, <1>9, <1>10 DEF Owned, WorkerAlone, CallerAlone
<1>13. CallerAlone'
  BY <1>2, <1>4, <1>5, <1>9, <1>10 DEF Owned, CallerAlone
<1>14. OwnedAllocated'
  BY <1>1, <1>2, <1>4, <1>5, <1>9, <1>10 DEF Owned, OwnedAllocated
<1> QED
  BY <1>11, <1>12, <1>13, <1>14 DEF Owned

\* dequeue_task hands the head of a queue to the worker.
LEMMA DequeueOwned ==
  ASSUME Typed, Owned, NEW w \in Worker, NEW p \in Prio, Dequeue(w, p)
  PROVE  Owned'
<1> DEFINE t == Head(queue[p])
<1>1. /\ queue' = [queue EXCEPT ![p] = Tail(@)]
      /\ task' = [task EXCEPT ![t].status = "RUNNING"]
      /\ caller' = caller
      /\ worker[w].pc = "idle"
      /\ worker' = [worker EXCEPT ![w].pc = "got", ![w].t = t]
      /\ queue[p] # <<>>
  BY DEF Dequeue, HighestNonEmpty
<1>2. \A q \in Prio : queue[q] \in Seq(Task)
  BY DEF Typed, TypeOK
<1>3. 1 \in DOMAIN queue[p] /\ t = queue[p][1] /\ t \in Task
  BY <1>1, <1>2
<1>4. /\ \A v \in Worker, u \in Task : Holds(v, u)' => (v # w /\ Holds(v, u)) \/ (v = w /\ u = t)
      /\ \A d \in Caller, u \in Task : Submitting(d, u)' <=> Submitting(d, u)
  BY <1>1 DEF Holds, Submitting, Typed, TypeOK, WorkerRecord
<1>5. \A u \in Task : task'[u].mem = task[u].mem
  BY <1>1, <1>3 DEF Typed, TypeOK, TaskRecord
<1> HIDE DEF t
<1>6. \A q \in Prio \ {p} : queue'[q] = queue[q]
  BY <1>1 DEF Typed, TypeOK
<1>7. /\ queue'[p] = Tail(queue[p])
      /\ DOMAIN queue'[p] = 1..(Len(queue[p]) - 1) /\ DOMAIN queue[p] = 1..Len(queue[p])
      /\ Len(queue[p]) \in Nat
      /\ \A i \in 1..(Len(queue[p]) - 1) : queue'[p][i] = queue[p][i + 1]
  BY <1>1, <1>2 DEF Typed, TypeOK
<1>8. \A q \in Prio : \A i \in DOMAIN queue'[q] :
        \/ q # p /\ i \in DOMAIN queue[q] /\ queue'[q][i] = queue[q][i]
        \/ q = p /\ i \in Nat /\ i + 1 \in DOMAIN queue[p] /\ i + 1 # 1 /\ queue'[q][i] = queue[p][i + 1]
  <2> TAKE q \in Prio
  <2> TAKE i \in DOMAIN queue'[q]
  <2>1. CASE q = p
    <3>1. i \in 1..(Len(queue[p]) - 1)
      BY <1>7, <2>1
    <3>2. i \in Nat /\ i + 1 \in 1..Len(queue[p]) /\ i + 1 # 1
      BY <1>7, <3>1
    <3> QED  BY <1>7, <2>1, <3>1, <3>2
  <2>2. CASE q # p
    BY <1>6, <2>2
  <2> QED  BY <2>1, <2>2
<1>9. \A q \in Prio : \A i \in DOMAIN queue'[q] :
        /\ queue'[q][i] \in Task /\ queue'[q][i] # t
        /\ \E k \in DOMAIN queue[q] : queue'[q][i] = queue[q][k]
  BY <1>2, <1>3, <1>8 DEF Owned, QueuedOnce
<1>10. QueuedOnce'
  BY <1>8 DEF Owned, QueuedOnce
<1>11. WorkerAlone'
  BY <1>3, <1>4, <1>9 DEF Owned, WorkerAlone
<1>12. CallerAlone'
  BY <1>3, <1>4, <1>9 DEF Owned, CallerAlone
<1>13. OwnedAllocated'
  BY <1>3, <1>4, <1>5, <1>9 DEF Owned, OwnedAllocated
<1> QED
  BY <1>10, <1>11, <1>12, <1>13 DEF Owned

\* cancel_task and ai_scheduler_exit take tasks out of the queues.
LEMMA UnlinkOwned ==
  ASSUME Typed, Typed', Owned,
         ExitDrain \/ \E p \in Prio : \E i \in DOMAIN queue[p] : Cancel(p, i)
  PROVE  Owned'
<1>1. ASSUME NEW p \in Prio, NEW k \in DOMAIN queue[p], Cancel(p, k) PROVE Owned'
  <2> DEFINE f == [q \in Prio |-> [i \in Nat |-> IF q = p /\ i >= k THEN i + 1 ELSE i]]
  <2>1. /\ queue' = [queue EXCEPT ![p] = RemoveAt(@, k)]
        /\ task' = [task EXCEPT ![queue[p][k]].status = "CANCELLED", ![queue[p][k]].done = TRUE]
        /\ caller' = caller /\ worker' = worker
    BY <1>1 DEF Cancel
  <2>2. \A q \in Prio : queue[q] \in Seq(Task)
    BY DEF Typed, TypeOK
  <2>3. \A q \in Prio \ {p} : queue'[q] = queue[q]
    BY <2>1 DEF Typed, TypeOK
  <2>4. queue'[p] = RemoveAt(queue[p], k)
    BY <2>1 DEF Typed, TypeOK
  <2>5. /\ DOMAIN queue'[p] = 1..(Len(queue[p]) - 1) /\ DOMAIN queue[p] = 1..Len(queue[p])
        /\ Len(queue[p]) \in Nat
        /\ \A i \in 1..(Len(queue[p]) - 1) :
             queue'[p][i] = IF i < k THEN queue[p][i] ELSE queue[p][i + 1]
    <3>1. /\ RemoveAt(queue[p], k) \in Seq(Task)
          /\ Len(RemoveAt(queue[p], k)) = Len(queue[p]) - 1
          /\ \A i \in 1..(Len(queue[p]) - 1) :
               RemoveAt(queue[p], k)[i] = IF i < k THEN queue[p][i] ELSE queue[p][i + 1]
      BY <2>2, RemoveAtElements
    <3> QED  BY <2>2, <2>4, <3>1
  <2>6. \A i \in DOMAIN queue'[p] : f[p][i] \in DOMAIN queue[p] /\ queue'[p][i] = queue[p][f[p][i]]
    <3> TAKE i \in DOMAIN queue'[p]
    <3>1. i \in 1..(Len(queue[p]) - 1) /\ i \in Nat /\ k \in 1..Len(queue[p]) /\ k \in Nat
      BY <2>5
    <3>2. f[p][i] = IF i >= k THEN i + 1 ELSE i
      BY <3>1
    <3>3. queue'[p][i] = IF i < k THEN queue[p][i] ELSE queue[p][i + 1]
      BY <2>5, <3>1
    <3> HIDE DEF f
    <3>4. CASE i < k
      BY <2>5, <3>1, <3>2, <3>3, <3>4
    <3>5. CASE i >= k
      BY <2>5, <3>1, <3>2, <3>3, <3>5
    <3> QED  BY <3>1, <3>4, <3>5
  <2>7. \A q \in Prio \ {p} : \A i \in DOMAIN queue'[q] : f[q][i] = i /\ i \in Nat
    BY <2>2, <2>3
  <2>8. \A q \in Prio : \A i \in DOMAIN queue'[q] :
          f[q][i] \in DOMAIN queue[q] /\ queue'[q][i] = queue[q][f[q][i]]
    BY <2>3, <2>6, <2>7
  <2>9. \A q \in Prio : \A i, j \in DOMAIN queue'[q] : f[q][i] = f[q][j] => i = j
    <3>1. \A i, j \in DOMAIN queue'[p] : f[p][i] = f[p][j] => i = j
      <4>1. k \in Nat /\ \A i \in DOMAIN queue'[p] : i \in Nat
        BY <2>5
      <4>2. \A i \in DOMAIN queue'[p] : f[p][i] = IF i >= k THEN i + 1 ELSE i
        BY <4>1
      <4> HIDE DEF f
      <4> QED  BY <4>1, <4>2
    <3> QED  BY <2>7, <3>1
  <2>10. \A u \in Task : task'[u].mem = task[u].mem
    <3>1. queue[p][k] \in Task
      BY <2>2
    <3>2. ASSUME NEW r \in TaskRecord
          PROVE  [r EXCEPT !.status = "CANCELLED", !.done = TRUE].mem = r.mem
      BY DEF TaskRecord
    <3>3. task'[queue[p][k]] = [task[queue[p][k]] EXCEPT !.status = "CANCELLED", !.done = TRUE]
      BY <2>1, <3>1 DEF Typed, TypeOK
    <3>4. \A u \in Task : u # queue[p][k] => task'[u] = task[u]
      BY <2>1, <3>1 DEF Typed, TypeOK
    <3>5. task[queue[p][k]] \in TaskRecord
      BY <3>1 DEF Typed, TypeOK
    <3> QED  BY <3>2, <3>3, <3>4, <3>5, ZenonT(60)
  <2>11. /\ \A w \in Worker, u \in Task : Holds(w, u)' => Holds(w, u)
         /\ \A d \in Caller, u \in Task : Submitting(d, u)' => Submitting(d, u)
    BY <2>1 DEF Holds, Submitting
  <2> HIDE DEF f
  <2> QED  BY <2>8, <2>9, <2>10, <2>11, NobodyAcquires
<1>2. CASE ExitDrain
  <2> DEFINE f == [p \in Prio |-> [i \in DOMAIN queue[p] |-> i]]
  <2>1. \A p \in Prio : queue'[p] = queue[p] \/ DOMAIN queue'[p] = {}
    <3>1. queue' = [queue EXCEPT ![drain.next] = <<>>] /\ queue \in [Prio -> Seq(Task)]
      BY <1>2 DEF ExitDrain, Typed, TypeOK
    <3>2. DOMAIN <<>> = {}
      OBVIOUS
    <3> QED  BY <3>1, <3>2
  <2>4. /\ \A p \in Prio : \A i \in DOMAIN queue'[p] :
             f[p][i] \in DOMAIN queue[p] /\ queue'[p][i] = queue[p][f[p][i]]
        /\ \A p \in Prio : \A i, j \in DOMAIN queue'[p] : f[p][i] = f[p][j] => i = j
    BY <2>1, Zenon
  <2>2. \A t \in Task : task[t].mem # "none" => task'[t].mem # "none"
    <3>1. ASSUME NEW x \in TaskRecord
          PROVE  [x EXCEPT !.status = "CANCELLED", !.done = TRUE, !.mem = "freed"].mem = "freed"
      BY DEF TaskRecord
    <3>2. \A t \in Task :
            \/ task'[t] = task[t]
            \/ task'[t] = [task[t] EXCEPT !.status = "CANCELLED", !.done = TRUE, !.mem = "freed"]
      BY <1>2 DEF ExitDrain
    <3>3. \A t \in Task : task[t] \in TaskRecord
      BY DEF Typed, TypeOK
    <3> QED  BY <3>1, <3>2, <3>3
  <2>3. /\ \A w \in Worker, u \in Task : Holds(w, u)' => Holds(w, u)
        /\ \A d \in Caller, u \in Task : Submitting(d, u)' => Submitting(d, u)
    BY <1>2 DEF ExitDrain, Holds, Submitting
  <2> HIDE DEF f
  <2> QED  BY <2>4, <2>2, <2>3, NobodyAcquires
<1> QED
  BY <1>1, <1>2

\* Freeing does not make a structure available again.
LEMMA ReleaseKeeps ==
  ASSUME Typed, NEW t \in Task, NEW st, ReleaseTask(t, st)
  PROVE  \A u \in Task : task[u].mem # "none" => task'[u].mem # "none"
<1>1. CASE task[t].async
  <2>1. task' = [task EXCEPT ![t].mem = "freed"]
    BY <1>1, Zenon DEF ReleaseTask
  <2> QED  BY <2>1 DEF Typed, TypeOK, TaskRecord
<1>2. CASE ~task[t].async
  BY <1>2 DEF ReleaseTask
<1> QED  BY <1>1, <1>2

\* The remaining steps of a submitter: it only lets go of its task.
LEMMA CallerOwned ==
  ASSUME Typed, Typed', Owned, NEW c \in Caller, CallerStep(c)
  PROVE  Owned'
<1>1. ASSUME NEW t \in Task, NEW async \in BOOLEAN, NEW want \in Prio, SubmitBegin(c, t, async, want)
      PROVE  Owned'
  BY <1>1, SubmitBeginOwned
<1>2. CASE EnqueueLink(c)
  BY <1>2, EnqueueLinkOwned
<1>3. CASE EnqueueStamp(c)
  <2>1. caller[c].t \in Task
    BY <1>3 DEF EnqueueStamp, Typed, Pointers
  <2>2. ASSUME NEW r \in TaskRecord
        PROVE  [r EXCEPT !.id = nextId', !.status = "PENDING"].mem = r.mem
    BY DEF TaskRecord
  <2>3. /\ task'[caller[c].t] = [task[caller[c].t] EXCEPT !.id = nextId', !.status = "PENDING"]
        /\ \A u \in Task : u # caller[c].t => task'[u] = task[u]
    BY <1>3, <2>1 DEF EnqueueStamp, Typed, TypeOK
  <2>4. \A u \in Task : task[u] \in TaskRecord
    BY DEF Typed, TypeOK
  <2>5. \A u \in Task : task[u].mem # "none" => task'[u].mem # "none"
    BY <2>1, <2>2, <2>3, <2>4
  <2>6. /\ \A w \in Worker, u \in Task : Holds(w, u)' => Holds(w, u)
        /\ \A d \in Caller, u \in Task : Submitting(d, u)' => Submitting(d, u)
    BY <1>3 DEF EnqueueStamp, Holds, Submitting, Typed, TypeOK, CallerRecord
  <2> QED  BY <1>3, <2>5, <2>6, QueuesUntouched DEF EnqueueStamp
<1>4. CASE AsyncReturn(c) \/ SubmitReap(c)
  <2>1. \A u \in Task : task[u].mem # "none" => task'[u].mem # "none"
    <3>1. CASE AsyncReturn(c)
      BY <3>1 DEF AsyncReturn
    <3>2. CASE SubmitReap(c)
      <4>1. task' = [task EXCEPT ![caller[c].t].mem = "freed"]
        BY <3>2 DEF SubmitReap
      <4> QED  BY <4>1 DEF Typed, TypeOK, TaskRecord
    <3> QED  BY <1>4, <3>1, <3>2
  <2>2. /\ \A w \in Worker, u \in Task : Holds(w, u)' => Holds(w, u)
        /\ \A d \in Caller, u \in Task : Submitting(d, u)' => Submitting(d, u)
    BY <1>4 DEF AsyncReturn, SubmitReap, Holds, Submitting, Typed, TypeOK, CallerRecord, IdleCaller
  <2> QED  BY <1>4, <2>1, <2>2, QueuesUntouched DEF AsyncReturn, SubmitReap
<1> QED
  BY <1>1, <1>2, <1>3, <1>4 DEF CallerStep, WaitDone, WaitInterrupted

\* A worker acquires a task by dequeue_task only; from there to
\* current_task = NULL it keeps the one it has.
LEMMA WorkerOwned ==
  ASSUME Typed, Typed', Owned, NEW w \in Worker, WorkerStep(w) \/ WorkerStop(w)
  PROVE  Owned'
<1>1. ASSUME NEW p \in Prio, Dequeue(w, p) PROVE Owned'
  BY <1>1, DequeueOwned
<1>2. CASE Publish(w) \/ Clear(w) \/ WorkerStop(w)
  <2>1. /\ \A v \in Worker, u \in Task : Holds(v, u)' => Holds(v, u)
        /\ \A d \in Caller, u \in Task : Submitting(d, u)' => Submitting(d, u)
    <3>1. CASE Publish(w)
      BY <3>1 DEF Publish, Holds, Submitting, Typed, TypeOK, WorkerRecord
    <3>2. CASE Clear(w)
      BY <3>2 DEF Clear, Holds, Submitting, Typed, TypeOK, IdleWorker
    <3>3. CASE WorkerStop(w)
      BY <3>3 DEF WorkerStop, Holds, Submitting, Typed, TypeOK, WorkerRecord
    <3> QED  BY <1>2, <3>1, <3>2, <3>3
  <2> QED  BY <1>2, <2>1, QueuesUntouched DEF Publish, Clear, WorkerStop
<1>3. CASE Fill(w) \/ Signal(w)
  <2> DEFINE t == worker[w].t
  <2>1. /\ queue' = queue /\ caller' = caller
        /\ \E pc \in {"filled", "signalled"} : worker' = [worker EXCEPT ![w].pc = pc]
        /\ \/ task' = [task EXCEPT ![t].resp = "COMPLETED"]
           \/ task' = [task EXCEPT ![t].done = TRUE]
        /\ worker[w].pc \in {"run", "filled"}
    BY <1>3 DEF Fill, Signal
  <2>2. t \in Task
    BY <2>1 DEF Typed, Pointers
  <2>3. ASSUME NEW r \in TaskRecord
        PROVE  [r EXCEPT !.resp = "COMPLETED"].mem = r.mem /\ [r EXCEPT !.done = TRUE].mem = r.mem
    BY DEF TaskRecord
  <2>4. /\ \/ task'[t] = [task[t] EXCEPT !.resp = "COMPLETED"]
           \/ task'[t] = [task[t] EXCEPT !.done = TRUE]
        /\ \A u \in Task : u # t => task'[u] = task[u]
    BY <2>1, <2>2 DEF Typed, TypeOK
  <2>5. \A u \in Task : task[u] \in TaskRecord
    BY DEF Typed, TypeOK
  <2>6. \A u \in Task : task[u].mem # "none" => task'[u].mem # "none"
    BY <2>2, <2>3, <2>4, <2>5, ZenonT(60)
  <2>7. PICK pc \in {"filled", "signalled"} : worker' = [worker EXCEPT ![w].pc = pc]
    BY <2>1
  <2>8. /\ \A v \in Worker, u \in Task : Holds(v, u)' => Holds(v, u)
        /\ \A d \in Caller, u \in Task : Submitting(d, u)' => Submitting(d, u)
    BY <2>1, <2>7 DEF Holds, Submitting, Typed, TypeOK, WorkerRecord
  <2> QED  BY <2>1, <2>6, <2>8, QueuesUntouched
<1>4. CASE Release(w)
  <2>1. worker[w].t \in Task
    BY <1>4 DEF Release, Typed, Pointers
  <2>2. \A u \in Task : task[u].mem # "none" => task'[u].mem # "none"
    BY <1>4, <2>1, ReleaseKeeps DEF Release
  <2>3. /\ \A v \in Worker, u \in Task : Holds(v, u)' => Holds(v, u)
        /\ \A d \in Caller, u \in Task : Submitting(d, u)' => Submitting(d, u)
    BY <1>4 DEF Release, Holds, Submitting, Typed, TypeOK, WorkerRecord
  <2> QED  BY <1>4, <2>2, <2>3, QueuesUntouched DEF Release
<1> QED
  BY <1>1, <1>2, <1>3, <1>4 DEF WorkerStep

\* The watchdog marks, frees and unpublishes; it takes no task from anyone.
LEMMA WatchdogOwned ==
  ASSUME Typed, Typed', Owned, WatchdogRelease \/ \E w \in Worker : WatchdogFire(w)
  PROVE  Owned'
<1>1. ASSUME NEW w \in Worker, WatchdogFire(w) PROVE Owned'
  <2> DEFINE t == worker[w].cur
  <2>1. t \in Task
    BY <1>1 DEF WatchdogFire, Typed, TypeOK, WorkerRecord
  <2>2. ASSUME NEW r \in TaskRecord
        PROVE  [r EXCEPT !.status = "FAILED", !.resp = "FAILED", !.done = TRUE].mem = r.mem
    BY DEF TaskRecord
  <2>3. /\ task'[t] = [task[t] EXCEPT !.status = "FAILED", !.resp = "FAILED", !.done = TRUE]
        /\ \A u \in Task : u # t => task'[u] = task[u]
    BY <1>1, <2>1 DEF WatchdogFire, Typed, TypeOK
  <2>4. \A u \in Task : task[u] \in TaskRecord
    BY DEF Typed, TypeOK
  <2>5. \A u \in Task : task[u].mem # "none" => task'[u].mem # "none"
    BY <2>1, <2>2, <2>3, <2>4
  <2>6. /\ \A v \in Worker, u \in Task : Holds(v, u)' => Holds(v, u)
        /\ \A d \in Caller, u \in Task : Submitting(d, u)' => Submitting(d, u)
    BY <1>1 DEF WatchdogFire, Holds, Submitting
  <2> QED  BY <1>1, <2>5, <2>6, QueuesUntouched DEF WatchdogFire
<1>2. CASE WatchdogRelease
  <2>1. watchdog.t \in Task
    BY <1>2 DEF WatchdogRelease, Typed, Pointers
  <2>2. \A u \in Task : task[u].mem # "none" => task'[u].mem # "none"
    BY <1>2, <2>1, ReleaseKeeps DEF WatchdogRelease
  <2>3. /\ \A v \in Worker, u \in Task : Holds(v, u)' => Holds(v, u)
        /\ \A d \in Caller, u \in Task : Submitting(d, u)' => Submitting(d, u)
    BY <1>2 DEF WatchdogRelease, Holds, Submitting, Typed, TypeOK, WorkerRecord
  <2> QED  BY <1>2, <2>2, <2>3, QueuesUntouched DEF WatchdogRelease
<1> QED
  BY <1>1, <1>2

\* Steps that concern neither a queue nor a task.
LEMMA BystanderOwned ==
  ASSUME Typed, Typed', Owned,
         UNCHANGED <<task, queue, caller, worker>>
  PROVE  Owned'
<1>1. /\ \A v \in Worker, u \in Task : Holds(v, u)' => Holds(v, u)
      /\ \A d \in Caller, u \in Task : Submitting(d, u)' => Submitting(d, u)
  BY DEF Holds, Submitting
<1> QED
  BY <1>1, QueuesUntouched

\* Every step keeps every task in one place.
LEMMA NextOwned == Typed /\ Typed' /\ Owned /\ [Next]_vars => Owned'
<1> SUFFICES ASSUME Typed, Typed', Owned, [Next]_vars PROVE Owned'
  OBVIOUS
<1>1. ASSUME NEW c \in Caller, CallerStep(c) PROVE Owned'
  BY <1>1, CallerOwned
<1>2. ASSUME NEW w \in Worker, WorkerStep(w) \/ WorkerStop(w) PROVE Owned'
  BY <1>2, WorkerOwned
<1>3. CASE WatchdogRelease \/ \E w \in Worker : WatchdogFire(w)
  BY <1>3, WatchdogOwned
<1>4. CASE ExitDrain \/ \E p \in Prio : \E i \in DOMAIN queue[p] : Cancel(p, i)
  BY <1>4, UnlinkOwned
<1>5. CASE \/ DeadlinePasses \/ QueryMovesOn \/ QueryHit \/ QueryMiss
           \/ ExitBegin \/ ExitCancelWork \/ ExitFree \/ StaleAccess \/ UnloadedAccess
           \/ \E id \in AsyncIds : QueryTrack(id)
  BY <1>5, BystanderOwned DEF DeadlinePasses, QueryMovesOn, QueryHit, QueryMiss, ExitBegin,
     ExitCancelWork, ExitFree, StaleAccess, UnloadedAccess, QueryTrack
<1>6. CASE UNCHANGED vars
  BY <1>6, BystanderOwned DEF vars
<1> QED
  BY <1>1, <1>2, <1>3, <1>4, <1>5, <1>6 DEF Next

\* Before the first submission nobody owns anything.
LEMMA InitOwned == Init => Owned
<1> SUFFICES ASSUME Init PROVE Owned
  OBVIOUS
<1>1. \A p \in Prio : DOMAIN queue[p] = {}
  <2>1. queue = [p \in Prio |-> <<>>]
    BY DEF Init
  <2>2. DOMAIN <<>> = {}
    OBVIOUS
  <2> QED  BY <2>1, <2>2
<1>2. \A w \in Worker, t \in Task : ~Holds(w, t)
  BY DEF Init, Holds, IdleWorker
<1>3. \A c \in Caller, t \in Task : ~Submitting(c, t)
  BY DEF Init, Submitting, IdleCaller
<1> QED
  BY <1>1, <1>2, <1>3 DEF Owned, QueuedOnce, WorkerAlone, CallerAlone, OwnedAllocated

(***************************************************************************)
(* For every number of tasks, submitters, workers and queues, a task is in *)
(* one queue once, or with one worker, or with one submitter: the critical *)
(* sections of enqueue_task, dequeue_task and cancel_task hand it over and *)
(* nothing else moves it, whatever the watchdog and the unload do.         *)
(***************************************************************************)
THEOREM SchedulerExclusive == Spec => []ExclusiveOwnership
<1>1. Init => Typed /\ Owned
  BY InitTyped, InitOwned
<1>2. Typed /\ Owned /\ [Next]_vars => (Typed /\ Owned)'
  BY NextTyped, NextOwned
<1>3. Typed /\ Owned => ExclusiveOwnership
  BY OwnedIsExclusive
<1> QED
  BY <1>1, <1>2, <1>3, PTL DEF Spec

-----------------------------------------------------------------------------
(* Outcomes, memory and the whereabouts of tasks *)

\* current_task, while a worker publishes it, is the task it has dequeued.
CurHeld ==
  \A w \in Worker : worker[w].cur # NoTask =>
    /\ worker[w].cur = worker[w].t
    /\ worker[w].pc \in {"run", "filled", "signalled", "released"}

\* Nothing completes a task before a worker has it, except by unlinking it.
NotDoneYet ==
  /\ \A t \in QueuedTasks : task[t].done = FALSE
  /\ \A c \in Caller, t \in Task : Submitting(c, t) => task[t].done = FALSE

\* Between the response and complete_all the response stays filled in.
FilledFirst ==
  \A w \in Worker :
    worker[w].pc \in {"filled", "signalled"} => task[worker[w].t].resp \in {"COMPLETED", "FAILED"}

\* Submitters in the middle of a call have tasks of their own, and the ones
\* that wait have synchronous tasks, which nobody else frees.
CallersApart ==
  /\ \A c, d \in Caller :
       caller[c].pc # "idle" /\ caller[d].pc # "idle" /\ caller[c].t = caller[d].t => c = d
  /\ \A c \in Caller : caller[c].pc # "idle" => task[caller[c].t].mem # "none"
  /\ \A c \in Caller : caller[c].pc = "waiting" => task[caller[c].t].async = FALSE

\* The task of a watchdog callback is past its deadline, was dequeued and
\* never goes back to a queue or a submitter.
WatchdogPast ==
  watchdog # IdleWatchdog =>
    /\ late > 0
    /\ task[watchdog.t].mem # "none"
    /\ watchdog.t \notin QueuedTasks
    /\ \A c \in Caller : ~Submitting(c, watchdog.t)

\* Memory: nobody frees a task under its submitter, an asynchronous one in a
\* queue, or (before the first deadline) one that its worker will free.
LiveUntilRelease ==
  /\ \A c \in Caller, t \in Task : Submitting(c, t) => task[t].mem = "live"
  /\ \A t \in QueuedTasks : task[t].async = TRUE => task[t].mem = "live"
  /\ \A w \in Worker, t \in Task :
       Holds(w, t) /\ worker[w].pc # "released" /\ task[t].async = TRUE /\ late = 0 => task[t].mem = "live"
  /\ \A c \in Caller :
       caller[c].pc = "waiting" /\ drain.next = 0 => task[caller[c].t].mem = "live"

\* alloc_task_id comes before the link: a task others can see has an id, so
\* that the watchdog finds none late before a deadline has passed.
Stamped ==
  /\ \A c \in Caller : caller[c].pc = "stamped" => task[caller[c].t].id > 0
  /\ \A t \in QueuedTasks : task[t].id > 0
  /\ \A w \in Worker, t \in Task : Holds(w, t) => task[t].id > 0

\* The first half of NoTaskLost.
NoneMissing ==
  \A t \in Task :
    task[t].mem = "live" /\ ~task[t].done =>
      \/ \E c \in Caller : Submitting(c, t)
      \/ t \in QueuedTasks
      \/ \E w \in Worker : Holds(w, t) /\ worker[w].pc \in {"got", "run", "filled"}

\* DoneHasOutcome and what it rests on.
Outcome == DoneHasOutcome /\ FilledFirst

\* The inductive invariant, relative to Typed and Owned.
Safe ==
  /\ CurHeld /\ NotDoneYet /\ Outcome /\ CallersApart /\ WatchdogPast
  /\ LiveUntilRelease /\ Stamped /\ NoneMissing /\ FreedOnceBeforeDeadline

\* A queued task is allocated and with nobody.
LEMMA QueuedFacts ==
  ASSUME Typed, Owned, NEW t \in QueuedTasks
  PROVE  /\ t \in Task /\ task[t].mem # "none"
         /\ \A w \in Worker : ~Holds(w, t)
         /\ \A c \in Caller : ~Submitting(c, t)
<1>1. PICK p \in Prio : \E i \in DOMAIN queue[p] : t = queue[p][i]
  BY DEF QueuedTasks, ToSet
<1>2. PICK i \in DOMAIN queue[p] : t = queue[p][i]
  BY <1>1
<1>3. t \in Task
  BY <1>2 DEF Typed, TypeOK
<1> QED
  BY <1>2, <1>3 DEF Owned, WorkerAlone, CallerAlone, OwnedAllocated

\* A worker or submitter has its task to itself.
LEMMA OwnerFacts ==
  ASSUME Typed, Owned
  PROVE  /\ \A w \in Worker : worker[w].pc \notin {"idle", "stopped"} =>
              /\ worker[w].t \in Task /\ task[worker[w].t].mem # "none" /\ worker[w].t \notin QueuedTasks
              /\ \A c \in Caller : ~Submitting(c, worker[w].t)
              /\ \A v \in Worker : Holds(v, worker[w].t) => v = w
         /\ \A c \in Caller : caller[c].pc \in {"checked", "stamped"} =>
              /\ caller[c].t \in Task /\ task[caller[c].t].mem # "none" /\ caller[c].t \notin QueuedTasks
              /\ \A w \in Worker : ~Holds(w, caller[c].t)
              /\ \A d \in Caller : Submitting(d, caller[c].t) => d = c
<1>1. ASSUME NEW w \in Worker, worker[w].pc \notin {"idle", "stopped"}
      PROVE  /\ worker[w].t \in Task /\ task[worker[w].t].mem # "none" /\ worker[w].t \notin QueuedTasks
             /\ \A c \in Caller : ~Submitting(c, worker[w].t)
             /\ \A v \in Worker : Holds(v, worker[w].t) => v = w
  <2>1. worker[w].t \in Task /\ Holds(w, worker[w].t)
    BY <1>1 DEF Holds, Typed, Pointers
  <2>2. worker[w].t \notin QueuedTasks
    BY <2>1, QueuedFacts
  <2> QED  BY <2>1, <2>2 DEF Owned, WorkerAlone, CallerAlone, OwnedAllocated
<1>2. ASSUME NEW c \in Caller, caller[c].pc \in {"checked", "stamped"}
      PROVE  /\ caller[c].t \in Task /\ task[caller[c].t].mem # "none" /\ caller[c].t \notin QueuedTasks
             /\ \A w \in Worker : ~Holds(w, caller[c].t)
             /\ \A d \in Caller : Submitting(d, caller[c].t) => d = c
  <2>1. caller[c].t \in Task /\ Submitting(c, caller[c].t)
    BY <1>2 DEF Submitting, Typed, Pointers
  <2>2. caller[c].t \notin QueuedTasks
    BY <2>1, QueuedFacts
  <2> QED  BY <2>1, <2>2 DEF Owned, WorkerAlone, CallerAlone, OwnedAllocated
<1> QED  BY <1>1, <1>2

\* A new task: live, not done, seen by its submitter only.
LEMMA SubmitBeginSafe ==
  ASSUME Typed, Owned, Safe, NEW c \in Caller, NEW t \in Task, NEW async \in BOOLEAN, NEW want \in Prio,
         SubmitBegin(c, t, async, want)
  PROVE  Safe'
<1>1. /\ UNCHANGED <<drain, crash, queue, late, worker, watchdog>>
      /\ caller[c].pc = "idle" /\ task[t].mem = "none"
      /\ caller' = [caller EXCEPT ![c] = [pc |-> "checked", t |-> t]]
      /\ task' = [task EXCEPT ![t] = NewTask(async, want)]
  BY DEF SubmitBegin
<1>2. /\ NewTask(async, want).mem = "live" /\ NewTask(async, want).done = FALSE
      /\ NewTask(async, want).id = 0
  BY DEF NewTask, Unallocated
<1>3. /\ task'[t].mem = "live" /\ task'[t].done = FALSE
      /\ \A u \in Task \ {t} : task'[u] = task[u]
  BY <1>1, <1>2 DEF Typed, TypeOK
<1>4. /\ caller'[c].pc = "checked" /\ caller'[c].t = t
      /\ \A d \in Caller \ {c} : caller'[d] = caller[d]
  BY <1>1 DEF Typed, TypeOK
<1>5. QueuedTasks' = QueuedTasks /\ t \notin QueuedTasks /\ QueuedTasks \subseteq Task
  BY <1>1, QueuedFacts DEF QueuedTasks
<1>6. /\ \A w \in Worker, u \in Task : Holds(w, u)' <=> Holds(w, u)
      /\ \A d \in Caller, u \in Task : Submitting(d, u)' <=> (Submitting(d, u) /\ u # t) \/ (d = c /\ u = t)
      /\ \A w \in Worker : ~Holds(w, t)
      /\ \A d \in Caller : ~Submitting(d, t)
  BY <1>1, <1>4 DEF Holds, Submitting, Owned, OwnedAllocated
<1>7. CurHeld' /\ FreedOnceBeforeDeadline'
  BY <1>1 DEF Safe, CurHeld, FreedOnceBeforeDeadline
<1>8. NotDoneYet'
  BY <1>3, <1>5, <1>6 DEF Safe, NotDoneYet
<1>9. Outcome'
  <2>1. DoneHasOutcome'
    BY <1>3 DEF Safe, Outcome, DoneHasOutcome
  <2>2. FilledFirst'
    BY <1>1, <1>3, OwnerFacts DEF Safe, Outcome, FilledFirst
  <2> QED  BY <2>1, <2>2 DEF Outcome
<1>10. CallersApart'
  BY <1>1, <1>3, <1>4 DEF Safe, CallersApart, Typed, Pointers
<1>11. WatchdogPast'
  BY <1>1, <1>3, <1>5, <1>6 DEF Safe, WatchdogPast, Typed, Pointers
<1>12. LiveUntilRelease'
  BY <1>1, <1>3, <1>4, <1>5, <1>6 DEF Safe, LiveUntilRelease, CallersApart, Typed, Pointers
<1>13. Stamped'
  BY <1>1, <1>3, <1>4, <1>5, <1>6 DEF Safe, Stamped, CallersApart, Typed, Pointers
<1>14. NoneMissing'
  BY <1>1, <1>3, <1>5, <1>6 DEF Safe, NoneMissing
<1> QED
  BY <1>7, <1>8, <1>9, <1>10, <1>11, <1>12, <1>13, <1>14 DEF Safe

\* Linking at the tail of a queue adds the task to the queued ones.
LEMMA LinkQueued ==
  ASSUME Typed, NEW p \in Prio, NEW t \in Task, queue' = [queue EXCEPT ![p] = Append(@, t)]
  PROVE  QueuedTasks' = QueuedTasks \cup {t}
<1>1. \A q \in Prio : queue[q] \in Seq(Task)
  BY DEF Typed, TypeOK
<1>2. /\ queue'[p] = Append(queue[p], t)
      /\ \A q \in Prio \ {p} : queue'[q] = queue[q]
  BY DEF Typed, TypeOK
<1>3. ToSet(Append(queue[p], t)) = ToSet(queue[p]) \cup {t}
  <2>1. /\ Len(queue[p]) \in Nat /\ DOMAIN queue[p] = 1..Len(queue[p])
        /\ DOMAIN Append(queue[p], t) = 1..(Len(queue[p]) + 1)
        /\ \A i \in 1..Len(queue[p]) : Append(queue[p], t)[i] = queue[p][i]
        /\ Append(queue[p], t)[Len(queue[p]) + 1] = t
    BY <1>1
  <2>2. \A i \in DOMAIN Append(queue[p], t) : i \in DOMAIN queue[p] \/ i = Len(queue[p]) + 1
    BY <2>1
  <2>3. /\ \A i \in DOMAIN queue[p] : i \in DOMAIN Append(queue[p], t)
        /\ Len(queue[p]) + 1 \in DOMAIN Append(queue[p], t)
    BY <2>1
  <2> QED  BY <2>1, <2>2, <2>3 DEF ToSet
<1> QED
  BY <1>2, <1>3 DEF QueuedTasks

\* Unlinking position k of a queue removes that task, which is queued once.
LEMMA UnlinkQueued ==
  ASSUME Typed, Owned, NEW p \in Prio, NEW k \in DOMAIN queue[p], queue' = [queue EXCEPT ![p] = RemoveAt(@, k)]
  PROVE  QueuedTasks' = QueuedTasks \ {queue[p][k]} /\ queue[p][k] \in QueuedTasks
<1> DEFINE s == queue[p]
           r == RemoveAt(s, k)
<1>1. s \in Seq(Task) /\ Len(s) \in Nat /\ DOMAIN s = 1..Len(s) /\ k \in 1..Len(s)
  BY DEF Typed, TypeOK
<1>2. /\ r \in Seq(Task) /\ Len(r) = Len(s) - 1
      /\ \A j \in 1..(Len(s) - 1) : r[j] = IF j < k THEN s[j] ELSE s[j + 1]
  BY <1>1, RemoveAtElements
<1>3. DOMAIN r = 1..(Len(s) - 1)
  BY <1>1, <1>2
<1>4. /\ queue'[p] = r
      /\ \A q \in Prio \ {p} : queue'[q] = queue[q]
  BY DEF Typed, TypeOK
<1>5. \A i, j \in DOMAIN s : s[i] = s[j] => i = j
  BY DEF Owned, QueuedOnce
<1>6. \A q \in Prio \ {p} : s[k] \notin ToSet(queue[q])
  BY DEF Owned, QueuedOnce, ToSet
<1> HIDE DEF s, r
<1>7. \A j \in DOMAIN r : \E i \in DOMAIN s : i # k /\ r[j] = s[i]
  <2> TAKE j \in DOMAIN r
  <2>1. CASE j < k
    BY <1>1, <1>2, <1>3, <2>1
  <2>2. CASE ~(j < k)
    <3>1. j + 1 \in DOMAIN s /\ j + 1 # k /\ r[j] = s[j + 1]
      BY <1>1, <1>2, <1>3, <2>2
    <3> QED  BY <3>1
  <2> QED  BY <2>1, <2>2
<1>8. \A i \in DOMAIN s : i # k => \E j \in DOMAIN r : r[j] = s[i]
  <2> TAKE i \in DOMAIN s
  <2> HAVE i # k
  <2>1. CASE i < k
    BY <1>1, <1>2, <1>3, <2>1
  <2>2. CASE ~(i < k)
    <3>1. i - 1 \in DOMAIN r /\ r[i - 1] = s[(i - 1) + 1] /\ (i - 1) + 1 = i
      BY <1>1, <1>2, <1>3, <2>2
    <3> QED  BY <3>1
  <2> QED  BY <2>1, <2>2
<1>9. ToSet(r) = ToSet(s) \ {s[k]}
  <2>1. \A x : x \in ToSet(r) => x \in ToSet(s) /\ x # s[k]
    BY <1>1, <1>5, <1>7 DEF ToSet
  <2>2. \A x : x \in ToSet(s) /\ x # s[k] => x \in ToSet(r)
    BY <1>8 DEF ToSet
  <2> QED  BY <2>1, <2>2
<1>10. s[k] \in ToSet(s)
  BY <1>1 DEF ToSet
<1> QED
  BY <1>4, <1>6, <1>9, <1>10 DEF QueuedTasks, s

\* dequeue_task unlinks the head.
LEMMA HeadQueued ==
  ASSUME Typed, Owned, NEW p \in Prio, queue[p] # <<>>, queue' = [queue EXCEPT ![p] = Tail(@)]
  PROVE  /\ QueuedTasks' = QueuedTasks \ {Head(queue[p])}
         /\ Head(queue[p]) \in QueuedTasks
<1> DEFINE s == queue[p]
           r == Tail(s)
<1>1. s \in Seq(Task) /\ Len(s) \in Nat /\ DOMAIN s = 1..Len(s) /\ 1 \in 1..Len(s) /\ Head(s) = s[1]
  BY DEF Typed, TypeOK
<1>2. DOMAIN r = 1..(Len(s) - 1) /\ \A j \in 1..(Len(s) - 1) : r[j] = s[j + 1]
  BY <1>1
<1>3. /\ queue'[p] = r
      /\ \A q \in Prio \ {p} : queue'[q] = queue[q]
  BY DEF Typed, TypeOK
<1>4. \A i, j \in DOMAIN s : s[i] = s[j] => i = j
  BY DEF Owned, QueuedOnce
<1>5. \A q \in Prio \ {p} : s[1] \notin ToSet(queue[q])
  BY <1>1 DEF Owned, QueuedOnce, ToSet
<1> HIDE DEF s, r
<1>6. \A j \in DOMAIN r : j + 1 \in DOMAIN s /\ j + 1 # 1 /\ r[j] = s[j + 1]
  BY <1>1, <1>2
<1>7. \A i \in DOMAIN s : i # 1 => i - 1 \in DOMAIN r /\ r[i - 1] = s[i]
  <2> TAKE i \in DOMAIN s
  <2> HAVE i # 1
  <2>1. i - 1 \in DOMAIN r /\ r[i - 1] = s[(i - 1) + 1] /\ (i - 1) + 1 = i
    BY <1>1, <1>2
  <2> QED  BY <2>1
<1>8. ToSet(r) = ToSet(s) \ {s[1]}
  BY <1>1, <1>4, <1>6, <1>7 DEF ToSet
<1>9. s[1] \in ToSet(s)
  BY <1>1 DEF ToSet
<1>10. QueuedTasks' = QueuedTasks \ {s[1]}
  <2>1. \A q \in Prio : ToSet(queue'[q]) = ToSet(queue[q]) \ {s[1]}
    BY <1>3, <1>5, <1>8 DEF s
  <2>2. /\ \A x : x \in QueuedTasks <=> \E q \in Prio : x \in ToSet(queue[q])
        /\ \A x : x \in QueuedTasks' <=> \E q \in Prio : x \in ToSet(queue'[q])
    BY DEF QueuedTasks
  <2>3. \A x : x \in QueuedTasks' <=> x \in QueuedTasks /\ x # s[1]
    <3> TAKE x
    <3>1. \A q \in Prio : x \in ToSet(queue'[q]) <=> x \in ToSet(queue[q]) /\ x # s[1]
      BY <2>1
    <3> QED  BY <2>2, <3>1, Zenon
  <2> QED  BY <2>3
<1>11. s[1] \in QueuedTasks
  BY <1>9 DEF QueuedTasks, s
<1> QED
  BY <1>1, <1>10, <1>11 DEF s

\* alloc_task_id: the task gets its id and stays with its submitter.
LEMMA StampSafe ==
  ASSUME Typed, Owned, Safe, NEW c \in Caller, EnqueueStamp(c)
  PROVE  Safe'
<1> DEFINE t == caller[c].t
<1>1. UNCHANGED <<drain, crash, queue, late, worker, watchdog>> /\ caller[c].pc = "checked"
  BY DEF EnqueueStamp
<1>2. /\ t \in Task /\ Submitting(c, t) /\ \A d \in Caller : Submitting(d, t) => d = c
      /\ \A w \in Worker : ~Holds(w, t)
  BY <1>1, OwnerFacts DEF Submitting
<1>3. nextId' \in Nat /\ nextId' > 0
  BY DEF EnqueueStamp, Typed, TypeOK
<1>4. /\ task'[t] = [task[t] EXCEPT !.id = nextId', !.status = "PENDING"]
      /\ \A u \in Task \ {t} : task'[u] = task[u]
  BY <1>2 DEF EnqueueStamp, Typed, TypeOK
<1>5. /\ task'[t].mem = task[t].mem /\ task'[t].async = task[t].async
      /\ task'[t].resp = task[t].resp /\ task'[t].done = task[t].done /\ task'[t].id = nextId'
  <2>1. ASSUME NEW r \in TaskRecord, NEW n
        PROVE  /\ [r EXCEPT !.id = n, !.status = "PENDING"].mem = r.mem
               /\ [r EXCEPT !.id = n, !.status = "PENDING"].async = r.async
               /\ [r EXCEPT !.id = n, !.status = "PENDING"].resp = r.resp
               /\ [r EXCEPT !.id = n, !.status = "PENDING"].done = r.done
               /\ [r EXCEPT !.id = n, !.status = "PENDING"].id = n
    BY DEF TaskRecord
  <2>2. task[t] \in TaskRecord
    BY <1>2 DEF Typed, TypeOK
  <2> QED  BY <1>4, <2>1, <2>2
<1>6. \A u \in Task : /\ task'[u].mem = task[u].mem /\ task'[u].async = task[u].async
                      /\ task'[u].resp = task[u].resp /\ task'[u].done = task[u].done
                      /\ task[u].id > 0 => task'[u].id > 0
  BY <1>3, <1>4, <1>5
<1>7. /\ caller'[c].pc = "stamped" /\ caller'[c].t = t
      /\ \A d \in Caller \ {c} : caller'[d] = caller[d]
  BY DEF EnqueueStamp, Typed, TypeOK, CallerRecord
<1>8. QueuedTasks' = QueuedTasks /\ QueuedTasks \subseteq Task
  BY <1>1, QueuedFacts DEF QueuedTasks
<1>9. /\ \A w \in Worker, u \in Task : Holds(w, u)' <=> Holds(w, u)
      /\ \A d \in Caller, u \in Task : Submitting(d, u)' <=> Submitting(d, u)
  BY <1>1, <1>7 DEF Holds, Submitting
<1>10. ~task[t].done
  BY <1>2 DEF Safe, NotDoneYet
<1> HIDE DEF t
<1>11. CurHeld' /\ FreedOnceBeforeDeadline'
  BY <1>1 DEF Safe, CurHeld, FreedOnceBeforeDeadline
<1>12. NotDoneYet'
  BY <1>6, <1>8, <1>9 DEF Safe, NotDoneYet
<1>13. DoneHasOutcome'
  BY <1>4, <1>5, <1>10 DEF Safe, Outcome, DoneHasOutcome
<1>14. FilledFirst'
  BY <1>1, <1>6, OwnerFacts DEF Safe, Outcome, FilledFirst
<1>15. CallersApart'
  BY <1>1, <1>2, <1>6, <1>7 DEF Safe, CallersApart, Typed, Pointers, t
<1>16. WatchdogPast'
  BY <1>1, <1>6, <1>8, <1>9 DEF Safe, WatchdogPast, Typed, Pointers
<1>17. LiveUntilRelease'
  BY <1>1, <1>6, <1>7, <1>8, <1>9 DEF Safe, LiveUntilRelease, Typed, Pointers
<1>18. Stamped'
  BY <1>1, <1>3, <1>5, <1>6, <1>7, <1>8, <1>9 DEF Safe, Stamped, Typed, Pointers
<1>19. NoneMissing'
  BY <1>1, <1>6, <1>8, <1>9 DEF Safe, NoneMissing
<1> QED
  BY <1>11, <1>12, <1>13, <1>14, <1>15, <1>16, <1>17, <1>18, <1>19 DEF Safe, Outcome

\* enqueue_task: the task moves from the submitter to a queue.
LEMMA LinkSafe ==
  ASSUME Typed, Owned, Safe, NEW c \in Caller, EnqueueLink(c)
  PROVE  Safe'
<1> DEFINE t == caller[c].t
           p == priority_to_queue(task[t].prio)
<1>1. /\ drain'.next = drain.next /\ UNCHANGED <<crash, task, late, worker, watchdog>>
      /\ caller[c].pc = "stamped"
      /\ queue' = [queue EXCEPT ![p] = Append(@, t)]
      /\ caller' = [caller EXCEPT ![c].pc = IF task[t].async THEN "linked" ELSE "waiting"]
  BY DEF EnqueueLink, Typed, TypeOK, DrainRecord
<1>2. /\ t \in Task /\ Submitting(c, t) /\ \A d \in Caller : Submitting(d, t) => d = c
      /\ \A w \in Worker : ~Holds(w, t)
  BY <1>1, OwnerFacts DEF Submitting
<1>3. p \in Prio
  BY <1>2, SchedAssumption, SMTT(30) DEF Typed, TypeOK, TaskRecord, priority_to_queue, Prio
<1>4. QueuedTasks' = QueuedTasks \cup {t} /\ QueuedTasks \subseteq Task
  BY <1>1, <1>2, <1>3, LinkQueued, QueuedFacts
<1>5. /\ caller'[c].pc = IF task[t].async THEN "linked" ELSE "waiting"
      /\ caller'[c].t = t
      /\ \A d \in Caller \ {c} : caller'[d] = caller[d]
  BY <1>1 DEF Typed, TypeOK, CallerRecord
<1>6. task[t].async \in BOOLEAN
  BY <1>2 DEF Typed, TypeOK, TaskRecord
<1>7. /\ caller'[c].pc \in {"linked", "waiting"}
      /\ caller'[c].pc = "waiting" => task[t].async = FALSE
  BY <1>5, <1>6
<1>8. /\ \A w \in Worker, u \in Task : Holds(w, u)' <=> Holds(w, u)
      /\ \A d \in Caller, u \in Task : Submitting(d, u)' <=> Submitting(d, u) /\ d # c
  BY <1>1, <1>5, <1>7 DEF Holds, Submitting
<1>9. \A u \in Task : ~(\E d \in Caller : Submitting(d, u)') => u = t \/ ~\E d \in Caller : Submitting(d, u)
  BY <1>2, <1>8 DEF Submitting
<1> HIDE DEF t, p
<1>10. CurHeld' /\ FreedOnceBeforeDeadline'
  BY <1>1 DEF Safe, CurHeld, FreedOnceBeforeDeadline
<1>11. NotDoneYet'
  BY <1>1, <1>2, <1>4, <1>8 DEF Safe, NotDoneYet
<1>12. Outcome'
  BY <1>1 DEF Safe, Outcome, DoneHasOutcome, FilledFirst
<1>13. CallersApart'
  BY <1>1, <1>5, <1>7 DEF Safe, CallersApart, t
<1>14. WatchdogPast'
  BY <1>1, <1>2, <1>4, <1>8 DEF Safe, WatchdogPast, Typed, Pointers
<1>15. LiveUntilRelease'
  BY <1>1, <1>2, <1>4, <1>5, <1>7, <1>8 DEF Safe, LiveUntilRelease
<1>16. Stamped'
  BY <1>1, <1>2, <1>4, <1>5, <1>7, <1>8 DEF Safe, Stamped, t
<1>17. NoneMissing'
  BY <1>1, <1>4, <1>8, <1>9 DEF Safe, NoneMissing
<1> QED
  BY <1>10, <1>11, <1>12, <1>13, <1>14, <1>15, <1>16, <1>17 DEF Safe

\* ai_sched_submit_async returns: only the submitter is affected.
LEMMA ReturnSafe ==
  ASSUME Typed, Owned, Safe, NEW c \in Caller, AsyncReturn(c)
  PROVE  Safe'
<1>1. UNCHANGED <<drain, crash, task, queue, late, worker, watchdog>> /\ caller[c].pc = "linked"
  BY DEF AsyncReturn
<1>2. caller'[c].pc = "idle" /\ \A d \in Caller \ {c} : caller'[d] = caller[d]
  BY DEF AsyncReturn, Typed, TypeOK, IdleCaller
<1>3. QueuedTasks' = QueuedTasks /\ QueuedTasks \subseteq Task
  BY <1>1, QueuedFacts DEF QueuedTasks
<1>4. /\ \A w \in Worker, u \in Task : Holds(w, u)' <=> Holds(w, u)
      /\ \A d \in Caller, u \in Task : Submitting(d, u)' <=> Submitting(d, u)
  BY <1>1, <1>2 DEF Holds, Submitting
<1>5. CurHeld' /\ FreedOnceBeforeDeadline' /\ Outcome'
  BY <1>1 DEF Safe, CurHeld, FreedOnceBeforeDeadline, Outcome, DoneHasOutcome, FilledFirst
<1>6. NotDoneYet' /\ NoneMissing'
  BY <1>1, <1>3, <1>4 DEF Safe, NotDoneYet, NoneMissing
<1>7. CallersApart'
  BY <1>1, <1>2 DEF Safe, CallersApart
<1>8. WatchdogPast'
  BY <1>1, <1>3, <1>4 DEF Safe, WatchdogPast, Typed, Pointers
<1>9. LiveUntilRelease'
  BY <1>1, <1>2, <1>3, <1>4 DEF Safe, LiveUntilRelease
<1>10. Stamped'
  BY <1>1, <1>2, <1>3, <1>4 DEF Safe, Stamped
<1> QED
  BY <1>5, <1>6, <1>7, <1>8, <1>9, <1>10 DEF Safe

\* kfree changes nothing else about the structure.
LEMMA FreedFields ==
  ASSUME task \in Tasks, NEW t \in Task, task' = [task EXCEPT ![t].mem = "freed"]
  PROVE  /\ task'[t].mem = "freed"
         /\ \A u \in Task \ {t} : task'[u] = task[u]
         /\ \A u \in Task : /\ task'[u].id = task[u].id /\ task'[u].async = task[u].async
                            /\ task'[u].status = task[u].status /\ task'[u].resp = task[u].resp
                            /\ task'[u].done = task[u].done /\ task'[u].prio = task[u].prio
<1>1. ASSUME NEW r \in TaskRecord
      PROVE  /\ [r EXCEPT !.mem = "freed"].mem = "freed"
             /\ [r EXCEPT !.mem = "freed"].id = r.id
             /\ [r EXCEPT !.mem = "freed"].async = r.async
             /\ [r EXCEPT !.mem = "freed"].status = r.status
             /\ [r EXCEPT !.mem = "freed"].resp = r.resp
             /\ [r EXCEPT !.mem = "freed"].done = r.done
             /\ [r EXCEPT !.mem = "freed"].prio = r.prio
  BY DEF TaskRecord
<1>2. /\ task[t] \in TaskRecord
      /\ task'[t] = [task[t] EXCEPT !.mem = "freed"]
      /\ \A u \in Task \ {t} : task'[u] = task[u]
  BY DEF Tasks
<1>3. /\ task'[t].mem = "freed" /\ task'[t].id = task[t].id /\ task'[t].async = task[t].async
      /\ task'[t].status = task[t].status /\ task'[t].resp = task[t].resp
      /\ task'[t].done = task[t].done /\ task'[t].prio = task[t].prio
  BY <1>1, <1>2
<1> QED
  BY <1>2, <1>3

\* ai_sched_submit frees its task after the wait: synchronous, and live unless
\* the drain has freed it.
LEMMA ReapSafe ==
  ASSUME Typed, Owned, Safe, NEW c \in Caller, caller[c].pc = "waiting", SubmitReap(c)
  PROVE  Safe'
<1> DEFINE t == caller[c].t
<1>1. /\ UNCHANGED <<drain, queue, late, worker, watchdog>> /\ Up
      /\ crash' = CrashOfFree(t)
  BY DEF SubmitReap
<1>2. t \in Task /\ task[t].async = FALSE /\ (drain.next = 0 => task[t].mem = "live") /\ task[t].mem # "none"
  BY DEF Safe, CallersApart, LiveUntilRelease, Typed, Pointers
<1>3. /\ task'[t].mem = "freed"
      /\ \A u \in Task \ {t} : task'[u] = task[u]
      /\ \A u \in Task : /\ task'[u].id = task[u].id /\ task'[u].async = task[u].async
                         /\ task'[u].status = task[u].status /\ task'[u].resp = task[u].resp
                         /\ task'[u].done = task[u].done
  BY <1>2, FreedFields DEF SubmitReap, Typed, TypeOK, Tasks
<1>4. caller'[c].pc = "idle" /\ \A d \in Caller \ {c} : caller'[d] = caller[d]
  BY DEF SubmitReap, Typed, TypeOK, IdleCaller
<1>5. QueuedTasks' = QueuedTasks /\ QueuedTasks \subseteq Task
  BY <1>1, QueuedFacts DEF QueuedTasks
<1>6. /\ \A w \in Worker, u \in Task : Holds(w, u)' <=> Holds(w, u)
      /\ \A d \in Caller, u \in Task : Submitting(d, u)' <=> Submitting(d, u)
      /\ \A d \in Caller : ~Submitting(d, t)
  BY <1>1, <1>4 DEF Holds, Submitting, Safe, CallersApart
<1>7. \A u \in Task : task'[u].mem # "none" <=> task[u].mem # "none"
  BY <1>2, <1>3
<1> HIDE DEF t
<1>8. CurHeld'
  BY <1>1 DEF Safe, CurHeld
<1>9. FreedOnceBeforeDeadline'
  <2>1. drain.next \in Nat
    BY DrainLoop DEF Typed, TypeOK
  <2> QED  BY <1>1, <1>2, <2>1 DEF FreedOnceBeforeDeadline, CrashOfFree, Freed, Up
<1>10. NotDoneYet'
  BY <1>3, <1>5, <1>6 DEF Safe, NotDoneYet
<1>11. DoneHasOutcome'
  BY <1>3 DEF Safe, Outcome, DoneHasOutcome
<1>12. FilledFirst'
  BY <1>1, <1>3, OwnerFacts DEF Safe, Outcome, FilledFirst
<1>13. CallersApart'
  BY <1>3, <1>4, <1>7 DEF Safe, CallersApart, Typed, Pointers
<1>14. WatchdogPast'
  BY <1>1, <1>5, <1>6, <1>7 DEF Safe, WatchdogPast, Typed, Pointers
<1>15. LiveUntilRelease'
  <2>1. \A d \in Caller : caller'[d].pc = "waiting" => caller'[d].t \in Task \ {t}
    BY <1>4 DEF Safe, CallersApart, Typed, Pointers, t
  <2> QED  BY <1>1, <1>2, <1>3, <1>4, <1>5, <1>6, <2>1 DEF Safe, LiveUntilRelease
<1>16. Stamped'
  BY <1>1, <1>3, <1>4, <1>5, <1>6 DEF Safe, Stamped, Typed, Pointers
<1>17. NoneMissing'
  BY <1>1, <1>3, <1>5, <1>6 DEF Safe, NoneMissing
<1> QED
  BY <1>8, <1>9, <1>10, <1>11, <1>12, <1>13, <1>14, <1>15, <1>16, <1>17 DEF Safe, Outcome

\* dequeue_task: the task moves from the queue to the worker.
LEMMA DequeueSafe ==
  ASSUME Typed, Owned, Safe, NEW w \in Worker, NEW p \in Prio, Dequeue(w, p)
  PROVE  Safe'
<1> DEFINE t == Head(queue[p])
<1>1. /\ UNCHANGED <<drain, crash, late, caller, watchdog>> /\ worker[w].pc = "idle"
      /\ queue' = [queue EXCEPT ![p] = Tail(@)] /\ queue[p] # <<>>
  BY DEF Dequeue, HighestNonEmpty
<1>2. QueuedTasks' = QueuedTasks \ {t} /\ t \in QueuedTasks
  BY <1>1, HeadQueued
<1>3. /\ t \in Task /\ QueuedTasks \subseteq Task
      /\ \A v \in Worker : ~Holds(v, t)
      /\ \A d \in Caller : ~Submitting(d, t)
  BY <1>2, QueuedFacts
<1>4. /\ \A u \in Task \ {t} : task'[u] = task[u]
      /\ task'[t] = [task[t] EXCEPT !.status = "RUNNING"]
  BY <1>3 DEF Dequeue, Typed, TypeOK
<1>5. /\ task'[t].mem = task[t].mem /\ task'[t].async = task[t].async /\ task'[t].id = task[t].id
      /\ task'[t].resp = task[t].resp /\ task'[t].done = task[t].done
  <2>1. ASSUME NEW r \in TaskRecord
        PROVE  /\ [r EXCEPT !.status = "RUNNING"].mem = r.mem
               /\ [r EXCEPT !.status = "RUNNING"].async = r.async
               /\ [r EXCEPT !.status = "RUNNING"].id = r.id
               /\ [r EXCEPT !.status = "RUNNING"].resp = r.resp
               /\ [r EXCEPT !.status = "RUNNING"].done = r.done
    BY DEF TaskRecord
  <2>2. task[t] \in TaskRecord
    BY <1>3 DEF Typed, TypeOK
  <2> QED  BY <1>4, <2>1, <2>2
<1>6. \A u \in Task : /\ task'[u].mem = task[u].mem /\ task'[u].async = task[u].async /\ task'[u].id = task[u].id
                      /\ task'[u].resp = task[u].resp /\ task'[u].done = task[u].done
  BY <1>4, <1>5
<1>7. /\ worker'[w].pc = "got" /\ worker'[w].t = t /\ worker'[w].cur = worker[w].cur
      /\ \A v \in Worker \ {w} : worker'[v] = worker[v]
  BY DEF Dequeue, Typed, TypeOK, WorkerRecord
<1>8. /\ \A v \in Worker, u \in Task : Holds(v, u)' <=> (v # w /\ Holds(v, u)) \/ (v = w /\ u = t)
      /\ \A d \in Caller, u \in Task : Submitting(d, u)' <=> Submitting(d, u)
      /\ \A u \in Task : ~Holds(w, u)
  BY <1>1, <1>7 DEF Holds, Submitting
<1>9. task[t].done = FALSE /\ task[t].id > 0 /\ (task[t].async = TRUE => task[t].mem = "live")
  BY <1>2 DEF Safe, NotDoneYet, Stamped, LiveUntilRelease
<1> HIDE DEF t
<1>10. CurHeld'
  BY <1>1, <1>7 DEF Safe, CurHeld
<1>11. NotDoneYet' /\ FreedOnceBeforeDeadline'
  BY <1>1, <1>2, <1>3, <1>6, <1>8 DEF Safe, NotDoneYet, FreedOnceBeforeDeadline
<1>12. DoneHasOutcome'
  BY <1>4, <1>5, <1>9 DEF Safe, Outcome, DoneHasOutcome
<1>13. FilledFirst'
  BY <1>6, <1>7, OwnerFacts DEF Safe, Outcome, FilledFirst
<1>14. CallersApart'
  BY <1>1, <1>6 DEF Safe, CallersApart, Typed, Pointers
<1>15. WatchdogPast'
  BY <1>1, <1>2, <1>6, <1>8 DEF Safe, WatchdogPast, Typed, Pointers
<1>16. LiveUntilRelease'
  BY <1>1, <1>2, <1>3, <1>6, <1>7, <1>8, <1>9 DEF Safe, LiveUntilRelease, Typed, Pointers
<1>17. Stamped'
  BY <1>1, <1>2, <1>3, <1>6, <1>8, <1>9 DEF Safe, Stamped, Typed, Pointers
<1>18. NoneMissing'
  BY <1>2, <1>6, <1>7, <1>8 DEF Safe, NoneMissing
<1> QED
  BY <1>10, <1>11, <1>12, <1>13, <1>14, <1>15, <1>16, <1>17, <1>18 DEF Safe, Outcome

\* current_task is set, is cleared, or the thread stops.
LEMMA PublishSafe ==
  ASSUME Typed, Owned, Safe, NEW w \in Worker, Publish(w) \/ Clear(w) \/ WorkerStop(w)
  PROVE  Safe'
<1>1. UNCHANGED <<drain, crash, task, queue, late, caller, watchdog>>
  BY DEF Publish, Clear, WorkerStop
<1>2. /\ \/ worker[w].pc = "got" /\ worker'[w].pc = "run" /\ worker'[w].cur = worker[w].t /\ worker'[w].t = worker[w].t
         \/ worker[w].pc = "released" /\ worker'[w].pc = "idle" /\ worker'[w].cur = NoTask
         \/ worker[w].pc = "idle" /\ worker'[w].pc = "stopped" /\ worker'[w].cur = worker[w].cur
      /\ \A v \in Worker \ {w} : worker'[v] = worker[v]
  BY DEF Publish, Clear, WorkerStop, Typed, TypeOK, WorkerRecord, IdleWorker
<1>3. QueuedTasks' = QueuedTasks /\ QueuedTasks \subseteq Task
  BY <1>1, QueuedFacts DEF QueuedTasks
<1>4. /\ \A v \in Worker, u \in Task : Holds(v, u)' => Holds(v, u)
      /\ \A v \in Worker, u \in Task :
           Holds(v, u) /\ worker[v].pc \in {"got", "run", "filled"} =>
             Holds(v, u)' /\ worker'[v].pc \in {"got", "run", "filled"}
      /\ \A v \in Worker, u \in Task : Holds(v, u)' /\ worker'[v].pc # "released" => worker[v].pc # "released"
      /\ \A d \in Caller, u \in Task : Submitting(d, u)' <=> Submitting(d, u)
  BY <1>1, <1>2 DEF Holds, Submitting
<1>5. CurHeld'
  BY <1>2 DEF Safe, CurHeld
<1>6. FreedOnceBeforeDeadline' /\ DoneHasOutcome' /\ CallersApart'
  BY <1>1 DEF Safe, FreedOnceBeforeDeadline, Outcome, DoneHasOutcome, CallersApart
<1>7. FilledFirst'
  BY <1>1, <1>2 DEF Safe, Outcome, FilledFirst
<1>8. NotDoneYet' /\ NoneMissing'
  BY <1>1, <1>3, <1>4 DEF Safe, NotDoneYet, NoneMissing
<1>9. WatchdogPast'
  BY <1>1, <1>3, <1>4 DEF Safe, WatchdogPast, Typed, Pointers
<1>10. LiveUntilRelease'
  BY <1>1, <1>3, <1>4 DEF Safe, LiveUntilRelease
<1>11. Stamped'
  BY <1>1, <1>3, <1>4 DEF Safe, Stamped
<1> QED
  BY <1>5, <1>6, <1>7, <1>8, <1>9, <1>10, <1>11 DEF Safe, Outcome

\* The response is filled in, then complete_all.
LEMMA CompleteSafe ==
  ASSUME Typed, Owned, Safe, NEW w \in Worker, Fill(w) \/ Signal(w)
  PROVE  Safe'
<1> DEFINE t == worker[w].t
<1>1. UNCHANGED <<drain, crash, queue, late, caller, watchdog>>
  BY DEF Fill, Signal
<1>2. /\ t \in Task /\ t \notin QueuedTasks
      /\ \A c \in Caller : ~Submitting(c, t)
      /\ \A v \in Worker : Holds(v, t) => v = w
  BY OwnerFacts DEF Fill, Signal
<1>3. /\ \A u \in Task \ {t} : task'[u] = task[u]
      /\ \/ Fill(w) /\ task'[t] = [task[t] EXCEPT !.resp = "COMPLETED"]
         \/ Signal(w) /\ task'[t] = [task[t] EXCEPT !.done = TRUE]
  BY <1>2 DEF Fill, Signal, Typed, TypeOK
<1>4. /\ task'[t].mem = task[t].mem /\ task'[t].async = task[t].async
      /\ task'[t].id = task[t].id /\ task'[t].status = task[t].status
      /\ Fill(w) => task'[t].resp = "COMPLETED" /\ task'[t].done = task[t].done
      /\ Signal(w) => task'[t].resp = task[t].resp /\ task'[t].done = TRUE
  <2>1. ASSUME NEW r \in TaskRecord
        PROVE  /\ [r EXCEPT !.resp = "COMPLETED"].mem = r.mem /\ [r EXCEPT !.done = TRUE].mem = r.mem
               /\ [r EXCEPT !.resp = "COMPLETED"].async = r.async /\ [r EXCEPT !.done = TRUE].async = r.async
               /\ [r EXCEPT !.resp = "COMPLETED"].id = r.id /\ [r EXCEPT !.done = TRUE].id = r.id
               /\ [r EXCEPT !.resp = "COMPLETED"].status = r.status /\ [r EXCEPT !.done = TRUE].status = r.status
               /\ [r EXCEPT !.resp = "COMPLETED"].done = r.done /\ [r EXCEPT !.done = TRUE].done = TRUE
               /\ [r EXCEPT !.resp = "COMPLETED"].resp = "COMPLETED" /\ [r EXCEPT !.done = TRUE].resp = r.resp
    BY DEF TaskRecord
  <2>2. task[t] \in TaskRecord
    BY <1>2 DEF Typed, TypeOK
  <2>3. ~(Fill(w) /\ Signal(w))
    BY DEF Fill, Signal
  <2> QED  BY <1>3, <2>1, <2>2, <2>3, ZenonT(60)
<1>5. /\ Fill(w) => worker[w].pc = "run" /\ worker'[w].pc = "filled"
      /\ Signal(w) => worker[w].pc = "filled" /\ worker'[w].pc = "signalled"
      /\ worker'[w].t = t /\ worker'[w].cur = worker[w].cur
      /\ \A v \in Worker \ {w} : worker'[v] = worker[v]
  BY DEF Fill, Signal, Typed, TypeOK, WorkerRecord
<1>6. QueuedTasks' = QueuedTasks /\ QueuedTasks \subseteq Task
  BY <1>1, QueuedFacts DEF QueuedTasks
<1>7. /\ \A v \in Worker, u \in Task : Holds(v, u)' <=> Holds(v, u)
      /\ \A d \in Caller, u \in Task : Submitting(d, u)' <=> Submitting(d, u)
      /\ Holds(w, t) /\ worker[w].pc # "released"
  BY <1>1, <1>5 DEF Holds, Submitting
<1>8. \A u \in Task : /\ task'[u].mem = task[u].mem /\ task'[u].async = task[u].async
                      /\ task'[u].id = task[u].id
  BY <1>3, <1>4
<1>9. \A v \in Worker \ {w} : worker[v].pc \notin {"idle", "stopped"} => worker[v].t \in Task \ {t}
  BY OwnerFacts, <1>2 DEF Holds
<1> HIDE DEF t
<1>10. CurHeld'
  BY <1>5, <1>7 DEF Safe, CurHeld, Holds, t
<1>11. FreedOnceBeforeDeadline'
  BY <1>1 DEF Safe, FreedOnceBeforeDeadline
<1>12. CallersApart'
  BY <1>1, <1>8 DEF Safe, CallersApart, Typed, Pointers
<1>13. NotDoneYet'
  BY <1>2, <1>3, <1>6, <1>7 DEF Safe, NotDoneYet
<1>14. FilledFirst'
  BY <1>3, <1>4, <1>5, <1>9 DEF Safe, Outcome, FilledFirst, t
<1>15. DoneHasOutcome'
  BY <1>3, <1>4, <1>5 DEF Safe, Outcome, DoneHasOutcome, FilledFirst, t
<1>16. WatchdogPast'
  BY <1>1, <1>6, <1>7, <1>8 DEF Safe, WatchdogPast, Typed, Pointers
<1>17. LiveUntilRelease'
  BY <1>1, <1>5, <1>6, <1>7, <1>8 DEF Safe, LiveUntilRelease, Typed, Pointers
<1>18. Stamped'
  BY <1>1, <1>6, <1>7, <1>8 DEF Safe, Stamped, Typed, Pointers
<1>19. NoneMissing'
  <2>1. \A u \in Task : task'[u].mem = "live" /\ ~task'[u].done =>
          /\ task[u].mem = "live" /\ ~task[u].done
          /\ u # t \/ Fill(w)
    BY <1>3, <1>4
  <2>2. \A v \in Worker, u \in Task :
          /\ Holds(v, u) /\ worker[v].pc \in {"got", "run", "filled"}
          /\ u # t \/ Fill(w)
          => worker'[v].pc \in {"got", "run", "filled"}
    BY <1>5 DEF Holds, t
  <2> QED  BY <1>6, <1>7, <2>1, <2>2 DEF Safe, NoneMissing
<1> QED
  BY <1>10, <1>11, <1>12, <1>13, <1>14, <1>15, <1>16, <1>17, <1>18, <1>19 DEF Safe, Outcome

\* The effect of recording and freeing an asynchronous task.
LEMMA ReleaseEffect ==
  ASSUME Typed, NEW t \in Task, NEW st, ReleaseTask(t, st)
  PROVE  /\ \A u \in Task \ {t} : task'[u] = task[u]
         /\ \A u \in Task : /\ task'[u].id = task[u].id /\ task'[u].async = task[u].async
                            /\ task'[u].status = task[u].status /\ task'[u].resp = task[u].resp
                            /\ task'[u].done = task[u].done /\ task'[u].prio = task[u].prio
         /\ task'[t].mem = task[t].mem \/ (task[t].async = TRUE /\ task'[t].mem = "freed")
         /\ crash' # crash => task[t].async = TRUE /\ task[t].mem = "freed"
<1>1. task[t].async \in BOOLEAN
  BY DEF Typed, TypeOK, TaskRecord
<1>2. CASE task[t].async
  <2>1. task' = [task EXCEPT ![t].mem = "freed"] /\ crash' = CrashOfFree(t)
    BY <1>2, Zenon DEF ReleaseTask
  <2>2. task \in Tasks
    BY DEF Typed, TypeOK, Tasks
  <2>3. crash' # crash => task[t].mem = "freed"
    BY <2>1 DEF CrashOfFree, Freed
  <2>4. /\ task'[t].mem = "freed"
        /\ \A u \in Task \ {t} : task'[u] = task[u]
        /\ \A u \in Task : /\ task'[u].id = task[u].id /\ task'[u].async = task[u].async
                           /\ task'[u].status = task[u].status /\ task'[u].resp = task[u].resp
                           /\ task'[u].done = task[u].done /\ task'[u].prio = task[u].prio
    BY <2>1, <2>2, FreedFields
  <2> QED  BY <1>1, <1>2, <2>3, <2>4
<1>3. CASE ~task[t].async
  <2>1. task' = task /\ crash' = crash
    BY <1>3, Zenon DEF ReleaseTask
  <2> QED  BY <2>1
<1> QED  BY <1>2, <1>3

\* The worker frees its asynchronous task: live before the first deadline.
LEMMA ReleaseSafe ==
  ASSUME Typed, Owned, Safe, NEW w \in Worker, Release(w)
  PROVE  Safe'
<1> DEFINE t == worker[w].t
<1>1. UNCHANGED <<drain, queue, late, caller, watchdog>> /\ Up /\ worker[w].pc = "signalled"
  BY DEF Release
<1>2. /\ t \in Task /\ t \notin QueuedTasks
      /\ \A c \in Caller : ~Submitting(c, t)
      /\ \A v \in Worker : Holds(v, t) => v = w
  BY <1>1, OwnerFacts
<1>3. /\ \A u \in Task \ {t} : task'[u] = task[u]
      /\ \A u \in Task : /\ task'[u].id = task[u].id /\ task'[u].async = task[u].async
                         /\ task'[u].status = task[u].status /\ task'[u].resp = task[u].resp
                         /\ task'[u].done = task[u].done
      /\ task'[t].mem = task[t].mem \/ (task[t].async = TRUE /\ task'[t].mem = "freed")
      /\ crash' # crash => task[t].async = TRUE /\ task[t].mem = "freed"
  BY <1>2, ReleaseEffect DEF Release
<1>4. /\ worker'[w].pc = "released" /\ worker'[w].t = t /\ worker'[w].cur = worker[w].cur
      /\ \A v \in Worker \ {w} : worker'[v] = worker[v]
  BY DEF Release, Typed, TypeOK, WorkerRecord
<1>5. QueuedTasks' = QueuedTasks /\ QueuedTasks \subseteq Task
  BY <1>1, QueuedFacts DEF QueuedTasks
<1>6. /\ \A v \in Worker, u \in Task : Holds(v, u)' <=> Holds(v, u)
      /\ \A d \in Caller, u \in Task : Submitting(d, u)' <=> Submitting(d, u)
      /\ Holds(w, t)
  BY <1>1, <1>4 DEF Holds, Submitting
<1>7. \A u \in Task : task[u].mem # "none" => task'[u].mem # "none"
  BY <1>3
<1>8. \A d \in Caller : caller[d].pc = "waiting" => task'[caller[d].t].mem = task[caller[d].t].mem
  BY <1>3 DEF Safe, CallersApart, Typed, Pointers
<1> HIDE DEF t
<1>9. CurHeld'
  BY <1>1, <1>4 DEF Safe, CurHeld, t
<1>10. FreedOnceBeforeDeadline'
  <2>1. late = 0 /\ task[t].async = TRUE => task[t].mem = "live"
    BY <1>1, <1>2, <1>6 DEF Safe, LiveUntilRelease
  <2>2. late \in Nat
    BY DEF Typed, TypeOK
  <2> QED  BY <1>1, <1>3, <2>1, <2>2 DEF FreedOnceBeforeDeadline, Up
<1>11. CallersApart'
  BY <1>1, <1>3, <1>7 DEF Safe, CallersApart, Typed, Pointers
<1>12. NotDoneYet'
  BY <1>3, <1>5, <1>6 DEF Safe, NotDoneYet
<1>13. FilledFirst'
  BY <1>3, <1>4, OwnerFacts DEF Safe, Outcome, FilledFirst
<1>14. DoneHasOutcome'
  BY <1>3 DEF Safe, Outcome, DoneHasOutcome
<1>15. WatchdogPast'
  BY <1>1, <1>5, <1>6, <1>7 DEF Safe, WatchdogPast, Typed, Pointers
<1>16. LiveUntilRelease'
  BY <1>1, <1>2, <1>3, <1>4, <1>5, <1>6, <1>8 DEF Safe, LiveUntilRelease
<1>17. Stamped'
  BY <1>1, <1>3, <1>5, <1>6 DEF Safe, Stamped, Typed, Pointers
<1>18. NoneMissing'
  <2>1. \A u \in Task : task'[u].mem = "live" => task[u].mem = "live"
    BY <1>3
  <2>2. \A v \in Worker, u \in Task :
          Holds(v, u) /\ worker[v].pc \in {"got", "run", "filled"} => worker'[v].pc \in {"got", "run", "filled"}
    BY <1>1, <1>4
  <2> QED  BY <1>3, <1>5, <1>6, <2>1, <2>2 DEF Safe, NoneMissing
<1> QED
  BY <1>9, <1>10, <1>11, <1>12, <1>13, <1>14, <1>15, <1>16, <1>17, <1>18 DEF Safe, Outcome

\* The watchdog marks a published task FAILED: some deadline has passed.
LEMMA FireSafe ==
  ASSUME Typed, Owned, Safe, NEW w \in Worker, WatchdogFire(w)
  PROVE  Safe'
<1> DEFINE t == worker[w].cur
<1>1. UNCHANGED <<drain, crash, queue, late, caller, worker>> /\ t # NoTask /\ task[t].id <= late
  BY DEF WatchdogFire
<1>2. t = worker[w].t /\ worker[w].pc \notin {"idle", "stopped"} /\ Holds(w, t)
  BY <1>1 DEF Safe, CurHeld, Holds
<1>3. /\ t \in Task /\ t \notin QueuedTasks /\ task[t].mem # "none"
      /\ \A c \in Caller : ~Submitting(c, t)
  BY <1>2, OwnerFacts
<1>4. /\ \A u \in Task \ {t} : task'[u] = task[u]
      /\ task'[t] = [task[t] EXCEPT !.status = "FAILED", !.resp = "FAILED", !.done = TRUE]
  BY <1>3 DEF WatchdogFire, Typed, TypeOK
<1>5. /\ task'[t].mem = task[t].mem /\ task'[t].async = task[t].async /\ task'[t].id = task[t].id
      /\ task'[t].resp = "FAILED" /\ task'[t].done = TRUE
  <2>1. ASSUME NEW r \in TaskRecord
        PROVE  /\ [r EXCEPT !.status = "FAILED", !.resp = "FAILED", !.done = TRUE].mem = r.mem
               /\ [r EXCEPT !.status = "FAILED", !.resp = "FAILED", !.done = TRUE].async = r.async
               /\ [r EXCEPT !.status = "FAILED", !.resp = "FAILED", !.done = TRUE].id = r.id
               /\ [r EXCEPT !.status = "FAILED", !.resp = "FAILED", !.done = TRUE].resp = "FAILED"
               /\ [r EXCEPT !.status = "FAILED", !.resp = "FAILED", !.done = TRUE].done = TRUE
    BY DEF TaskRecord
  <2>2. task[t] \in TaskRecord
    BY <1>3 DEF Typed, TypeOK
  <2> QED  BY <1>4, <2>1, <2>2
<1>6. \A u \in Task : task'[u].mem = task[u].mem /\ task'[u].async = task[u].async /\ task'[u].id = task[u].id
  BY <1>4, <1>5
<1>7. watchdog'.t = t
  BY DEF WatchdogFire
<1>8. QueuedTasks' = QueuedTasks /\ QueuedTasks \subseteq Task
  BY <1>1, QueuedFacts DEF QueuedTasks
<1>9. /\ \A v \in Worker, u \in Task : Holds(v, u)' <=> Holds(v, u)
      /\ \A d \in Caller, u \in Task : Submitting(d, u)' <=> Submitting(d, u)
  BY <1>1 DEF Holds, Submitting
<1>10. late > 0
  BY <1>1, <1>2, <1>3 DEF Safe, Stamped, Typed, TypeOK, TaskRecord
<1> HIDE DEF t
<1>11. CurHeld' /\ FreedOnceBeforeDeadline'
  BY <1>1 DEF Safe, CurHeld, FreedOnceBeforeDeadline
<1>12. CallersApart'
  BY <1>1, <1>6 DEF Safe, CallersApart, Typed, Pointers
<1>13. NotDoneYet'
  BY <1>3, <1>4, <1>8, <1>9 DEF Safe, NotDoneYet
<1>14. FilledFirst'
  BY <1>1, <1>4, <1>5, OwnerFacts DEF Safe, Outcome, FilledFirst
<1>15. DoneHasOutcome'
  <2>1. \A u \in Task \ {t} : task'[u] = task[u]
    BY <1>4
  <2> QED  BY <1>5, <2>1 DEF Safe, Outcome, DoneHasOutcome
<1>16. WatchdogPast'
  BY <1>1, <1>3, <1>6, <1>7, <1>8, <1>9, <1>10 DEF WatchdogPast
<1>17. LiveUntilRelease'
  BY <1>1, <1>6, <1>8, <1>9 DEF Safe, LiveUntilRelease, Typed, Pointers
<1>18. Stamped'
  BY <1>1, <1>6, <1>8, <1>9 DEF Safe, Stamped, Typed, Pointers
<1>19. NoneMissing'
  BY <1>1, <1>4, <1>5, <1>8, <1>9 DEF Safe, NoneMissing
<1> QED
  BY <1>11, <1>12, <1>13, <1>14, <1>15, <1>16, <1>17, <1>18, <1>19 DEF Safe, Outcome

\* The watchdog frees it and unpublishes it.
LEMMA WatchdogReleaseSafe ==
  ASSUME Typed, Owned, Safe, WatchdogRelease
  PROVE  Safe'
<1> DEFINE t == watchdog.t
<1>1. UNCHANGED <<drain, queue, late, caller>> /\ Up /\ watchdog # IdleWatchdog /\ watchdog' = IdleWatchdog
  BY DEF WatchdogRelease
<1>2. /\ t \in Task /\ late > 0 /\ t \notin QueuedTasks /\ \A c \in Caller : ~Submitting(c, t)
  BY <1>1 DEF Safe, WatchdogPast, Typed, Pointers
<1>3. /\ \A u \in Task \ {t} : task'[u] = task[u]
      /\ \A u \in Task : /\ task'[u].id = task[u].id /\ task'[u].async = task[u].async
                         /\ task'[u].status = task[u].status /\ task'[u].resp = task[u].resp
                         /\ task'[u].done = task[u].done
      /\ task'[t].mem = task[t].mem \/ (task[t].async = TRUE /\ task'[t].mem = "freed")
  BY <1>2, ReleaseEffect DEF WatchdogRelease
<1>4. \A v \in Worker : /\ worker'[v].pc = worker[v].pc /\ worker'[v].t = worker[v].t
                        /\ worker'[v].cur # NoTask => worker'[v].cur = worker[v].cur
  BY DEF WatchdogRelease, Typed, TypeOK, WorkerRecord
<1>5. QueuedTasks' = QueuedTasks /\ QueuedTasks \subseteq Task
  BY <1>1, QueuedFacts DEF QueuedTasks
<1>6. /\ \A v \in Worker, u \in Task : Holds(v, u)' <=> Holds(v, u)
      /\ \A d \in Caller, u \in Task : Submitting(d, u)' <=> Submitting(d, u)
  BY <1>1, <1>4 DEF Holds, Submitting
<1>7. \A u \in Task : task[u].mem # "none" => task'[u].mem # "none"
  BY <1>3
<1>8. \A d \in Caller : caller[d].pc = "waiting" => task'[caller[d].t].mem = task[caller[d].t].mem
  BY <1>3 DEF Safe, CallersApart, Typed, Pointers
<1> HIDE DEF t
<1>9. CurHeld'
  BY <1>4 DEF Safe, CurHeld
<1>10. FreedOnceBeforeDeadline'
  BY <1>1, <1>2 DEF FreedOnceBeforeDeadline
<1>11. CallersApart'
  BY <1>1, <1>3, <1>7 DEF Safe, CallersApart, Typed, Pointers
<1>12. NotDoneYet'
  BY <1>3, <1>5, <1>6 DEF Safe, NotDoneYet
<1>13. FilledFirst'
  BY <1>3, <1>4, OwnerFacts DEF Safe, Outcome, FilledFirst
<1>14. DoneHasOutcome'
  BY <1>3 DEF Safe, Outcome, DoneHasOutcome
<1>15. WatchdogPast'
  BY <1>1 DEF WatchdogPast
<1>16. LiveUntilRelease'
  BY <1>1, <1>2, <1>3, <1>5, <1>6, <1>8 DEF Safe, LiveUntilRelease
<1>17. Stamped'
  BY <1>1, <1>3, <1>5, <1>6 DEF Safe, Stamped, Typed, Pointers
<1>18. NoneMissing'
  <2>1. \A u \in Task : task'[u].mem = "live" => task[u].mem = "live"
    BY <1>3
  <2> QED  BY <1>3, <1>4, <1>5, <1>6, <2>1 DEF Safe, NoneMissing
<1> QED
  BY <1>9, <1>10, <1>11, <1>12, <1>13, <1>14, <1>15, <1>16, <1>17, <1>18 DEF Safe, Outcome

\* cancel_task: the task is done, cancelled, and in no queue.
LEMMA CancelSafe ==
  ASSUME Typed, Owned, Safe, NEW p \in Prio, NEW i \in DOMAIN queue[p], Cancel(p, i)
  PROVE  Safe'
<1> DEFINE t == queue[p][i]
<1>1. UNCHANGED <<drain, crash, late, caller, worker, watchdog>>
  BY DEF Cancel
<1>2. QueuedTasks' = QueuedTasks \ {t} /\ t \in QueuedTasks
  BY UnlinkQueued DEF Cancel
<1>3. /\ t \in Task /\ QueuedTasks \subseteq Task
      /\ \A v \in Worker : ~Holds(v, t)
      /\ \A d \in Caller : ~Submitting(d, t)
  BY <1>2, QueuedFacts
<1>4. /\ \A u \in Task \ {t} : task'[u] = task[u]
      /\ task'[t] = [task[t] EXCEPT !.status = "CANCELLED", !.done = TRUE]
  BY <1>3 DEF Cancel, Typed, TypeOK
<1>5. /\ task'[t].mem = task[t].mem /\ task'[t].async = task[t].async /\ task'[t].id = task[t].id
      /\ task'[t].resp = task[t].resp /\ task'[t].done = TRUE /\ task'[t].status = "CANCELLED"
  <2>1. ASSUME NEW r \in TaskRecord
        PROVE  /\ [r EXCEPT !.status = "CANCELLED", !.done = TRUE].mem = r.mem
               /\ [r EXCEPT !.status = "CANCELLED", !.done = TRUE].async = r.async
               /\ [r EXCEPT !.status = "CANCELLED", !.done = TRUE].id = r.id
               /\ [r EXCEPT !.status = "CANCELLED", !.done = TRUE].resp = r.resp
               /\ [r EXCEPT !.status = "CANCELLED", !.done = TRUE].done = TRUE
               /\ [r EXCEPT !.status = "CANCELLED", !.done = TRUE].status = "CANCELLED"
    BY DEF TaskRecord
  <2>2. task[t] \in TaskRecord
    BY <1>3 DEF Typed, TypeOK
  <2> QED  BY <1>4, <2>1, <2>2
<1>6. \A u \in Task : /\ task'[u].mem = task[u].mem /\ task'[u].async = task[u].async
                      /\ task'[u].id = task[u].id /\ task'[u].resp = task[u].resp
  BY <1>4, <1>5
<1>7. /\ \A v \in Worker, u \in Task : Holds(v, u)' <=> Holds(v, u)
      /\ \A d \in Caller, u \in Task : Submitting(d, u)' <=> Submitting(d, u)
  BY <1>1 DEF Holds, Submitting
<1> HIDE DEF t
<1>8. CurHeld' /\ FreedOnceBeforeDeadline'
  BY <1>1 DEF Safe, CurHeld, FreedOnceBeforeDeadline
<1>9. CallersApart'
  BY <1>1, <1>6 DEF Safe, CallersApart, Typed, Pointers
<1>10. NotDoneYet'
  BY <1>2, <1>3, <1>4, <1>7 DEF Safe, NotDoneYet
<1>11. FilledFirst'
  BY <1>1, <1>6, OwnerFacts DEF Safe, Outcome, FilledFirst
<1>12. DoneHasOutcome'
  BY <1>4, <1>5 DEF Safe, Outcome, DoneHasOutcome
<1>13. WatchdogPast'
  BY <1>1, <1>2, <1>6, <1>7 DEF Safe, WatchdogPast, Typed, Pointers
<1>14. LiveUntilRelease'
  BY <1>1, <1>2, <1>3, <1>6, <1>7 DEF Safe, LiveUntilRelease, Typed, Pointers
<1>15. Stamped'
  BY <1>1, <1>2, <1>3, <1>6, <1>7 DEF Safe, Stamped, Typed, Pointers
<1>16. NoneMissing'
  BY <1>1, <1>2, <1>4, <1>5, <1>7 DEF Safe, NoneMissing
<1> QED
  BY <1>8, <1>9, <1>10, <1>11, <1>12, <1>13, <1>14, <1>15, <1>16 DEF Safe, Outcome

\* ai_scheduler_exit completes and frees what is queued.
LEMMA DrainSafe ==
  ASSUME Typed, Owned, Safe, ExitDrain
  PROVE  Safe'
<1> DEFINE p == drain.next
           D == ToSet(queue[p])
<1>0. p \in Prio /\ p \in Nat /\ queue[p] \in Seq(Task)
  BY DrainLoop DEF ExitDrain, Typed, TypeOK
<1>1. UNCHANGED <<late, caller, worker, watchdog>> /\ drain'.next > 0
  BY DrainLoop DEF ExitDrain, Typed, TypeOK
<1>2. QueuedTasks' = QueuedTasks \ D /\ D \subseteq QueuedTasks /\ QueuedTasks \subseteq Task
  <2>1. queue'[p] = <<>> /\ \A q \in Prio \ {p} : queue'[q] = queue[q]
    BY <1>0 DEF ExitDrain, Typed, TypeOK
  <2>2. ToSet(<<>>) = {}
    BY DEF ToSet
  <2>3. \A q \in Prio \ {p} : \A u \in ToSet(queue[q]) : u \notin D
    BY <1>0 DEF Owned, QueuedOnce, ToSet
  <2> HIDE DEF p, D
  <2>4. ToSet(queue'[p]) = {} /\ \A q \in Prio \ {p} : ToSet(queue'[q]) = ToSet(queue[q])
    BY <2>1, <2>2
  <2>5. QueuedTasks' = QueuedTasks \ D
    BY <1>0, <2>3, <2>4 DEF QueuedTasks, D
  <2>6. D \subseteq QueuedTasks
    BY <1>0 DEF QueuedTasks, D
  <2> QED  BY <2>5, <2>6, QueuedFacts
<1>3. /\ \A u \in Task \ D : task'[u] = task[u]
      /\ \A u \in D : task'[u] = [task[u] EXCEPT !.status = "CANCELLED", !.done = TRUE, !.mem = "freed"]
  BY <1>2 DEF ExitDrain
<1>4. \A u \in D :
        /\ task'[u].mem = "freed" /\ task'[u].async = task[u].async /\ task'[u].id = task[u].id
        /\ task'[u].resp = task[u].resp /\ task'[u].done = TRUE /\ task'[u].status = "CANCELLED"
  <2>1. ASSUME NEW r \in TaskRecord
        PROVE  /\ [r EXCEPT !.status = "CANCELLED", !.done = TRUE, !.mem = "freed"].mem = "freed"
               /\ [r EXCEPT !.status = "CANCELLED", !.done = TRUE, !.mem = "freed"].async = r.async
               /\ [r EXCEPT !.status = "CANCELLED", !.done = TRUE, !.mem = "freed"].id = r.id
               /\ [r EXCEPT !.status = "CANCELLED", !.done = TRUE, !.mem = "freed"].resp = r.resp
               /\ [r EXCEPT !.status = "CANCELLED", !.done = TRUE, !.mem = "freed"].done = TRUE
               /\ [r EXCEPT !.status = "CANCELLED", !.done = TRUE, !.mem = "freed"].status = "CANCELLED"
    BY DEF TaskRecord
  <2>2. \A u \in Task : task[u] \in TaskRecord
    BY DEF Typed, TypeOK
  <2> TAKE u \in D
  <2>3. task[u] \in TaskRecord /\ task'[u] = [task[u] EXCEPT !.status = "CANCELLED", !.done = TRUE, !.mem = "freed"]
    BY <1>2, <1>3, <2>2
  <2> QED  BY <2>1, <2>3
<1>5. \A u \in Task : /\ task'[u].async = task[u].async /\ task'[u].id = task[u].id
                      /\ task'[u].resp = task[u].resp /\ (task[u].mem # "none" => task'[u].mem # "none")
                      /\ (task'[u].mem = "live" => task'[u] = task[u] /\ u \notin D)
  BY <1>3, <1>4
<1>6. /\ \A v \in Worker, u \in Task : Holds(v, u)' <=> Holds(v, u)
      /\ \A d \in Caller, u \in Task : Submitting(d, u)' <=> Submitting(d, u)
      /\ \A v \in Worker, u \in Task : Holds(v, u) => u \notin D
      /\ \A d \in Caller, u \in Task : Submitting(d, u) => u \notin D
  BY <1>1, <1>2, QueuedFacts DEF Holds, Submitting
<1> HIDE DEF p, D
<1>7. CurHeld' /\ FreedOnceBeforeDeadline'
  BY <1>1 DEF Safe, CurHeld, FreedOnceBeforeDeadline
<1>8. CallersApart'
  BY <1>1, <1>5 DEF Safe, CallersApart, Typed, Pointers
<1>9. NotDoneYet'
  BY <1>2, <1>3, <1>6 DEF Safe, NotDoneYet
<1>10. FilledFirst'
  BY <1>1, <1>5, OwnerFacts DEF Safe, Outcome, FilledFirst
<1>11. DoneHasOutcome'
  BY <1>3, <1>4 DEF Safe, Outcome, DoneHasOutcome
<1>12. WatchdogPast'
  BY <1>1, <1>2, <1>5, <1>6 DEF Safe, WatchdogPast, Typed, Pointers
<1>13. LiveUntilRelease'
  <2>1. drain'.next # 0
    <3>1. drain' = [drain EXCEPT !.next = drain.next + 1] /\ drain.next <= Realtime
      BY DEF ExitDrain
    <3> QED  BY <3>1, DrainLoop DEF Typed, TypeOK
  <2>2. \A u \in QueuedTasks' : u \in QueuedTasks /\ task'[u] = task[u]
    BY <1>2, <1>3
  <2> QED  BY <1>1, <1>3, <1>6, <2>1, <2>2 DEF Safe, LiveUntilRelease
<1>14. Stamped'
  BY <1>1, <1>2, <1>5, <1>6 DEF Safe, Stamped, Typed, Pointers
<1>15. NoneMissing'
  BY <1>1, <1>2, <1>5, <1>6 DEF Safe, NoneMissing
<1> QED
  BY <1>7, <1>8, <1>9, <1>10, <1>11, <1>12, <1>13, <1>14, <1>15 DEF Safe, Outcome

\* Steps that touch no task, queue or thread.
LEMMA BystanderSafe ==
  ASSUME Typed, Typed', Safe, UNCHANGED <<task, queue, caller, worker, watchdog>>,
         late' >= late, drain' = drain, crash' = "doublefree" => crash = "doublefree"
  PROVE  Safe'
<1>1. QueuedTasks' = QueuedTasks
  BY DEF QueuedTasks
<1>2. /\ \A v \in Worker, u \in Task : Holds(v, u)' <=> Holds(v, u)
      /\ \A d \in Caller, u \in Task : Submitting(d, u)' <=> Submitting(d, u)
  BY DEF Holds, Submitting
<1>3. late \in Nat /\ late' \in Nat
  BY DEF Typed, TypeOK
<1>4. CurHeld' /\ FreedOnceBeforeDeadline' /\ CallersApart' /\ Outcome'
  BY <1>3 DEF Safe, CurHeld, FreedOnceBeforeDeadline, CallersApart, Outcome, FilledFirst, DoneHasOutcome
<1>5. NotDoneYet' /\ NoneMissing' /\ Stamped'
  BY <1>1, <1>2 DEF Safe, NotDoneYet, NoneMissing, Stamped
<1>6. WatchdogPast'
  BY <1>1, <1>2, <1>3 DEF Safe, WatchdogPast, Typed, Pointers
<1>7. LiveUntilRelease'
  BY <1>1, <1>2, <1>3 DEF Safe, LiveUntilRelease
<1> QED
  BY <1>4, <1>5, <1>6, <1>7 DEF Safe

\* Every step keeps the invariant.
LEMMA NextSafe == Typed /\ Typed' /\ Owned /\ Safe /\ [Next]_vars => Safe'
<1> SUFFICES ASSUME Typed, Typed', Owned, Safe, [Next]_vars PROVE Safe'
  OBVIOUS
<1>1. ASSUME NEW c \in Caller, CallerStep(c) PROVE Safe'
  BY <1>1, SubmitBeginSafe, StampSafe, LinkSafe, ReturnSafe, ReapSafe DEF CallerStep, WaitDone, WaitInterrupted
<1>2. ASSUME NEW w \in Worker, WorkerStep(w) \/ WorkerStop(w) PROVE Safe'
  BY <1>2, DequeueSafe, PublishSafe, CompleteSafe, ReleaseSafe DEF WorkerStep
<1>3. CASE WatchdogRelease \/ \E w \in Worker : WatchdogFire(w)
  BY <1>3, WatchdogReleaseSafe, FireSafe
<1>4. CASE ExitDrain \/ \E p \in Prio : \E i \in DOMAIN queue[p] : Cancel(p, i)
  BY <1>4, DrainSafe, CancelSafe
<1>5. CASE \/ DeadlinePasses \/ QueryMovesOn \/ QueryHit \/ QueryMiss
           \/ ExitBegin \/ ExitCancelWork \/ ExitFree \/ StaleAccess \/ UnloadedAccess
           \/ \E id \in AsyncIds : QueryTrack(id)
  <2>1. late \in Nat
    BY DEF Typed, TypeOK
  <2>2. /\ UNCHANGED <<task, queue, caller, worker, watchdog>>
        /\ late' >= late /\ drain' = drain
        /\ crash' = "doublefree" => crash = "doublefree"
    BY <1>5, <2>1 DEF DeadlinePasses, QueryMovesOn, QueryHit, QueryMiss, ExitBegin,
     ExitCancelWork, ExitFree, StaleAccess, UnloadedAccess, QueryTrack, Up
  <2> QED  BY <2>2, BystanderSafe
<1>6. CASE UNCHANGED vars
  <2>1. late \in Nat
    BY DEF Typed, TypeOK
  <2> QED  BY <1>6, <2>1, BystanderSafe DEF vars
<1> QED
  BY <1>1, <1>2, <1>3, <1>4, <1>5, <1>6 DEF Next

\* It holds when the module has been loaded.
LEMMA InitSafe == Init => Safe
<1> SUFFICES ASSUME Init PROVE Safe
  OBVIOUS
<1>1. QueuedTasks = {}
  <2>1. \A p \in Prio : ToSet(queue[p]) = {}
    BY DEF Init, ToSet
  <2> QED  BY <2>1 DEF QueuedTasks
<1>2. /\ \A w \in Worker : worker[w].pc = "idle" /\ worker[w].cur = NoTask
      /\ \A c \in Caller : caller[c].pc = "idle"
      /\ \A t \in Task : task[t].mem = "none" /\ task[t].done = FALSE
      /\ watchdog = IdleWatchdog /\ crash = "none"
  BY DEF Init, IdleWorker, IdleCaller, Unallocated
<1>3. CurHeld /\ NotDoneYet /\ Outcome /\ CallersApart /\ WatchdogPast
  BY <1>1, <1>2 DEF CurHeld, NotDoneYet, Outcome, DoneHasOutcome, FilledFirst, CallersApart, WatchdogPast,
     Submitting
<1>4. LiveUntilRelease /\ Stamped /\ NoneMissing /\ FreedOnceBeforeDeadline
  BY <1>1, <1>2 DEF LiveUntilRelease, Stamped, NoneMissing, FreedOnceBeforeDeadline, Holds, Submitting
<1> QED
  BY <1>3, <1>4 DEF Safe

\* Together with types and ownership it is an invariant of the scheduler.
LEMMA SpecSafe == Spec => [](Typed /\ Owned /\ Safe)
<1>1. Init => Typed /\ Owned /\ Safe
  BY InitTyped, InitOwned, InitSafe
<1>2. Typed /\ Owned /\ Safe /\ [Next]_vars => (Typed /\ Owned /\ Safe)'
  BY NextTyped, NextOwned, NextSafe
<1> QED
  BY <1>1, <1>2, PTL DEF Spec

(***************************************************************************)
(* Whoever completes a task, worker, watchdog, canceller or unload, has    *)
(* given it a response or the status CANCELLED before: for every number of *)
(* threads and tasks, ai_sched_submit copies out no unfilled response.     *)
(***************************************************************************)
THEOREM OutcomeBeforeDone == Spec => []DoneHasOutcome
<1>1. Typed /\ Owned /\ Safe => DoneHasOutcome
  BY DEF Safe, Outcome
<1> QED
  BY <1>1, SpecSafe, PTL

(***************************************************************************)
(* is_async decides who frees a task, and until the first deadline passes  *)
(* or the unload drains a queue that is one thread: no double kfree. (Past *)
(* a deadline watchdog and worker both free it.)                           *)
(***************************************************************************)
THEOREM FreedOnce == Spec => []FreedOnceBeforeDeadline
<1>1. Typed /\ Owned /\ Safe => FreedOnceBeforeDeadline
  BY DEF Safe
<1> QED
  BY <1>1, SpecSafe, PTL

-----------------------------------------------------------------------------
(* The loop of ai_scheduler_exit *)

\* The kfrees: of an asynchronous task, in the drain, by the task's submitter.
FreedNow(u) ==
  /\ task'[u].mem = "freed"
  /\ \/ task[u].async = TRUE
     \/ drain' # drain
     \/ \E c \in Caller : caller[c].pc = "waiting" /\ caller'[c].pc = "idle" /\ caller[c].t = u

TaskKept(u) ==
  task'[u].prio = task[u].prio /\ (task'[u].mem = task[u].mem \/ FreedNow(u))

\* Once allocated, a structure keeps the priority it was given, and its memory
\* until one of the kfrees.
LEMMA StructureKept ==
  ASSUME Typed, [Next]_vars, NEW u \in Task, task[u].mem # "none"
  PROVE  TaskKept(u)
<1> USE DEF TaskKept
<1>1. task \in Tasks
  BY DEF Typed, TypeOK, Tasks
<1>2. ASSUME NEW c \in Caller, CallerStep(c) PROVE TaskKept(u)
  <2>1. ASSUME NEW t \in Task, NEW async \in BOOLEAN, NEW want \in Prio, SubmitBegin(c, t, async, want)
        PROVE  TaskKept(u)
    BY <1>1, <2>1 DEF SubmitBegin, Tasks
  <2>2. ASSUME EnqueueStamp(c) PROVE TaskKept(u)
    <3>1. caller[c].t \in Task
      BY <2>2 DEF EnqueueStamp, Typed, Pointers
    <3>2. /\ task'[caller[c].t] = [task[caller[c].t] EXCEPT !.id = nextId', !.status = "PENDING"]
          /\ u # caller[c].t => task'[u] = task[u]
      BY <1>1, <2>2, <3>1 DEF EnqueueStamp, Tasks
    <3>3. /\ [task[caller[c].t] EXCEPT !.id = nextId', !.status = "PENDING"].prio = task[caller[c].t].prio
          /\ [task[caller[c].t] EXCEPT !.id = nextId', !.status = "PENDING"].mem = task[caller[c].t].mem
      BY <1>1, <3>1 DEF Tasks, TaskRecord
    <3> QED  BY <3>2, <3>3
  <2>3. ASSUME caller[c].pc = "waiting", SubmitReap(c) PROVE TaskKept(u)
    <3>1. caller[c].t \in Task /\ task' = [task EXCEPT ![caller[c].t].mem = "freed"]
      BY <2>3 DEF SubmitReap, Typed, Pointers
    <3>2. /\ task'[caller[c].t].mem = "freed" /\ task'[u].prio = task[u].prio
          /\ u # caller[c].t => task'[u] = task[u]
      BY <1>1, <3>1, FreedFields
    <3>3. caller'[c].pc = "idle"
      BY <2>3 DEF SubmitReap, Typed, TypeOK, IdleCaller
    <3> QED  BY <2>3, <3>2, <3>3 DEF FreedNow
  <2>4. ASSUME EnqueueLink(c) \/ AsyncReturn(c) PROVE TaskKept(u)
    BY <2>4 DEF EnqueueLink, AsyncReturn
  <2> QED  BY <1>2, <2>1, <2>2, <2>3, <2>4 DEF CallerStep, WaitDone, WaitInterrupted
<1>3. ASSUME NEW w \in Worker, WorkerStep(w) \/ WorkerStop(w) PROVE TaskKept(u)
  <2>1. ASSUME NEW p \in Prio, Dequeue(w, p) PROVE TaskKept(u)
    <3>1. Head(queue[p]) \in Task
      BY <2>1 DEF Dequeue, HighestNonEmpty, Typed, TypeOK
    <3>2. /\ task'[Head(queue[p])] = [task[Head(queue[p])] EXCEPT !.status = "RUNNING"]
          /\ u # Head(queue[p]) => task'[u] = task[u]
      BY <1>1, <2>1, <3>1 DEF Dequeue, Tasks
    <3>3. /\ [task[Head(queue[p])] EXCEPT !.status = "RUNNING"].prio = task[Head(queue[p])].prio
          /\ [task[Head(queue[p])] EXCEPT !.status = "RUNNING"].mem = task[Head(queue[p])].mem
      BY <1>1, <3>1 DEF Tasks, TaskRecord
    <3> QED  BY <3>2, <3>3
  <2>2. ASSUME Fill(w) \/ Signal(w) PROVE TaskKept(u)
    <3>1. worker[w].t \in Task
      BY <2>2 DEF Fill, Signal, Typed, Pointers
    <3>2. /\ \/ task'[worker[w].t] = [task[worker[w].t] EXCEPT !.resp = "COMPLETED"]
             \/ task'[worker[w].t] = [task[worker[w].t] EXCEPT !.done = TRUE]
          /\ u # worker[w].t => task'[u] = task[u]
      BY <1>1, <2>2, <3>1 DEF Fill, Signal, Tasks
    <3>3. /\ [task[worker[w].t] EXCEPT !.resp = "COMPLETED"].prio = task[worker[w].t].prio
          /\ [task[worker[w].t] EXCEPT !.done = TRUE].prio = task[worker[w].t].prio
          /\ [task[worker[w].t] EXCEPT !.resp = "COMPLETED"].mem = task[worker[w].t].mem
          /\ [task[worker[w].t] EXCEPT !.done = TRUE].mem = task[worker[w].t].mem
      BY <1>1, <3>1 DEF Tasks, TaskRecord
    <3> QED  BY <3>2, <3>3
  <2>3. ASSUME Release(w) PROVE TaskKept(u)
    <3>1. worker[w].t \in Task /\ ReleaseTask(worker[w].t, "COMPLETED")
      BY <2>3 DEF Release, Typed, Pointers
    <3> QED  BY <3>1, ReleaseEffect DEF FreedNow
  <2>4. ASSUME Publish(w) \/ Clear(w) \/ WorkerStop(w) PROVE TaskKept(u)
    BY <2>4 DEF Publish, Clear, WorkerStop
  <2> QED  BY <1>3, <2>1, <2>2, <2>3, <2>4 DEF WorkerStep
<1>4. ASSUME NEW w \in Worker, WatchdogFire(w) PROVE TaskKept(u)
  <2>1. worker[w].cur \in Task
    BY <1>4 DEF WatchdogFire, Typed, TypeOK, WorkerRecord
  <2>2. /\ task'[worker[w].cur] = [task[worker[w].cur] EXCEPT !.status = "FAILED", !.resp = "FAILED", !.done = TRUE]
        /\ u # worker[w].cur => task'[u] = task[u]
    BY <1>1, <1>4, <2>1 DEF WatchdogFire, Tasks
  <2>3. /\ [task[worker[w].cur] EXCEPT !.status = "FAILED", !.resp = "FAILED", !.done = TRUE].prio = task[worker[w].cur].prio
        /\ [task[worker[w].cur] EXCEPT !.status = "FAILED", !.resp = "FAILED", !.done = TRUE].mem = task[worker[w].cur].mem
    BY <1>1, <2>1 DEF Tasks, TaskRecord
  <2> QED  BY <2>2, <2>3
<1>5. CASE WatchdogRelease
  <2>1. watchdog.t \in Task /\ ReleaseTask(watchdog.t, "FAILED")
    BY <1>5 DEF WatchdogRelease, Typed, Pointers
  <2> QED  BY <2>1, ReleaseEffect DEF FreedNow
<1>6. ASSUME NEW p \in Prio, NEW i \in DOMAIN queue[p], Cancel(p, i) PROVE TaskKept(u)
  <2>1. queue[p][i] \in Task
    BY DEF Typed, TypeOK
  <2>2. /\ task'[queue[p][i]] = [task[queue[p][i]] EXCEPT !.status = "CANCELLED", !.done = TRUE]
        /\ u # queue[p][i] => task'[u] = task[u]
    BY <1>1, <1>6, <2>1 DEF Cancel, Tasks
  <2>3. /\ [task[queue[p][i]] EXCEPT !.status = "CANCELLED", !.done = TRUE].prio = task[queue[p][i]].prio
        /\ [task[queue[p][i]] EXCEPT !.status = "CANCELLED", !.done = TRUE].mem = task[queue[p][i]].mem
    BY <1>1, <2>1 DEF Tasks, TaskRecord
  <2> QED  BY <2>2, <2>3
<1>7. CASE ExitDrain
  <2>1. ASSUME NEW r \in TaskRecord
        PROVE  /\ [r EXCEPT !.status = "CANCELLED", !.done = TRUE, !.mem = "freed"].prio = r.prio
               /\ [r EXCEPT !.status = "CANCELLED", !.done = TRUE, !.mem = "freed"].mem = "freed"
    BY DEF TaskRecord
  <2>2. task[u] \in TaskRecord
    BY <1>1 DEF Tasks
  <2>3. \/ task'[u] = task[u]
        \/ task'[u] = [task[u] EXCEPT !.status = "CANCELLED", !.done = TRUE, !.mem = "freed"]
    BY <1>7 DEF ExitDrain
  <2>4. drain' # drain
    <3>1. drain' = [drain EXCEPT !.next = drain.next + 1] /\ drain.next <= Realtime
      BY <1>7 DEF ExitDrain
    <3>2. drain'.next = drain.next + 1 /\ drain.next \in Nat
      BY <3>1, DrainLoop DEF Typed, TypeOK
    <3> QED  BY <3>2
  <2> QED  BY <2>1, <2>2, <2>3, <2>4 DEF FreedNow
<1>8. CASE \/ DeadlinePasses \/ QueryMovesOn \/ QueryHit \/ QueryMiss
           \/ ExitBegin \/ ExitCancelWork \/ ExitFree \/ StaleAccess \/ UnloadedAccess
           \/ \E id \in AsyncIds : QueryTrack(id)
  BY <1>8 DEF DeadlinePasses, QueryMovesOn, QueryHit, QueryMiss, ExitBegin,
     ExitCancelWork, ExitFree, StaleAccess, UnloadedAccess, QueryTrack
<1>9. CASE UNCHANGED vars
  BY <1>9 DEF vars
<1> QED
  BY <1>2, <1>3, <1>4, <1>5, <1>6, <1>7, <1>8, <1>9 DEF Next

\* A task is linked into the queue of its priority, and a queue that the loop
\* has passed holds nothing but tasks linked since.
Placed ==
  /\ phase = "gone" => drain.next > Realtime
  /\ \A p \in Prio : \A i \in DOMAIN queue[p] :
       /\ priority_to_queue(task[queue[p][i]].prio) = p
       /\ p < drain.next => queue[p][i] \in drain.strayed
  /\ \A t \in drain.strayed :
       task[t].mem # "none" /\ priority_to_queue(task[t].prio) < drain.next

\* The second half of NoTaskLost.
WaitersKept ==
  \A c \in Caller :
    caller[c].pc = "waiting" =>
      \/ task[caller[c].t].mem = "live"
      \/ /\ priority_to_queue(task[caller[c].t].prio) < drain.next
         /\ caller[c].t \notin drain.strayed

\* A step that links nothing, drains nothing and frees no waiter's task.
LEMMA PlacedKept ==
  ASSUME Typed, Typed', Owned, Safe, Placed, WaitersKept, [Next]_vars, drain' = drain,
         phase' = "gone" => phase = "gone" \/ drain.next > Realtime,
         \A p \in Prio : \A i \in DOMAIN queue'[p] :
           \E j \in DOMAIN queue[p] : queue'[p][i] = queue[p][j],
         \A c \in Caller : caller'[c].pc = "waiting" =>
           caller[c].pc = "waiting" /\ caller'[c].t = caller[c].t
  PROVE  Placed' /\ WaitersKept'
<1>1. \A p \in Prio : \A j \in DOMAIN queue[p] :
        queue[p][j] \in Task /\ task[queue[p][j]].mem # "none"
  BY DEF Typed, TypeOK, Owned, OwnedAllocated
<1>2. drain.strayed \subseteq Task
  BY DrainLoop DEF Typed, TypeOK
<1>3. \A u \in Task : task[u].mem # "none" =>
        /\ task'[u].prio = task[u].prio
        /\ task'[u].mem # "none"
  BY StructureKept DEF TaskKept, FreedNow
<1>4. \A c \in Caller : caller[c].pc = "waiting" => caller[c].t \in Task /\ task[caller[c].t].mem # "none"
  BY DEF Typed, Pointers, Safe, CallersApart
<1>5. Placed'
  BY <1>1, <1>2, <1>3 DEF Placed, priority_to_queue
<1>6. \A c \in Caller : caller'[c].pc = "waiting" => task'[caller[c].t].mem = task[caller[c].t].mem
  <2> SUFFICES ASSUME NEW c \in Caller, caller'[c].pc = "waiting"
               PROVE  task'[caller[c].t].mem = task[caller[c].t].mem
    OBVIOUS
  <2>1. /\ caller[c].pc = "waiting" /\ task[caller[c].t].async = FALSE
        /\ \A d \in Caller : caller[d].pc = "waiting" /\ caller[d].t = caller[c].t => d = c
    BY DEF Safe, CallersApart
  <2>2. ~FreedNow(caller[c].t)
    BY <2>1 DEF FreedNow
  <2>3. TaskKept(caller[c].t)
    BY <1>4, <2>1, StructureKept
  <2> QED  BY <2>2, <2>3 DEF TaskKept
<1>7. WaitersKept'
  BY <1>3, <1>4, <1>6 DEF WaitersKept, priority_to_queue
<1> QED
  BY <1>5, <1>7

\* A late link goes into a queue that the loop has passed, and says so.
LEMMA LinkPlaced ==
  ASSUME Typed, Typed', Owned, Safe, Placed, WaitersKept, NEW c \in Caller, EnqueueLink(c)
  PROVE  Placed' /\ WaitersKept'
<1>p. PICK p \in Prio : p = priority_to_queue(task[caller[c].t].prio)
  <2>1. caller[c].t \in Task
    BY DEF EnqueueLink, Typed, Pointers
  <2>2. task[caller[c].t].prio \in Prio
    BY <2>1 DEF Typed, TypeOK, TaskRecord
  <2> QED  BY <2>2, SchedAssumption DEF priority_to_queue, Prio
<1>t. PICK t \in Task : t = caller[c].t
  BY DEF EnqueueLink, Typed, Pointers
<1>1. /\ task' = task /\ phase' = phase /\ caller[c].pc = "stamped"
      /\ queue' = [queue EXCEPT ![p] = Append(@, t)]
      /\ drain' = [drain EXCEPT !.strayed = IF p < drain.next THEN @ \cup {t} ELSE @]
  BY <1>p, <1>t DEF EnqueueLink
<1>2. /\ drain'.next = drain.next
      /\ drain'.strayed = IF p < drain.next THEN drain.strayed \cup {t} ELSE drain.strayed
  BY <1>1 DEF Typed, TypeOK, DrainRecord
<1>3. \A d \in Caller : caller'[d].pc = "waiting" /\ d # c =>
        caller[d].pc = "waiting" /\ caller'[d].t = caller[d].t /\ caller[d].t # t
  <2>1. \A d \in Caller \ {c} : caller'[d] = caller[d]
    BY DEF EnqueueLink, Typed, TypeOK
  <2> QED  BY <1>t, <1>1, <2>1 DEF Safe, CallersApart
<1>4. caller'[c].t = t /\ task[t].mem = "live"
  <2>1. caller'[c].t = t
    BY <1>t DEF EnqueueLink, Typed, TypeOK, CallerRecord
  <2>2. Submitting(c, t)
    BY <1>t, <1>1 DEF Submitting
  <2> QED  BY <2>1, <2>2 DEF Safe, LiveUntilRelease
<1>5. \A q \in Prio : \A i \in DOMAIN queue'[q] :
        (i \in DOMAIN queue[q] /\ queue'[q][i] = queue[q][i]) \/ (q = p /\ queue'[q][i] = t)
  <2>1. queue[p] \in Seq(Task) /\ queue'[p] = Append(queue[p], t)
    BY <1>1 DEF Typed, TypeOK
  <2>2. \A q \in Prio \ {p} : queue'[q] = queue[q]
    BY <1>1 DEF Typed, TypeOK
  <2>3. \A i \in DOMAIN Append(queue[p], t) :
          (i \in DOMAIN queue[p] /\ Append(queue[p], t)[i] = queue[p][i]) \/ Append(queue[p], t)[i] = t
    BY <2>1
  <2> QED  BY <2>1, <2>2, <2>3
<1>6. Placed'
  <2>1. phase' = "gone" => drain'.next > Realtime
    BY <1>1, <1>2 DEF Placed
  <2>2. \A u \in drain'.strayed : task[u].mem # "none" /\ priority_to_queue(task[u].prio) < drain.next
    BY <1>p, <1>t, <1>2, <1>4 DEF Placed
  <2>3. ASSUME NEW q \in Prio, NEW i \in DOMAIN queue'[q]
        PROVE  /\ priority_to_queue(task[queue'[q][i]].prio) = q
               /\ q < drain.next => queue'[q][i] \in drain'.strayed
    <3>1. CASE i \in DOMAIN queue[q] /\ queue'[q][i] = queue[q][i]
      BY <1>2, <3>1 DEF Placed
    <3>2. CASE q = p /\ queue'[q][i] = t
      BY <1>p, <1>t, <1>2, <3>2
    <3> QED  BY <1>5, <3>1, <3>2
  <2> QED  BY <1>1, <1>2, <2>1, <2>2, <2>3 DEF Placed, priority_to_queue
<1>7. WaitersKept'
  BY <1>1, <1>2, <1>3, <1>4 DEF WaitersKept, priority_to_queue
<1> QED
  BY <1>6, <1>7

\* Emptying a queue frees the tasks of waiters whose queue it is.
LEMMA DrainPlaced ==
  ASSUME Typed, Typed', Owned, Safe, Placed, WaitersKept, ExitDrain, [Next]_vars
  PROVE  Placed' /\ WaitersKept'
<1>p. PICK p \in Prio : p = drain.next
  BY DrainLoop DEF ExitDrain, Typed, TypeOK
<1>1. /\ phase' = phase /\ phase # "gone" /\ caller' = caller
      /\ queue' = [queue EXCEPT ![p] = <<>>]
      /\ \A u \in Task \ ToSet(queue[p]) : task'[u] = task[u]
  BY <1>p DEF ExitDrain
<1>2. drain'.next = p + 1 /\ drain'.strayed = drain.strayed /\ p \in Nat /\ drain.strayed \subseteq Task
  BY <1>p, DrainLoop DEF ExitDrain, Typed, TypeOK
<1>3. \A u \in Task : task[u].mem # "none" => task'[u].prio = task[u].prio /\ task'[u].mem # "none"
  BY StructureKept DEF TaskKept, FreedNow
<1>4. \A q \in Prio : \A i \in DOMAIN queue'[q] :
        q # p /\ i \in DOMAIN queue[q] /\ queue'[q][i] = queue[q][i]
        /\ queue[q][i] \in Task /\ task[queue[q][i]].mem # "none"
  <2>1. queue'[p] = <<>> /\ \A q \in Prio \ {p} : queue'[q] = queue[q]
    BY <1>1 DEF Typed, TypeOK
  <2>2. DOMAIN <<>> = {}
    OBVIOUS
  <2>3. \A q \in Prio : \A j \in DOMAIN queue[q] : queue[q][j] \in Task /\ task[queue[q][j]].mem # "none"
    BY DEF Typed, TypeOK, Owned, OwnedAllocated
  <2> QED  BY <2>1, <2>2, <2>3
<1>5. \A u \in Task : task[u].mem # "none" => priority_to_queue(task[u].prio) = priority_to_queue(task'[u].prio)
  BY <1>3
<1>6. \A u \in Task : priority_to_queue(task[u].prio) \in Nat
  BY SchedAssumption DEF Typed, TypeOK, TaskRecord, Prio, priority_to_queue
<1>7. \A q \in Prio : q \in Nat
  BY DEF Prio
<1> HIDE DEF priority_to_queue
<1>8. Placed'
  <2>1. \A u \in drain'.strayed : task'[u].mem # "none" /\ priority_to_queue(task'[u].prio) < drain'.next
    BY <1>p, <1>2, <1>3, <1>5, <1>6 DEF Placed
  <2>2. ASSUME NEW q \in Prio, NEW i \in DOMAIN queue'[q]
        PROVE  /\ priority_to_queue(task'[queue'[q][i]].prio) = q
               /\ q < drain'.next => queue'[q][i] \in drain'.strayed
    <3>1. /\ q # p /\ i \in DOMAIN queue[q] /\ queue'[q][i] = queue[q][i]
          /\ queue[q][i] \in Task /\ task[queue[q][i]].mem # "none"
      BY <1>4
    <3>2. priority_to_queue(task[queue[q][i]].prio) = q /\ (q < drain.next => queue[q][i] \in drain.strayed)
      BY <3>1 DEF Placed
    <3>3. q < p + 1 => q < p
      BY <1>2, <1>7, <3>1
    <3> QED  BY <1>p, <1>2, <1>5, <3>1, <3>2, <3>3
  <2> QED  BY <1>1, <2>1, <2>2 DEF Placed, priority_to_queue
<1>9. WaitersKept'
  <2> SUFFICES ASSUME NEW c \in Caller, caller[c].pc = "waiting"
               PROVE  \/ task'[caller[c].t].mem = "live"
                      \/ /\ priority_to_queue(task'[caller[c].t].prio) < drain'.next
                         /\ caller[c].t \notin drain'.strayed
    BY <1>1 DEF WaitersKept, priority_to_queue
  <2>1. caller[c].t \in Task /\ task[caller[c].t].mem # "none"
    BY DEF Typed, Pointers, Safe, CallersApart
  <2>2. CASE caller[c].t \in ToSet(queue[p])
    <3>1. PICK i \in DOMAIN queue[p] : caller[c].t = queue[p][i]
      BY <2>2 DEF ToSet
    <3>2. priority_to_queue(task[caller[c].t].prio) = p
      BY <3>1 DEF Placed
    <3>3. caller[c].t \notin drain.strayed
      BY <1>p, <1>2, <3>2 DEF Placed
    <3> QED  BY <1>2, <1>5, <2>1, <3>2, <3>3
  <2>3. CASE caller[c].t \notin ToSet(queue[p])
    <3>1. task'[caller[c].t] = task[caller[c].t]
      BY <1>1, <2>1, <2>3
    <3>2. \/ task[caller[c].t].mem = "live"
          \/ priority_to_queue(task[caller[c].t].prio) < drain.next /\ caller[c].t \notin drain.strayed
      BY DEF WaitersKept
    <3> QED  BY <1>p, <1>2, <1>6, <2>1, <3>1, <3>2
  <2> QED  BY <2>2, <2>3
<1> QED
  BY <1>8, <1>9

\* Every step keeps the tasks in the queues of their priorities.
LEMMA NextPlaced ==
  Typed /\ Typed' /\ Owned /\ Safe /\ Placed /\ WaitersKept /\ [Next]_vars => Placed' /\ WaitersKept'
<1> SUFFICES ASSUME Typed, Typed', Owned, Safe, Placed, WaitersKept, [Next]_vars
             PROVE  Placed' /\ WaitersKept'
  OBVIOUS
<1> DEFINE Same == \A p \in Prio : \A i \in DOMAIN queue'[p] :
                     \E j \in DOMAIN queue[p] : queue'[p][i] = queue[p][j]
           Waiters == \A c \in Caller : caller'[c].pc = "waiting" =>
                        caller[c].pc = "waiting" /\ caller'[c].t = caller[c].t
           Still == phase' = "gone" => phase = "gone" \/ drain.next > Realtime
<1>1. (queue' = queue => Same) /\ (caller' = caller => Waiters) /\ (phase' = phase => Still)
  OBVIOUS
<1>2. ASSUME drain' = drain, Same, Waiters, Still PROVE Placed' /\ WaitersKept'
  BY <1>2, PlacedKept
<1> HIDE DEF Same, Waiters, Still
<1>3. ASSUME NEW c \in Caller, CallerStep(c) PROVE Placed' /\ WaitersKept'
  <2>1. CASE EnqueueLink(c)
    BY <2>1, LinkPlaced
  <2>2. CASE \/ EnqueueStamp(c) \/ AsyncReturn(c) \/ SubmitReap(c)
             \/ \E t \in Task, async \in BOOLEAN, want \in Prio : SubmitBegin(c, t, async, want)
    <3>1. drain' = drain /\ phase' = phase /\ queue' = queue
      BY <2>2 DEF EnqueueStamp, AsyncReturn, SubmitReap, SubmitBegin
    <3>2. Waiters
      BY <2>2 DEF EnqueueStamp, AsyncReturn, SubmitReap, SubmitBegin, Typed, TypeOK, CallerRecord, IdleCaller, Waiters
    <3> QED  BY <1>1, <1>2, <3>1, <3>2
  <2> QED  BY <1>3, <2>1, <2>2 DEF CallerStep, WaitDone, WaitInterrupted
<1>4. ASSUME NEW w \in Worker, NEW p \in Prio, Dequeue(w, p) PROVE Placed' /\ WaitersKept'
  <2>1. /\ caller' = caller /\ drain' = drain /\ phase' = phase
        /\ queue[p] # <<>> /\ queue' = [queue EXCEPT ![p] = Tail(@)]
    BY <1>4 DEF Dequeue, HighestNonEmpty
  <2>2. queue[p] \in Seq(Task)
    BY DEF Typed, TypeOK
  <2>3. \A i \in DOMAIN Tail(queue[p]) : i + 1 \in DOMAIN queue[p] /\ Tail(queue[p])[i] = queue[p][i + 1]
    BY <2>1, <2>2
  <2>4. queue'[p] = Tail(queue[p]) /\ \A q \in Prio \ {p} : queue'[q] = queue[q]
    BY <2>1 DEF Typed, TypeOK
  <2>5. Same
    BY <2>3, <2>4 DEF Same
  <2> QED  BY <1>1, <1>2, <2>1, <2>5
<1>5. ASSUME NEW p \in Prio, NEW k \in DOMAIN queue[p], Cancel(p, k) PROVE Placed' /\ WaitersKept'
  <2>1. caller' = caller /\ drain' = drain /\ phase' = phase /\ queue' = [queue EXCEPT ![p] = RemoveAt(@, k)]
    BY <1>5 DEF Cancel
  <2>2. queue[p] \in Seq(Task)
    BY DEF Typed, TypeOK
  <2>3. queue'[p] = RemoveAt(queue[p], k) /\ \A q \in Prio \ {p} : queue'[q] = queue[q]
    BY <2>1 DEF Typed, TypeOK
  <2>4. /\ RemoveAt(queue[p], k) \in Seq(Task)
        /\ Len(RemoveAt(queue[p], k)) = Len(queue[p]) - 1
        /\ \A i \in 1..(Len(queue[p]) - 1) :
             RemoveAt(queue[p], k)[i] = IF i < k THEN queue[p][i] ELSE queue[p][i + 1]
    BY <2>2, RemoveAtElements
  <2>5. \A i \in DOMAIN RemoveAt(queue[p], k) :
          \E j \in DOMAIN queue[p] : RemoveAt(queue[p], k)[i] = queue[p][j]
    <3> TAKE i \in DOMAIN RemoveAt(queue[p], k)
    <3>1. i \in 1..(Len(queue[p]) - 1) /\ DOMAIN queue[p] = 1..Len(queue[p]) /\ Len(queue[p]) \in Nat
      BY <2>2, <2>4
    <3>2. i \in DOMAIN queue[p] /\ i + 1 \in DOMAIN queue[p]
      BY <3>1
    <3> QED  BY <2>4, <3>1, <3>2
  <2>6. Same
    BY <2>3, <2>5 DEF Same
  <2> QED  BY <1>1, <1>2, <2>1, <2>6
<1>6. CASE ExitDrain
  BY <1>6, DrainPlaced
<1>7. CASE ExitFree
  BY <1>1, <1>2, <1>7 DEF ExitFree, Still
<1>8. CASE \E w \in Worker : Publish(w) \/ Fill(w) \/ Signal(w) \/ Release(w) \/ Clear(w) \/ WorkerStop(w) \/ WatchdogFire(w)
  BY <1>1, <1>2, <1>8, SMTT(30) DEF Publish, Fill, Signal, Release, Clear, WorkerStop, WatchdogFire
<1>9. CASE \/ WatchdogRelease \/ DeadlinePasses \/ QueryMovesOn \/ QueryHit \/ QueryMiss
           \/ ExitBegin \/ ExitCancelWork \/ StaleAccess \/ UnloadedAccess
           \/ \E id \in AsyncIds : QueryTrack(id)
  BY <1>1, <1>2, <1>9 DEF WatchdogRelease, DeadlinePasses, QueryMovesOn, QueryHit, QueryMiss,
     ExitBegin, ExitCancelWork, StaleAccess, UnloadedAccess, QueryTrack, Still
<1>10. CASE UNCHANGED vars
  BY <1>1, <1>2, <1>10 DEF vars
<1> QED
  BY <1>3, <1>4, <1>5, <1>6, <1>7, <1>8, <1>9, <1>10 DEF Next, WorkerStep

(***************************************************************************)
(* A live task that is not completed is with its submitter, in a queue of  *)
(* the loaded module, with a worker that will still complete it, or was    *)
(* linked after the unload had emptied its queue; and nobody but the drain *)
(* of that queue frees the structure ai_sched_submit waits on.             *)
(***************************************************************************)
THEOREM TasksAccounted == Spec => []NoTaskLost
<1>1. Init => Typed /\ Owned /\ Safe /\ Placed /\ WaitersKept
  <2>1. ASSUME Init PROVE Placed /\ WaitersKept
    <3>1. \A p \in Prio : queue[p] = <<>>
      BY <2>1 DEF Init
    <3>2. DOMAIN <<>> = {}
      OBVIOUS
    <3>3. phase = "running" /\ drain.strayed = {} /\ \A c \in Caller : caller[c].pc = "idle"
      BY <2>1 DEF Init, NoDrain, IdleCaller
    <3> QED  BY <3>1, <3>2, <3>3 DEF Placed, WaitersKept
  <2> QED  BY <2>1, InitTyped, InitOwned, InitSafe
<1>2. /\ Typed /\ Owned /\ Safe /\ Placed /\ WaitersKept /\ [Next]_vars
      => (Typed /\ Owned /\ Safe /\ Placed /\ WaitersKept)'
  BY NextTyped, NextOwned, NextSafe, NextPlaced
<1>3. Typed /\ Owned /\ Safe /\ Placed /\ WaitersKept => NoTaskLost
  <2> SUFFICES ASSUME Typed, Safe, Placed, WaitersKept PROVE NoTaskLost
    OBVIOUS
  <2>1. ASSUME NEW t \in QueuedTasks, phase = "gone" PROVE Stranded(t)
    <3>1. PICK p \in Prio : \E i \in DOMAIN queue[p] : t = queue[p][i]
      BY DEF QueuedTasks, ToSet
    <3>2. p < drain.next
      <4>1. drain.next \in Nat /\ drain.next > Realtime /\ Realtime \in Nat /\ p \in 0..Realtime
        BY <2>1, DrainLoop, SchedAssumption DEF Typed, TypeOK, Placed, Prio
      <4> QED  BY <4>1
    <3> QED  BY <2>1, <3>1, <3>2 DEF Placed, Stranded
  <2> QED  BY <2>1 DEF Safe, NoneMissing, WaitersKept, NoTaskLost
<1> QED
  BY <1>1, <1>2, <1>3, PTL DEF Spec

-----------------------------------------------------------------------------
(* The capacity of the queues *)

\* The submitters between the capacity test and the link into queue p.
Passing(p) ==
  {c \in Caller : caller[c].pc \in {"checked", "stamped"} /\ priority_to_queue(task[caller[c].t].prio) = p}

\* OvershootBounded, with the submitters still to link counted in.
RoomForPassing ==
  \A p \in Prio : Len(queue[p]) + Cardinality(Passing(p)) < Capacity[p] + Cardinality(Caller)

\* Submitters are finitely many.
LEMMA PassingBound ==
  ASSUME NEW p \in Prio
  PROVE  /\ IsFiniteSet(Caller) /\ IsFiniteSet(Passing(p)) /\ IsFiniteSet(Passing(p)')
         /\ Cardinality(Caller) \in Nat /\ Cardinality(Passing(p)) \in Nat /\ Cardinality(Passing(p)') \in Nat
         /\ Cardinality(Passing(p)') <= Cardinality(Caller)
<1>1. IsFiniteSet(Caller)
  BY SchedAssumption
<1>2. Passing(p) \subseteq Caller /\ Passing(p)' \subseteq Caller
  BY DEF Passing
<1> QED
  BY <1>1, <1>2, FS_Subset, FS_CardinalityType

\* Shorter queues and fewer passing submitters leave the room there was.
LEMMA RoomKept ==
  ASSUME Typed, Typed', RoomForPassing,
         \A p \in Prio : Len(queue'[p]) <= Len(queue[p]) /\ Passing(p)' \subseteq Passing(p)
  PROVE  RoomForPassing'
<1> SUFFICES ASSUME NEW p \in Prio
             PROVE  Len(queue'[p]) + Cardinality(Passing(p)') < Capacity[p] + Cardinality(Caller)
  BY DEF RoomForPassing
<1>1. Cardinality(Passing(p)') <= Cardinality(Passing(p))
  BY PassingBound, FS_Subset
<1>2. /\ Len(queue[p]) \in Nat /\ Len(queue'[p]) \in Nat /\ Capacity[p] \in Nat
      /\ Len(queue'[p]) <= Len(queue[p])
  BY SchedAssumption DEF Typed, TypeOK
<1>3. Len(queue[p]) + Cardinality(Passing(p)) < Capacity[p] + Cardinality(Caller)
  BY DEF RoomForPassing
<1> QED
  BY <1>1, <1>2, <1>3, PassingBound

\* The capacity test: whoever passes it saw a place.
LEMMA SubmitBeginRoom ==
  ASSUME Typed, Typed', Owned, RoomForPassing, NEW c \in Caller, NEW t \in Task, NEW async \in BOOLEAN,
         NEW want \in Prio, SubmitBegin(c, t, async, want)
  PROVE  RoomForPassing'
<1> DEFINE p == priority_to_queue(0)
<1>1. /\ queue' = queue /\ task[t].mem = "none"
      /\ Len(queue[p]) < Capacity[p]
  <2>1. NewTask(async, want).prio = 0
    BY DEF NewTask, Unallocated
  <2>2. p \in Prio
    BY SchedAssumption DEF priority_to_queue, Prio
  <2>3. ~(Len(queue[p]) >= Capacity[p]) /\ queue' = queue /\ task[t].mem = "none"
    BY <2>1 DEF SubmitBegin, QueueFull
  <2>4. Len(queue[p]) \in Nat /\ Capacity[p] \in Nat
    BY <2>2, SchedAssumption DEF Typed, TypeOK
  <2> QED  BY <2>3, <2>4
<1>2. task'[t].prio = 0 /\ \A u \in Task \ {t} : task'[u] = task[u]
  BY DEF SubmitBegin, NewTask, Unallocated, Typed, TypeOK
<1>3. caller'[c].t = t /\ \A d \in Caller \ {c} : caller'[d] = caller[d]
  BY DEF SubmitBegin, Typed, TypeOK
<1> HIDE DEF p
<1>4. \A q \in Prio : q # p => Passing(q)' \subseteq Passing(q)
  <2>1. \A d \in Caller \ {c} : caller[d].pc \in {"checked", "stamped"} => caller[d].t \in Task \ {t}
    BY <1>1, OwnerFacts
  <2> QED  BY <1>2, <1>3, <2>1 DEF Passing, p
<1> SUFFICES ASSUME NEW q \in Prio
             PROVE  Len(queue'[q]) + Cardinality(Passing(q)') < Capacity[q] + Cardinality(Caller)
  BY DEF RoomForPassing
<1>5. Len(queue[q]) \in Nat /\ Capacity[q] \in Nat
  BY SchedAssumption DEF Typed, TypeOK
<1>6. CASE q = p
  BY <1>1, <1>5, <1>6, PassingBound
<1>7. CASE q # p
  <2>1. Cardinality(Passing(q)') <= Cardinality(Passing(q))
    BY <1>4, <1>7, PassingBound, FS_Subset
  <2>2. Len(queue[q]) + Cardinality(Passing(q)) < Capacity[q] + Cardinality(Caller)
    BY DEF RoomForPassing
  <2> QED  BY <1>1, <1>5, <2>1, <2>2, PassingBound, SMTT(30)
<1> QED
  BY <1>6, <1>7

\* Linking turns a passing submitter into a queued task.
LEMMA LinkRoom ==
  ASSUME Typed, Typed', RoomForPassing, NEW c \in Caller, EnqueueLink(c)
  PROVE  RoomForPassing'
<1>p. PICK p \in Prio : p = priority_to_queue(task[caller[c].t].prio)
  <2>1. caller[c].t \in Task
    BY DEF EnqueueLink, Typed, Pointers
  <2>2. task[caller[c].t].prio \in Prio
    BY <2>1 DEF Typed, TypeOK, TaskRecord
  <2> QED  BY <2>2, SchedAssumption DEF priority_to_queue, Prio
<1>1. task' = task /\ caller[c].pc = "stamped" /\ queue' = [queue EXCEPT ![p] = Append(@, caller[c].t)]
  BY <1>p DEF EnqueueLink
<1>2. caller'[c].pc \in {"linked", "waiting"} /\ \A d \in Caller \ {c} : caller'[d] = caller[d]
  BY DEF EnqueueLink, Typed, TypeOK, CallerRecord
<1>3. c \in Passing(p) /\ Passing(p)' = Passing(p) \ {c}
  BY <1>p, <1>1, <1>2 DEF Passing
<1>4. \A q \in Prio : Passing(q)' \subseteq Passing(q)
  BY <1>1, <1>2 DEF Passing
<1> SUFFICES ASSUME NEW q \in Prio
             PROVE  Len(queue'[q]) + Cardinality(Passing(q)') < Capacity[q] + Cardinality(Caller)
  BY DEF RoomForPassing
<1>5. Len(queue[q]) \in Nat /\ Capacity[q] \in Nat
  BY SchedAssumption DEF Typed, TypeOK
<1>6. Len(queue[q]) + Cardinality(Passing(q)) < Capacity[q] + Cardinality(Caller)
  BY DEF RoomForPassing
<1>7. CASE q = p
  <2>1. Cardinality(Passing(q)') = Cardinality(Passing(q)) - 1
    BY <1>3, <1>7, PassingBound, FS_RemoveElement
  <2>2. Len(queue'[q]) = Len(queue[q]) + 1
    <3>1. queue[q] \in Seq(Task) /\ queue'[q] = Append(queue[q], caller[c].t)
      BY <1>1, <1>7 DEF Typed, TypeOK
    <3> QED  BY <3>1
  <2> QED  BY <1>5, <1>6, <2>1, <2>2, PassingBound
<1>8. CASE q # p
  <2>1. Cardinality(Passing(q)') <= Cardinality(Passing(q))
    BY <1>4, PassingBound, FS_Subset
  <2>2. queue'[q] = queue[q]
    BY <1>1, <1>8 DEF Typed, TypeOK
  <2> QED  BY <1>5, <1>6, <2>1, <2>2, PassingBound
<1> QED
  BY <1>7, <1>8

\* A step that links nothing and lets no submitter pass the capacity test.
LEMMA OtherRoom ==
  ASSUME Typed, Typed', Owned, RoomForPassing, [Next]_vars,
         \A p \in Prio : Len(queue'[p]) <= Len(queue[p]),
         \A c \in Caller : caller'[c].pc \in {"checked", "stamped"} =>
           caller[c].pc \in {"checked", "stamped"} /\ caller'[c].t = caller[c].t
  PROVE  RoomForPassing'
<1>1. \A c \in Caller : caller'[c].pc \in {"checked", "stamped"} =>
        task'[caller[c].t].prio = task[caller[c].t].prio
  BY OwnerFacts, StructureKept DEF TaskKept
<1>2. \A p \in Prio : Passing(p)' \subseteq Passing(p)
  BY <1>1 DEF Passing
<1> QED
  BY <1>2, RoomKept

\* Every step keeps the room.
LEMMA NextRoom == Typed /\ Typed' /\ Owned /\ RoomForPassing /\ [Next]_vars => RoomForPassing'
<1> SUFFICES ASSUME Typed, Typed', Owned, RoomForPassing, [Next]_vars PROVE RoomForPassing'
  OBVIOUS
<1>1. \A p \in Prio : queue[p] \in Seq(Task) /\ Len(queue[p]) \in Nat
  BY DEF Typed, TypeOK
<1>2. ASSUME NEW c \in Caller, CallerStep(c) PROVE RoomForPassing'
  <2>1. ASSUME NEW t \in Task, NEW async \in BOOLEAN, NEW want \in Prio, SubmitBegin(c, t, async, want)
        PROVE  RoomForPassing'
    BY <2>1, SubmitBeginRoom
  <2>2. CASE EnqueueLink(c)
    BY <2>2, LinkRoom
  <2>3. CASE EnqueueStamp(c)
    <3>1. \A p \in Prio : Len(queue'[p]) <= Len(queue[p])
      BY <1>1, <2>3 DEF EnqueueStamp
    <3>2. \A d \in Caller : caller'[d].pc \in {"checked", "stamped"} =>
            caller[d].pc \in {"checked", "stamped"} /\ caller'[d].t = caller[d].t
      BY <2>3 DEF EnqueueStamp, Typed, TypeOK, CallerRecord
    <3> QED  BY <3>1, <3>2, OtherRoom
  <2>4. CASE AsyncReturn(c) \/ SubmitReap(c)
    <3>1. \A p \in Prio : Len(queue'[p]) <= Len(queue[p])
      BY <1>1, <2>4 DEF AsyncReturn, SubmitReap
    <3>2. \A d \in Caller : caller'[d].pc \in {"checked", "stamped"} =>
            caller[d].pc \in {"checked", "stamped"} /\ caller'[d].t = caller[d].t
      BY <2>4 DEF AsyncReturn, SubmitReap, Typed, TypeOK, CallerRecord, IdleCaller
    <3> QED  BY <3>1, <3>2, OtherRoom
  <2> QED  BY <1>2, <2>1, <2>2, <2>3, <2>4 DEF CallerStep, WaitDone, WaitInterrupted
<1>3. ASSUME caller' = caller, \A p \in Prio : Len(queue'[p]) <= Len(queue[p]) PROVE RoomForPassing'
  BY <1>3, OtherRoom
<1>4. ASSUME NEW w \in Worker, NEW p \in Prio, Dequeue(w, p) PROVE RoomForPassing'
  <2>1. caller' = caller /\ queue[p] # <<>> /\ queue' = [queue EXCEPT ![p] = Tail(@)]
    BY <1>4 DEF Dequeue, HighestNonEmpty
  <2>2. Len(Tail(queue[p])) <= Len(queue[p])
    BY <1>1, <2>1
  <2>3. \A q \in Prio : Len(queue'[q]) <= Len(queue[q])
    BY <1>1, <2>1, <2>2 DEF Typed, TypeOK
  <2> QED  BY <1>3, <2>1, <2>3
<1>5. ASSUME NEW p \in Prio, NEW i \in DOMAIN queue[p], Cancel(p, i) PROVE RoomForPassing'
  <2>1. caller' = caller /\ queue' = [queue EXCEPT ![p] = RemoveAt(@, i)]
    BY <1>5 DEF Cancel
  <2>2. Len(RemoveAt(queue[p], i)) <= Len(queue[p])
    BY <1>1, RemoveAtElements
  <2>3. \A q \in Prio : Len(queue'[q]) <= Len(queue[q])
    BY <1>1, <2>1, <2>2 DEF Typed, TypeOK
  <2> QED  BY <1>3, <2>1, <2>3
<1>6. CASE ExitDrain
  <2>1. caller' = caller /\ queue' = [queue EXCEPT ![drain.next] = <<>>] /\ queue \in [Prio -> Seq(Task)]
    BY <1>6 DEF ExitDrain, Typed, TypeOK
  <2>2. Len(<<>>) = 0
    OBVIOUS
  <2>3. \A q \in Prio : Len(queue'[q]) <= Len(queue[q])
    BY <1>1, <2>1, <2>2
  <2> QED  BY <1>3, <2>1, <2>3
<1>7. CASE caller' = caller /\ queue' = queue
  BY <1>1, <1>3, <1>7
<1>8. CASE \E w \in Worker : Publish(w) \/ Fill(w) \/ Signal(w) \/ Release(w) \/ Clear(w) \/ WorkerStop(w)
  BY <1>7, <1>8, SMTT(30) DEF Publish, Fill, Signal, Release, Clear, WorkerStop
<1>9. CASE \/ WatchdogRelease \/ \E w \in Worker : WatchdogFire(w)
           \/ DeadlinePasses \/ QueryMovesOn \/ QueryHit \/ QueryMiss
           \/ ExitBegin \/ ExitCancelWork \/ ExitFree \/ StaleAccess \/ UnloadedAccess
           \/ \E id \in AsyncIds : QueryTrack(id)
  BY <1>7, <1>9 DEF WatchdogRelease, WatchdogFire, DeadlinePasses, QueryMovesOn, QueryHit, QueryMiss,
     ExitBegin,
     ExitCancelWork, ExitFree, StaleAccess, UnloadedAccess, QueryTrack
<1>10. CASE UNCHANGED vars
  BY <1>7, <1>10 DEF vars
<1> QED
  BY <1>2, <1>4, <1>5, <1>6, <1>8, <1>9, <1>10 DEF Next, WorkerStep

\* Empty queues have room: no capacity is zero.
LEMMA InitRoom == Init => RoomForPassing
<1> SUFFICES ASSUME Init, NEW p \in Prio
             PROVE  Len(queue[p]) + Cardinality(Passing(p)) < Capacity[p] + Cardinality(Caller)
  BY DEF RoomForPassing
<1>1. Passing(p) = {}
  BY DEF Init, Passing, IdleCaller
<1>2. Len(queue[p]) = 0
  <2>1. queue[p] = <<>>
    BY DEF Init
  <2> QED  BY <2>1
<1>3. Capacity[p] \in Nat \ {0}
  BY SchedAssumption
<1>4. Cardinality(Caller) \in Nat
  BY PassingBound
<1> QED
  BY <1>1, <1>2, <1>3, <1>4, FS_EmptySet

(***************************************************************************)
(* The unlocked capacity test of enqueue_task lets a queue grow past its   *)
(* capacity by fewer tasks than there are submitters, however their tests  *)
(* and links interleave.                                                   *)
(***************************************************************************)
THEOREM QueuesBounded == Spec => []OvershootBounded
<1>1. Init => Typed /\ Owned /\ RoomForPassing
  BY InitTyped, InitOwned, InitRoom
<1>2. Typed /\ Owned /\ RoomForPassing /\ [Next]_vars => (Typed /\ Owned /\ RoomForPassing)'
  BY NextTyped, NextOwned, NextRoom
<1>3. Typed /\ Owned /\ RoomForPassing => OvershootBounded
  <2> SUFFICES ASSUME Typed, RoomForPassing, NEW p \in Prio
               PROVE  Len(queue[p]) < Capacity[p] + Cardinality(Caller)
    BY DEF OvershootBounded
  <2>1. Len(queue[p]) \in Nat /\ Capacity[p] \in Nat
    BY SchedAssumption DEF Typed, TypeOK
  <2>2. Len(queue[p]) + Cardinality(Passing(p)) < Capacity[p] + Cardinality(Caller)
    BY DEF RoomForPassing
  <2> QED  BY <2>1, <2>2, PassingBound
<1> QED
  BY <1>1, <1>2, <1>3, PTL DEF Spec

=============================================================================
