-------------------------- MODULE SdkClientProofs --------------------------
(***************************************************************************)
(* Theorems about the client life cycle and the connection pool of the     *)
(* Python SDK, for any number of tasks, connections, attempts and          *)
(* transports.                                                             *)
(***************************************************************************)
EXTENDS SdkClient, SequenceTheorems, FiniteSetTheorems, TLAPS

-----------------------------------------------------------------------------
(* The inductive invariant *)

\* Stages of connect() before the transport is started.
Creating == {"gather", "retrylock", "retry", "retrypause"}

\* Stages at which a task works on a transport.
Active == Creating \cup {"health", "lock", "reopen", "sent", "stoplock", "closing"}

\* The stage of a task fits the call it makes, and it works on a transport
\* that has been made.
StageInv ==
  /\ transport \in 0..made /\ \A u \in Task : on[u] \in 0..made
  /\ \A u \in Task :
       /\ at[u] = "idle" <=> call[u] = "none"
       /\ at[u] = "pause" => call[u] = "reconnect"
       /\ at[u] \in Creating \cup {"health"} => call[u] \in {"connect", "reconnect"}
       /\ at[u] \in {"stoplock", "closing"} => call[u] \in {"disconnect", "reconnect"}
       /\ at[u] \in Active => on[u] # None
       /\ at[u] = "retrypause" => tries[u] < Retries

\* A transport still to be made has nothing.
FreshInv ==
  \A t \in Transport : t > made =>
    lock[t] = <<>> /\ sock[t] = {} /\ up[t] = {} /\ \A i \in Slot : opening[t][i] = {}

\* A transport is started by the one task that made it, which keeps requests
\* out until then.
CreatorInv ==
  /\ \A u, v \in Task : at[u] \in Creating /\ at[v] \in Creating /\ on[u] = on[v] => u = v
  /\ \A u \in Task : at[u] \in Creating => on[u] \notin started
  /\ \A u, v \in Task : at[u] \in Creating /\ at[v] \in {"lock", "reopen"} => on[u] # on[v]

HeadIs(t, u) == lock[t] # <<>> /\ Head(lock[t]) = u

\* Who is between acquire and release holds the lock, and who awaits a
\* connect() is at the stage for it.
LockInv ==
  /\ \A u \in Task : at[u] \in {"gather", "reopen", "closing"} => HeadIs(on[u], u)
  /\ \A t \in Transport, i \in Slot : \A u \in opening[t][i] :
       on[u] = t /\ at[u] \in {"gather", "retry", "reopen"}

\* A pool is shut by the task that holds its lock.
ShutInv ==
  /\ \A u \in Task : at[u] \in {"gather", "reopen"} => on[u] \notin shut
  /\ \A u \in Task : at[u] = "closing" => on[u] \in shut
  /\ gone \subseteq shut
  /\ \A t \in Transport : t \notin shut => sock[t] = up[t]

\* Nobody can bring a connection of t up again.
Dead(t) ==
  /\ sock[t] = {} /\ \A i \in Slot : opening[t][i] = {}
  /\ \A v \in Task : on[v] = t /\ at[v] \in {"lock", "reopen"} => t \in shut

\* Lifecycle calls that do not overlap: one at a time, and it works on the
\* client's transport.
OneCaller ==
  /\ \A u, v \in Task : call[u] \in Lifecycle /\ call[v] \in Lifecycle => u = v
  /\ \A u \in Task : call[u] \in Lifecycle /\ at[u] \in Active => on[u] = transport

\* Nobody stops the transport that is being started.
StartsOpen == \A u \in Task : at[u] \in Creating => on[u] \notin stopped \cup shut

\* The client is not connected while it stops, and else its transport is usable.
SaysTrue ==
  /\ \A u \in Task : at[u] \in {"stoplock", "closing"} => connected = FALSE
  /\ connected = TRUE => transport \in started \ (stopped \cup shut)

\* A pool that is shut stays closed.
ShutClosed == \A t \in shut : sock[t] = {} /\ \A i \in Slot : opening[t][i] = {}

\* A transport the client let go of without a second connect() is dead.
OthersDead == \A t \in Transport : t = transport \/ t \in dropped \/ Dead(t)

\* What holds as long as lifecycle calls have not overlapped.
AloneInv ==
  overlap = FALSE => OneCaller /\ StartsOpen /\ SaysTrue /\ ShutClosed /\ OthersDead

IInv == TypeOK /\ StageInv /\ FreshInv /\ CreatorInv /\ LockInv /\ ShutInv /\ AloneInv

-----------------------------------------------------------------------------
(* The lock of a pool *)

\* Queueing for a lock keeps every holder and gives a free lock to the task.
LEMMA AcquireHeads ==
  ASSUME TypeOK, NEW u \in Task, NEW t \in Transport, Acquire(u, t)
  PROVE  /\ lock' \in [Transport -> Seq(Task)]
         /\ \A s \in Transport, v \in Task : HeadIs(s, v) => HeadIs(s, v)'
         /\ lock[t] = <<>> => HeadIs(t, u)'
         /\ \A s \in Transport \ {t} : lock'[s] = lock[s]
  <1>1. lock \in [Transport -> Seq(Task)]
    BY DEF TypeOK
  <1>2. lock[t] \in Seq(Task)
    BY <1>1
  <1>3. /\ Append(lock[t], u) \in Seq(Task) /\ Append(lock[t], u) # <<>>
        /\ lock[t] # <<>> => Head(Append(lock[t], u)) = Head(lock[t])
        /\ lock[t] = <<>> => Head(Append(lock[t], u)) = u
    BY <1>2, AppendProperties, EmptySeq
  <1>4. lock'[t] = Append(lock[t], u) /\ \A s \in Transport \ {t} : lock'[s] = lock[s]
    BY <1>1 DEF Acquire
  <1>5. lock' \in [Transport -> Seq(Task)]
    BY <1>1, <1>3 DEF Acquire
  <1>6. \A s \in Transport, v \in Task : HeadIs(s, v) => HeadIs(s, v)'
    BY <1>3, <1>4 DEF HeadIs
  <1> QED
    BY <1>3, <1>4, <1>5, <1>6 DEF HeadIs

\* Only the holder gives a lock back, and the holders of other locks keep theirs.
LEMMA ReleaseHeads ==
  ASSUME TypeOK, NEW u \in Task, NEW t \in Transport, HeadIs(t, u), Release(t)
  PROVE  /\ lock' \in [Transport -> Seq(Task)]
         /\ \A s \in Transport, v \in Task \ {u} : HeadIs(s, v) => HeadIs(s, v)'
         /\ \A s \in Transport \ {t} : lock'[s] = lock[s]
  <1>1. lock \in [Transport -> Seq(Task)] /\ lock[t] # <<>> /\ Head(lock[t]) = u
    BY DEF TypeOK, HeadIs
  <1>2. Tail(lock[t]) \in Seq(Task)
    BY <1>1, HeadTailProperties
  <1>3. lock' \in [Transport -> Seq(Task)] /\ \A s \in Transport \ {t} : lock'[s] = lock[s]
    BY <1>1, <1>2 DEF Release
  <1> QED
    BY <1>1, <1>3 DEF HeadIs

-----------------------------------------------------------------------------
(* A task that moves, with the pools as they are *)

Holding == {"gather", "reopen", "closing"}

\* No task but u moves.
Moves(u) == \A v \in Task \ {u} : at'[v] = at[v] /\ call'[v] = call[v] /\ on'[v] = on[v]

\* The new stage of u fits its call and its transport.
StageFits(u) ==
  /\ on'[u] \in 0..made'
  /\ at'[u] = "idle" <=> call'[u] = "none"
  /\ at'[u] = "pause" => call'[u] = "reconnect"
  /\ at'[u] \in Creating \cup {"health"} => call'[u] \in {"connect", "reconnect"}
  /\ at'[u] \in {"stoplock", "closing"} => call'[u] \in {"disconnect", "reconnect"}
  /\ at'[u] \in Active => on'[u] # None
  /\ at'[u] = "retrypause" => tries'[u] < Retries

\* The other holders keep their locks.
HoldersStay(u) == \A s \in Transport, v \in Task \ {u} : HeadIs(s, v) => HeadIs(s, v)'

\* The stages of the other tasks still fit.
LEMMA StageStep ==
  ASSUME TypeOK, StageInv, NEW u \in Task, Moves(u), StageFits(u), made' \in Nat, made <= made',
         transport' \in 0..made', \A v \in Task \ {u} : tries'[v] = tries[v]
  PROVE  StageInv'
  <1>1. made \in Nat /\ \A v \in Task : on[v] \in 0..made
    BY DEF TypeOK, StageInv
  <1>2. \A v \in Task : on'[v] \in 0..made'
    BY <1>1 DEF Moves, StageFits
  <1>3. ASSUME NEW v \in Task \ {u}
        PROVE  /\ at'[v] = "idle" <=> call'[v] = "none"
               /\ at'[v] = "pause" => call'[v] = "reconnect"
               /\ at'[v] \in Creating \cup {"health"} => call'[v] \in {"connect", "reconnect"}
               /\ at'[v] \in {"stoplock", "closing"} => call'[v] \in {"disconnect", "reconnect"}
               /\ at'[v] \in Active => on'[v] # None
               /\ at'[v] = "retrypause" => tries'[v] < Retries
    BY <1>3 DEF StageInv, Moves
  <1> QED
    BY <1>2, <1>3 DEF StageInv, StageFits

\* Whoever is between acquire and release still holds the lock.
LEMMA HoldersKept ==
  ASSUME TypeOK, StageInv, LockInv, NEW u \in Task, Moves(u), HoldersStay(u),
         at'[u] \in Holding => HeadIs(on[u], u)'
  PROVE  \A v \in Task : at'[v] \in Holding => HeadIs(on[v], v)'
  <1>1. ASSUME NEW v \in Task \ {u}, at'[v] \in Holding
        PROVE  HeadIs(on[v], v)'
    <2>1. at[v] \in Holding /\ on'[v] = on[v]
      BY <1>1 DEF Moves
    <2>2. on[v] \in Transport /\ HeadIs(on[v], v)
      BY <2>1 DEF TypeOK, StageInv, LockInv, Active, Creating, Holding, Transport, None
    <2>3. lock'[on[v]] # <<>> /\ Head(lock'[on[v]]) = v
      BY <2>2 DEF HoldersStay, HeadIs
    <2> QED
      BY <2>1, <2>3 DEF HeadIs
  <1> QED
    BY <1>1

\* What a step does that changes neither the pools nor the client's transport:
\* u moves without starting to connect or to stop, and only onto the lock of
\* the client's started transport.
OnlyMoves(u) ==
  /\ Moves(u) /\ StageFits(u) /\ HoldersStay(u)
  /\ \A s \in Transport : s > made => lock'[s] = lock[s]
  /\ \A v \in Task \ {u} : tries'[v] = tries[v]
  /\ UNCHANGED <<transport, made, started, stopped, gone, shut, up, sock, opening, dropped>>
  /\ \A t \in Transport, i \in Slot : u \notin opening[t][i]
  /\ at'[u] \notin Holding \cup {"retry", "stoplock"}
  /\ at'[u] \in Creating => at[u] \in Creating /\ on'[u] = on[u]
  /\ at'[u] = "lock" => on'[u] = transport /\ transport \in started
  /\ connected' = TRUE => connected = TRUE
  /\ overlap' = FALSE =>
       /\ overlap = FALSE
       /\ call'[u] \in Lifecycle =>
            /\ call[u] \in Lifecycle \/ \A v \in Task \ {u} : call[v] \notin Lifecycle
            /\ at'[u] \in Active => on'[u] = transport

\* Such a step keeps the invariant.
LEMMA MoveStep ==
  ASSUME IInv, TypeOK', NEW u \in Task, OnlyMoves(u)
  PROVE  IInv'
  <1>1. /\ TypeOK /\ StageInv /\ FreshInv /\ CreatorInv /\ LockInv /\ ShutInv /\ AloneInv
    BY DEF IInv
  <1>2. /\ transport' = transport /\ made' = made /\ started' = started /\ stopped' = stopped
        /\ gone' = gone /\ shut' = shut /\ up' = up /\ sock' = sock /\ opening' = opening
        /\ dropped' = dropped
    BY DEF OnlyMoves
  <1>3. StageInv'
    <2>1. made' \in Nat /\ made <= made' /\ transport' \in 0..made'
      BY <1>1, <1>2 DEF TypeOK, StageInv
    <2> QED
      BY <1>1, <2>1, StageStep DEF OnlyMoves
  <1>4. FreshInv'
    BY <1>1, <1>2 DEF OnlyMoves, FreshInv
  <1>5. CreatorInv'
    <2>1. /\ at'[u] \notin {"reopen"}
          /\ at'[u] \in Creating => at[u] \in Creating /\ on'[u] = on[u]
          /\ at'[u] = "lock" => on'[u] \in started
      BY DEF OnlyMoves, Holding
    <2>2. \A v \in Task \ {u} : at'[v] = at[v] /\ on'[v] = on[v]
      BY DEF OnlyMoves, Moves
    <2>3. ~(at'[u] \in Creating /\ at'[u] \in {"lock", "reopen"})
      BY DEF Creating
    <2> QED
      BY <1>1, <1>2, <2>1, <2>2, <2>3 DEF CreatorInv
  <1>6. LockInv'
    <2>1. \A v \in Task : at'[v] \in Holding => HeadIs(on[v], v)'
      BY <1>1, HoldersKept DEF OnlyMoves
    <2>2. \A t \in Transport, i \in Slot : \A v \in opening'[t][i] :
            on'[v] = t /\ at'[v] \in {"gather", "retry", "reopen"}
      <3>1. SUFFICES ASSUME NEW t \in Transport, NEW i \in Slot, NEW v \in opening[t][i]
                     PROVE  on'[v] = t /\ at'[v] \in {"gather", "retry", "reopen"}
        BY <1>2
      <3>2. v \in Task /\ v # u
        BY <1>1 DEF TypeOK, OnlyMoves
      <3> QED
        BY <1>1, <3>1, <3>2 DEF LockInv, OnlyMoves, Moves
    <2> QED
      BY <2>1, <2>2 DEF LockInv, Holding
  <1>7. ShutInv'
    BY <1>1, <1>2 DEF ShutInv, OnlyMoves, Moves, Holding
  <1>8. AloneInv'
    <2>1. SUFFICES ASSUME overlap' = FALSE
                   PROVE  OneCaller' /\ StartsOpen' /\ SaysTrue' /\ ShutClosed' /\ OthersDead'
      BY DEF AloneInv
    <2>2. OneCaller /\ StartsOpen /\ SaysTrue /\ ShutClosed /\ OthersDead
      BY <1>1, <2>1 DEF AloneInv, OnlyMoves
    <2>3. /\ \A v \in Task \ {u} : at'[v] = at[v] /\ on'[v] = on[v] /\ call'[v] = call[v]
          /\ call'[u] \in Lifecycle =>
               /\ call[u] \in Lifecycle \/ \A v \in Task \ {u} : call[v] \notin Lifecycle
               /\ at'[u] \in Active => on'[u] = transport
      BY <2>1 DEF OnlyMoves, Moves
    <2>4. OneCaller'
      BY <1>2, <2>2, <2>3 DEF OneCaller
    <2>5. StartsOpen'
      BY <1>2, <2>2 DEF StartsOpen, OnlyMoves, Moves
    <2>6. SaysTrue'
      <3>1. at'[u] \notin {"stoplock", "closing"} /\ (connected' = TRUE => connected = TRUE)
        BY DEF OnlyMoves, Holding
      <3>2. connected' \in BOOLEAN
        BY DEF TypeOK
      <3> QED
        BY <1>2, <2>2, <2>3, <3>1, <3>2 DEF SaysTrue
    <2>7. ShutClosed'
      BY <1>2, <2>2 DEF ShutClosed
    <2>8. OthersDead'
      <3>1. /\ at'[u] # "reopen"
            /\ at'[u] = "lock" => on'[u] = transport
        BY DEF OnlyMoves, Holding
      <3> QED
        BY <1>2, <2>2, <2>3, <3>1 DEF OthersDead, Dead
    <2> QED BY <2>4, <2>5, <2>6, <2>7, <2>8
  <1> QED
    BY <1>1, <1>3, <1>4, <1>5, <1>6, <1>7, <1>8 DEF IInv

\* A task that waits for no connect() opens no connection.
LEMMA NotOpening ==
  ASSUME IInv, NEW u \in Task, at[u] \notin {"gather", "retry", "reopen"} \/ Opens(u) = {}
  PROVE  \A t \in Transport, i \in Slot : u \notin opening[t][i]
  BY DEF IInv, LockInv, Opens

\* Only tasks await a connect().
LEMMA OpenersAreTasks ==
  ASSUME TypeOK
  PROVE  \A t \in Transport, i \in Slot : opening[t][i] \subseteq Task
  BY DEF TypeOK

\* What has been made is a transport.
LEMMA MadeAreTransports ==
  ASSUME TypeOK
  PROVE  /\ made \in Nat /\ made <= MaxTransports
         /\ started \subseteq 1..made /\ stopped \subseteq 1..made /\ gone \subseteq 1..made
         /\ shut \subseteq 1..made /\ dropped \subseteq 1..made /\ shut \subseteq Transport
  <1>1. made \in 0..MaxTransports /\ MaxTransports \in Nat
    BY ClientAssumption DEF TypeOK
  <1>2. shut \subseteq 1..made
    BY DEF TypeOK
  <1>3. shut \subseteq Transport
    BY <1>1, <1>2 DEF Transport
  <1> QED
    BY <1>1, <1>3 DEF TypeOK

\* The transport a task works on has been made.
LEMMA WorksOnMade ==
  ASSUME IInv, NEW u \in Task, at[u] \in Active
  PROVE  on[u] \in Transport /\ on[u] \in 1..made /\ made \in Nat
  BY DEF IInv, TypeOK, StageInv, Transport, None

\* The call a task makes fits where it is.
LEMMA CallFits ==
  ASSUME IInv, NEW u \in Task
  PROVE  /\ at[u] = "idle" => call[u] = "none"
         /\ at[u] # "idle" => call[u] # "none"
         /\ at[u] = "pause" => call[u] = "reconnect"
         /\ at[u] \in Creating \cup {"health"} => call[u] \in {"connect", "reconnect"}
         /\ at[u] \in {"stoplock", "closing"} => call[u] \in {"disconnect", "reconnect"}
         /\ overlap = FALSE /\ call[u] \in Lifecycle /\ at[u] \in Active => on[u] = transport
  BY DEF IInv, StageInv, AloneInv, OneCaller

\* What a step leaves of a lock it gives back, takes or does not touch.
LocksFit(u) ==
  /\ lock' \in [Transport -> Seq(Task)] /\ HoldersStay(u)
  /\ \A s \in Transport : s > made => lock'[s] = lock[s]

\* The lock is not touched.
LEMMA NoLock ==
  ASSUME IInv, NEW u \in Task, UNCHANGED lock
  PROVE  LocksFit(u)
  BY DEF IInv, TypeOK, LocksFit, HoldersStay, HeadIs

\* The lock is asked for.
LEMMA TakesLock ==
  ASSUME IInv, NEW u \in Task, NEW t \in Transport, t <= made, Acquire(u, t)
  PROVE  LocksFit(u)
  <1>1. TypeOK /\ made \in Nat /\ \A s \in Transport : s > made => s # t
    BY DEF IInv, TypeOK, Transport
  <1> QED
    BY <1>1, AcquireHeads DEF LocksFit, HoldersStay

\* The lock is given back by its holder.
LEMMA GivesLock ==
  ASSUME IInv, NEW u \in Task, at[u] \in Active, HeadIs(on[u], u), Release(on[u])
  PROVE  LocksFit(u)
  <1>1. TypeOK /\ on[u] \in Transport /\ on[u] \in 1..made /\ made \in Nat
    BY WorksOnMade DEF IInv
  <1>2. \A s \in Transport : s > made => s # on[u]
    BY <1>1 DEF Transport
  <1> QED
    BY <1>1, <1>2, ReleaseHeads DEF LocksFit, HoldersStay

\* What most steps leave alone.
poolsAndTransport == <<transport, disconnecting, made, started, stopped, gone, shut, up, sock,
                       opening, overlap, dropped>>

\* A request ends: it failed, or it was answered.
LEMMA RequestEndsStep ==
  ASSUME IInv, NEW u \in Task, NEW still \in BOOLEAN, still = TRUE => connected = TRUE,
         at[u] \in {"health", "lock", "reopen", "sent"},
         at[u] = "reopen" => Opens(u) = {},
         RequestEnds(u, still), LocksFit(u), UNCHANGED poolsAndTransport
  PROVE  IInv'
  <1>1. TypeOK /\ \A t \in Transport, i \in Slot : u \notin opening[t][i]
    BY NotOpening DEF IInv
  <1>2. /\ transport' = transport /\ made' = made /\ started' = started /\ stopped' = stopped
        /\ gone' = gone /\ shut' = shut /\ up' = up /\ sock' = sock /\ opening' = opening
        /\ dropped' = dropped /\ disconnecting' = disconnecting /\ overlap' = overlap
        /\ connected' = still
    BY DEF poolsAndTransport, RequestEnds
  <1>3. on[u] \in 1..made /\ on[u] \in Transport /\ made \in Nat /\ call[u] # "none"
    BY WorksOnMade, CallFits DEF Active
  <1>4. /\ Moves(u) /\ \A v \in Task \ {u} : tries'[v] = tries[v]
        /\ \/ at'[u] = "idle" /\ call'[u] = "none" /\ on'[u] = None
           \/ at'[u] = "pause" /\ call'[u] = "reconnect" /\ call[u] = "reconnect" /\ on'[u] = on[u]
    BY <1>1 DEF RequestEnds, Return, Goto, Moves, TypeOK, Stage
  <1>5. /\ call' \in [Task -> Lifecycle \cup {"none", "request"}] /\ at' \in [Task -> Stage]
        /\ on' \in [Task -> Transport \cup {None}] /\ slot' \in [Task -> Slot]
        /\ tries' \in [Task -> 0..Retries] /\ left' \in [Task -> 0..Retries]
    <2>1. /\ left[u] \in 0..Retries /\ 0 \in 0..Retries /\ 1 \in Slot /\ Retries \in Nat
          /\ "idle" \in Stage /\ "pause" \in Stage
      BY <1>1, ClientAssumption DEF TypeOK, Slot, Stage
    <2>2. left[u] > 1 => left[u] - 1 \in 0..Retries
      BY <2>1
    <2>3. CASE Return(u)
      BY <1>1, <2>1, <2>3 DEF Return, Goto, TypeOK
    <2>4. CASE /\ left[u] > 1 /\ left' = [left EXCEPT ![u] = @ - 1]
               /\ tries' = [tries EXCEPT ![u] = 0] /\ slot' = [slot EXCEPT ![u] = 1]
               /\ Goto(u, "pause") /\ UNCHANGED <<call, on>>
      BY <1>1, <2>1, <2>2, <2>4 DEF Goto, TypeOK
    <2> QED
      BY <2>3, <2>4 DEF RequestEnds
  <1>6. TypeOK'
    BY <1>1, <1>2, <1>5 DEF TypeOK, LocksFit
  <1>7. OnlyMoves(u)
    BY <1>1, <1>2, <1>3, <1>4 DEF OnlyMoves, StageFits, LocksFit, Holding, Active, Creating, None,
       Lifecycle
  <1> QED
    BY <1>6, <1>7, MoveStep

\* A request queues for the lock of the client's transport.
LEMMA QueueStep ==
  ASSUME IInv, NEW u \in Task, at[u] \in {"idle", "health"}, transport \in started \ stopped,
         call' = call \/ (call[u] = "none" /\ call' = [call EXCEPT ![u] = "request"]),
         at[u] = "health" => call' = call, at[u] = "idle" => call'[u] = "request",
         on' = [on EXCEPT ![u] = transport], Acquire(u, transport), Goto(u, "lock"),
         UNCHANGED <<connected, slot, tries, left>>, UNCHANGED poolsAndTransport
  PROVE  IInv'
  <1>1. TypeOK /\ \A t \in Transport, i \in Slot : u \notin opening[t][i]
    BY NotOpening DEF IInv
  <1>2. /\ transport' = transport /\ made' = made /\ started' = started /\ stopped' = stopped
        /\ gone' = gone /\ shut' = shut /\ up' = up /\ sock' = sock /\ opening' = opening
        /\ dropped' = dropped /\ disconnecting' = disconnecting /\ overlap' = overlap
        /\ connected' = connected /\ slot' = slot /\ tries' = tries /\ left' = left
    BY DEF poolsAndTransport
  <1>3. transport \in Transport /\ transport \in 1..made /\ made \in Nat
    BY <1>1 DEF TypeOK, Transport, None
  <1>4. LocksFit(u)
    BY <1>3, TakesLock
  <1>5. /\ Moves(u) /\ at'[u] = "lock" /\ on'[u] = transport
        /\ call'[u] = "request" \/ (call'[u] = call[u] /\ call[u] \in {"connect", "reconnect"})
    BY <1>1, CallFits DEF Goto, Moves, TypeOK
  <1>6. /\ call' \in [Task -> Lifecycle \cup {"none", "request"}] /\ at' \in [Task -> Stage]
        /\ on' \in [Task -> Transport \cup {None}]
    BY <1>1, <1>3 DEF Goto, TypeOK, Stage
  <1>7. TypeOK'
    BY <1>1, <1>2, <1>4, <1>6 DEF TypeOK, LocksFit
  <1>8. OnlyMoves(u)
    BY <1>1, <1>2, <1>3, <1>4, <1>5 DEF OnlyMoves, StageFits, LocksFit, Holding, Active, Creating,
       None, Lifecycle
  <1> QED
    BY <1>7, <1>8, MoveStep

\* A connection was found: the request is sent.
LEMMA SentStep ==
  ASSUME IInv, NEW u \in Task, at[u] \in {"lock", "reopen"}, at[u] = "reopen" => Opens(u) = {},
         HeadIs(on[u], u), Release(on[u]), Goto(u, "sent"), slot' \in [Task -> Slot],
         UNCHANGED <<connected, call, on, tries, left>>, UNCHANGED poolsAndTransport
  PROVE  IInv'
  <1>1. TypeOK /\ \A t \in Transport, i \in Slot : u \notin opening[t][i]
    BY NotOpening DEF IInv
  <1>2. /\ transport' = transport /\ made' = made /\ started' = started /\ stopped' = stopped
        /\ gone' = gone /\ shut' = shut /\ up' = up /\ sock' = sock /\ opening' = opening
        /\ dropped' = dropped /\ disconnecting' = disconnecting /\ overlap' = overlap
        /\ connected' = connected /\ call' = call /\ on' = on /\ tries' = tries /\ left' = left
    BY DEF poolsAndTransport
  <1>3. on[u] \in Transport /\ on[u] \in 1..made /\ made \in Nat
    BY WorksOnMade DEF Active
  <1>4. LocksFit(u)
    BY GivesLock DEF Active
  <1>5. Moves(u) /\ at'[u] = "sent" /\ at' \in [Task -> Stage]
    BY <1>1, <1>2 DEF Goto, Moves, TypeOK, Stage
  <1>6. TypeOK'
    BY <1>1, <1>2, <1>4, <1>5 DEF TypeOK, LocksFit
  <1>7. OnlyMoves(u)
    <2>1. /\ call[u] # "none"
          /\ overlap = FALSE /\ call[u] \in Lifecycle => on[u] = transport
      BY CallFits DEF Active
    <2> QED
      BY <1>1, <1>2, <1>3, <1>4, <1>5, <2>1 DEF OnlyMoves, StageFits, LocksFit, Holding, Active,
         Creating, None
  <1> QED
    BY <1>6, <1>7, MoveStep

\* The health request of a connect().
LEMMA HealthStep ==
  ASSUME IInv, NEW u \in Task, Health(u)
  PROVE  IInv'
  <1>1. at[u] = "health" /\ connected \in BOOLEAN /\ FALSE \in BOOLEAN
    BY DEF Health, IInv, TypeOK
  <1>2. UNCHANGED poolsAndTransport
    BY DEF Health, poolsAndTransport, poolVars, netVars, history
  <1>3. CASE RequestEnds(u, connected) /\ UNCHANGED lock
    BY <1>1, <1>2, <1>3, NoLock, RequestEndsStep
  <1>4. CASE RequestEnds(u, FALSE) /\ UNCHANGED lock
    BY <1>1, <1>2, <1>4, NoLock, RequestEndsStep
  <1>5. CASE /\ connected /\ transport \in started \ stopped
             /\ on' = [on EXCEPT ![u] = transport]
             /\ Acquire(u, transport) /\ Goto(u, "lock")
             /\ UNCHANGED <<connected, call, slot, tries, left>>
    <2>1. call' = call
      BY <1>5
    <2> QED
      BY <1>1, <1>2, <1>5, <2>1, QueueStep
  <1> QED
    BY <1>3, <1>4, <1>5 DEF Health, EnterRequest

\* A request of the user.
LEMMA RequestStep ==
  ASSUME IInv, NEW u \in Task, Request(u)
  PROVE  IInv'
  <1>1. at[u] = "idle" /\ call[u] = "none" /\ TypeOK
    BY CallFits DEF Request, IInv
  <1>2. /\ UNCHANGED poolsAndTransport
        /\ UNCHANGED <<slot, tries, left>>
    BY DEF Request, poolsAndTransport, poolVars, netVars, history
  <1>3. CASE /\ transport \in started \ stopped
             /\ call' = [call EXCEPT ![u] = "request"]
             /\ on' = [on EXCEPT ![u] = transport]
             /\ Acquire(u, transport) /\ Goto(u, "lock")
             /\ UNCHANGED connected
    <2>1. call'[u] = "request"
      BY <1>1, <1>3 DEF TypeOK
    <2>2. UNCHANGED <<connected, slot, tries, left>>
      BY <1>2, <1>3
    <2> QED
      BY <1>1, <1>2, <1>3, <2>1, <2>2, QueueStep
  <1>4. CASE connected' = FALSE /\ UNCHANGED <<lock, call, at, on>>
    <2>1. /\ transport' = transport /\ made' = made /\ started' = started /\ stopped' = stopped
          /\ gone' = gone /\ shut' = shut /\ up' = up /\ sock' = sock /\ opening' = opening
          /\ dropped' = dropped /\ disconnecting' = disconnecting /\ overlap' = overlap
          /\ call' = call /\ at' = at /\ on' = on /\ slot' = slot /\ tries' = tries /\ left' = left
          /\ connected' = FALSE
      BY <1>2, <1>4 DEF poolsAndTransport
    <2>2. LocksFit(u) /\ \A t \in Transport, i \in Slot : u \notin opening[t][i]
      BY <1>1, <1>4, NoLock, NotOpening
    <2>3. TypeOK'
      BY <1>1, <2>1, <2>2 DEF TypeOK, LocksFit
    <2>4. on[u] \in 0..made
      BY DEF IInv, StageInv
    <2>5. OnlyMoves(u)
      BY <1>1, <2>1, <2>2, <2>4 DEF OnlyMoves, Moves, StageFits, LocksFit, Holding, Active, Creating,
         Lifecycle
    <2> QED
      BY <2>3, <2>5, MoveStep
  <1> QED
    BY <1>3, <1>4 DEF Request

\* The request is over.
LEMMA AnsweredStep ==
  ASSUME IInv, NEW u \in Task, Answered(u)
  PROVE  IInv'
  <1>1. at[u] = "sent" /\ connected \in BOOLEAN /\ FALSE \in BOOLEAN /\ UNCHANGED lock
    BY DEF Answered, IInv, TypeOK
  <1>2. UNCHANGED poolsAndTransport
    BY DEF Answered, poolsAndTransport, poolVars, netVars, history
  <1>3. CASE RequestEnds(u, connected)
    BY <1>1, <1>2, <1>3, NoLock, RequestEndsStep
  <1>4. CASE RequestEnds(u, FALSE)
    BY <1>1, <1>2, <1>4, NoLock, RequestEndsStep
  <1> QED
    BY <1>3, <1>4 DEF Answered

-----------------------------------------------------------------------------
(* The actions of connect() *)

\* A lifecycle call that begins while nobody else makes one does not overlap.
LEMMA BeginAlone ==
  ASSUME IInv, NEW u \in Task, NEW op \in Lifecycle, Begin(u, op)
  PROVE  /\ at[u] = "idle" /\ call' = [call EXCEPT ![u] = op] /\ overlap' \in BOOLEAN
         /\ overlap' = FALSE => overlap = FALSE /\ \A v \in Task \ {u} : call[v] \notin Lifecycle
  <1>1. overlap \in BOOLEAN
    BY DEF IInv, TypeOK
  <1>2. overlap' = (overlap \/ \E v \in Task \ {u} : call[v] \in Lifecycle)
    BY DEF Begin
  <1>3. overlap' \in BOOLEAN
    BY <1>1, <1>2
  <1>4. overlap' = FALSE => overlap = FALSE /\ \A v \in Task \ {u} : call[v] \notin Lifecycle
    BY <1>1, <1>2, Zenon
  <1> QED
    BY <1>3, <1>4 DEF Begin

\* No connection of the first round is up.
LEMMA GatheredNone ==
  ASSUME IInv, NEW u \in Task, at[u] = "gather", Opens(u) = {},
         lock' = [lock EXCEPT ![on[u]] = Append(Tail(@), u)],
         tries' = [tries EXCEPT ![u] = 1], Goto(u, "retrylock"),
         UNCHANGED <<clientVars, poolVars, netVars, call, on, slot, left, history>>
  PROVE  IInv'
  <1>1. TypeOK /\ \A t \in Transport, i \in Slot : u \notin opening[t][i]
    BY NotOpening DEF IInv
  <1>2. /\ transport' = transport /\ made' = made /\ started' = started /\ stopped' = stopped
        /\ gone' = gone /\ shut' = shut /\ up' = up /\ sock' = sock /\ opening' = opening
        /\ dropped' = dropped /\ disconnecting' = disconnecting /\ overlap' = overlap
        /\ connected' = connected /\ call' = call /\ on' = on /\ slot' = slot /\ left' = left
    BY DEF clientVars, poolVars, netVars, history
  <1>3. /\ on[u] \in Transport /\ on[u] \in 1..made /\ made \in Nat /\ HeadIs(on[u], u)
        /\ lock[on[u]] # <<>> /\ Head(lock[on[u]]) = u /\ lock[on[u]] \in Seq(Task)
    BY <1>1, WorksOnMade DEF Active, Creating, IInv, LockInv, HeadIs, TypeOK
  <1>4. LocksFit(u)
    <2>1. Append(Tail(lock[on[u]]), u) \in Seq(Task)
      BY <1>3, HeadTailProperties, AppendProperties
    <2>2. \A s \in Transport \ {on[u]} : lock'[s] = lock[s]
      BY <1>1 DEF TypeOK
    <2>3. lock' \in [Transport -> Seq(Task)]
      BY <1>1, <2>1 DEF TypeOK
    <2>4. \A s \in Transport : s > made => s # on[u]
      BY <1>3 DEF Transport
    <2> QED
      BY <1>3, <2>2, <2>3, <2>4 DEF LocksFit, HoldersStay, HeadIs
  <1>5. /\ Moves(u) /\ at'[u] = "retrylock" /\ at' \in [Task -> Stage]
        /\ \A v \in Task \ {u} : tries'[v] = tries[v]
    BY <1>1, <1>2 DEF Goto, Moves, TypeOK, Stage
  <1>6. tries' \in [Task -> 0..Retries]
    BY <1>1, ClientAssumption DEF TypeOK
  <1>7. TypeOK'
    BY <1>1, <1>2, <1>4, <1>5, <1>6 DEF TypeOK, LocksFit
  <1>8. OnlyMoves(u)
    <2>1. call[u] \in {"connect", "reconnect"} /\ (overlap = FALSE => on[u] = transport)
      BY CallFits DEF Active, Creating, Lifecycle
    <2> QED
      BY <1>1, <1>2, <1>3, <1>4, <1>5, <2>1 DEF OnlyMoves, StageFits, LocksFit, Holding, Active,
         Creating, None
  <1> QED
    BY <1>7, <1>8, MoveStep

\* Another attempt of _retry_start is due.
LEMMA RetryPauses ==
  ASSUME IInv, NEW u \in Task, at[u] = "retry", Opens(u) = {}, tries[u] < Retries,
         Goto(u, "retrypause"),
         UNCHANGED <<clientVars, poolVars, lock, netVars, call, on, slot, tries, left, history>>
  PROVE  IInv'
  <1>1. TypeOK /\ \A t \in Transport, i \in Slot : u \notin opening[t][i]
    BY NotOpening DEF IInv
  <1>2. /\ transport' = transport /\ made' = made /\ started' = started /\ stopped' = stopped
        /\ gone' = gone /\ shut' = shut /\ up' = up /\ sock' = sock /\ opening' = opening
        /\ dropped' = dropped /\ disconnecting' = disconnecting /\ overlap' = overlap
        /\ connected' = connected /\ call' = call /\ on' = on /\ slot' = slot /\ left' = left
        /\ tries' = tries
    BY DEF clientVars, poolVars, netVars, history
  <1>3. on[u] \in Transport /\ on[u] \in 1..made /\ made \in Nat
    BY WorksOnMade DEF Active, Creating
  <1>4. LocksFit(u)
    BY NoLock
  <1>5. Moves(u) /\ at'[u] = "retrypause" /\ at' \in [Task -> Stage]
    BY <1>1, <1>2 DEF Goto, Moves, TypeOK, Stage
  <1>6. TypeOK'
    BY <1>1, <1>2, <1>4, <1>5 DEF TypeOK, LocksFit
  <1>7. OnlyMoves(u)
    <2>1. call[u] \in {"connect", "reconnect"} /\ (overlap = FALSE => on[u] = transport)
      BY CallFits DEF Active, Creating, Lifecycle
    <2> QED
      BY <1>1, <1>2, <1>3, <1>4, <1>5, <2>1 DEF OnlyMoves, StageFits, LocksFit, Holding, Active,
         Creating, None
  <1> QED
    BY <1>6, <1>7, MoveStep

\* The back-off is over.
LEMMA RetryAgainStep ==
  ASSUME IInv, NEW u \in Task, RetryAgain(u)
  PROVE  IInv'
  <1>0. at[u] = "retrypause"
    BY DEF RetryAgain
  <1>1. TypeOK /\ \A t \in Transport, i \in Slot : u \notin opening[t][i]
    BY <1>0, NotOpening DEF IInv
  <1>2. /\ transport' = transport /\ made' = made /\ started' = started /\ stopped' = stopped
        /\ gone' = gone /\ shut' = shut /\ up' = up /\ sock' = sock /\ opening' = opening
        /\ dropped' = dropped /\ disconnecting' = disconnecting /\ overlap' = overlap
        /\ connected' = connected /\ call' = call /\ on' = on /\ slot' = slot /\ left' = left
    BY DEF RetryAgain, clientVars, poolVars, netVars, history
  <1>3. on[u] \in Transport /\ on[u] \in 1..made /\ made \in Nat
    BY <1>0, WorksOnMade DEF Active, Creating
  <1>4. LocksFit(u)
    BY <1>3, TakesLock DEF RetryAgain
  <1>5. /\ Moves(u) /\ at'[u] = "retrylock" /\ at' \in [Task -> Stage]
        /\ \A v \in Task \ {u} : tries'[v] = tries[v]
    BY <1>1, <1>2 DEF RetryAgain, Goto, Moves, TypeOK, Stage
  <1>6. tries' \in [Task -> 0..Retries]
    <2>1. tries[u] \in 0..Retries /\ Retries \in Nat /\ tries[u] < Retries
      BY <1>0, <1>1, ClientAssumption DEF TypeOK, IInv, StageInv
    <2>2. tries[u] + 1 \in 0..Retries
      BY <2>1
    <2> QED
      BY <1>1, <2>2 DEF TypeOK, RetryAgain
  <1>7. TypeOK'
    BY <1>1, <1>2, <1>4, <1>5, <1>6 DEF TypeOK, LocksFit
  <1>8. OnlyMoves(u)
    <2>1. call[u] \in {"connect", "reconnect"} /\ (overlap = FALSE => on[u] = transport)
      BY <1>0, CallFits DEF Active, Creating, Lifecycle
    <2> QED
      BY <1>0, <1>1, <1>2, <1>3, <1>4, <1>5, <2>1 DEF OnlyMoves, StageFits, LocksFit, Holding, Active,
         Creating, None
  <1> QED
    BY <1>7, <1>8, MoveStep

\* reconnect() finds the client connected.
LEMMA ReconnectReturns ==
  ASSUME IInv, NEW u \in Task, at[u] = "pause", Return(u),
         UNCHANGED <<clientVars, poolVars, lock, netVars, dropped, overlap>>
  PROVE  IInv'
  <1>1. TypeOK /\ \A t \in Transport, i \in Slot : u \notin opening[t][i]
    BY NotOpening DEF IInv
  <1>2. /\ transport' = transport /\ made' = made /\ started' = started /\ stopped' = stopped
        /\ gone' = gone /\ shut' = shut /\ up' = up /\ sock' = sock /\ opening' = opening
        /\ dropped' = dropped /\ disconnecting' = disconnecting /\ overlap' = overlap
        /\ connected' = connected
    BY DEF clientVars, poolVars, netVars
  <1>3. LocksFit(u) /\ made \in Nat
    BY <1>1, NoLock DEF TypeOK
  <1>4. /\ Moves(u) /\ at'[u] = "idle" /\ call'[u] = "none" /\ on'[u] = None
        /\ \A v \in Task \ {u} : tries'[v] = tries[v]
    BY <1>1 DEF Return, Goto, Moves, TypeOK
  <1>5. /\ call' \in [Task -> Lifecycle \cup {"none", "request"}] /\ at' \in [Task -> Stage]
        /\ on' \in [Task -> Transport \cup {None}] /\ slot' \in [Task -> Slot]
        /\ tries' \in [Task -> 0..Retries] /\ left' \in [Task -> 0..Retries]
    <2>1. 0 \in 0..Retries /\ 1 \in Slot /\ "idle" \in Stage
      BY ClientAssumption DEF Slot, Stage
    <2> QED
      BY <1>1, <2>1 DEF Return, Goto, TypeOK
  <1>6. TypeOK'
    BY <1>1, <1>2, <1>3, <1>5 DEF TypeOK, LocksFit
  <1>7. OnlyMoves(u)
    BY <1>1, <1>2, <1>3, <1>4 DEF OnlyMoves, StageFits, LocksFit, Holding, Active, Creating, None,
       Lifecycle
  <1> QED
    BY <1>6, <1>7, MoveStep

\* A disconnect() with no transport changes at most _connected; a reconnect()
\* then goes on to its first attempt, as it does when a disconnect() is running.
LEMMA NothingToStop ==
  ASSUME IInv, NEW u \in Task, at[u] = "idle", connected' = FALSE \/ connected' = connected,
         \/ UNCHANGED <<call, at, overlap>>
         \/ Begin(u, "reconnect") /\ Goto(u, "pause"),
         UNCHANGED <<disconnecting, started, stopped, lock, on>>, left' \in [Task -> 0..Retries],
         UNCHANGED <<transport, made, gone, shut, netVars, slot, tries, dropped>>
  PROVE  IInv'
  <1>1. TypeOK /\ \A t \in Transport, i \in Slot : u \notin opening[t][i]
    BY NotOpening DEF IInv
  <1>2. /\ transport' = transport /\ made' = made /\ started' = started /\ stopped' = stopped
        /\ gone' = gone /\ shut' = shut /\ up' = up /\ sock' = sock /\ opening' = opening
        /\ dropped' = dropped /\ disconnecting' = disconnecting
        /\ on' = on /\ slot' = slot /\ tries' = tries
    BY DEF netVars
  <1>3. LocksFit(u) /\ made \in Nat /\ on[u] \in 0..made /\ call[u] = "none"
    BY <1>1, NoLock, CallFits DEF TypeOK, IInv, StageInv
  <1>4. /\ call' \in [Task -> Lifecycle \cup {"none", "request"}] /\ at' \in [Task -> Stage]
        /\ overlap' \in BOOLEAN /\ connected' \in BOOLEAN
        /\ connected' = TRUE => connected = TRUE
        /\ \A v \in Task \ {u} : at'[v] = at[v] /\ call'[v] = call[v]
        /\ \/ at'[u] = "idle" /\ call'[u] = "none" /\ overlap' = overlap
           \/ /\ at'[u] = "pause" /\ call'[u] = "reconnect"
              /\ overlap' = FALSE => overlap = FALSE /\ \A v \in Task \ {u} : call[v] \notin Lifecycle
    <2>1. connected' \in BOOLEAN /\ (connected' = TRUE => connected = TRUE)
      BY <1>1 DEF TypeOK
    <2>2. CASE UNCHANGED <<call, at, overlap>>
      BY <1>1, <1>3, <2>1, <2>2 DEF TypeOK
    <2>3. CASE Begin(u, "reconnect") /\ Goto(u, "pause")
      <3>1. /\ call' = [call EXCEPT ![u] = "reconnect"] /\ overlap' \in BOOLEAN
            /\ overlap' = FALSE => overlap = FALSE /\ \A v \in Task \ {u} : call[v] \notin Lifecycle
        BY <2>3, BeginAlone DEF Lifecycle
      <3>2. at' = [at EXCEPT ![u] = "pause"]
        BY <2>3 DEF Goto
      <3> QED
        BY <1>1, <2>1, <3>1, <3>2 DEF TypeOK, Stage, Lifecycle
    <2> QED
      BY <2>2, <2>3
  <1>5. TypeOK'
    BY <1>1, <1>2, <1>3, <1>4 DEF TypeOK, LocksFit
  <1>6. OnlyMoves(u)
    BY <1>1, <1>2, <1>3, <1>4 DEF OnlyMoves, Moves, StageFits, LocksFit, Holding, Active, Creating,
       None, Lifecycle
  <1> QED
    BY <1>5, <1>6, MoveStep

\* The transport is started: a connection is up.
LEMMA StartedStep ==
  ASSUME IInv, NEW u \in Task, at[u] \in {"gather", "retry"}, Opens(u) = {}, LocksFit(u), Started(u)
  PROVE  IInv'
  <1>1. /\ TypeOK /\ StageInv /\ FreshInv /\ CreatorInv /\ LockInv /\ ShutInv /\ AloneInv
    BY DEF IInv
  <1>2. /\ on[u] \in Transport /\ on[u] \in 1..made /\ made \in Nat
        /\ call[u] \in {"connect", "reconnect"}
    BY <1>1, WorksOnMade, CallFits DEF Active, Creating
  <1>3. /\ transport' = transport /\ disconnecting' = disconnecting /\ made' = made
        /\ stopped' = stopped /\ gone' = gone /\ shut' = shut /\ up' = up /\ sock' = sock
        /\ opening' = opening /\ on' = on /\ slot' = slot /\ tries' = tries /\ call' = call
        /\ left' = left /\ overlap' = overlap /\ dropped' = dropped
        /\ connected' = TRUE /\ started' = started \cup {on[u]}
    BY DEF Started, netVars, history
  <1>4. at' \in [Task -> Stage] /\ at'[u] = "health" /\ \A v \in Task \ {u} : at'[v] = at[v]
    BY <1>1 DEF TypeOK, Stage, Started, Goto
  <1>5. TypeOK'
    BY <1>1, <1>2, <1>3, <1>4 DEF TypeOK, LocksFit
  <1>6. StageInv'
    BY <1>1, <1>2, <1>3, <1>4 DEF StageInv, Active, Creating
  <1>7. FreshInv'
    BY <1>1, <1>3 DEF FreshInv, LocksFit
  <1>8. CreatorInv'
    BY <1>1, <1>3, <1>4 DEF CreatorInv, Creating
  <1>9. LockInv'
    <2>1. /\ \A t \in Transport, i \in Slot : u \notin opening[t][i]
          /\ \A t \in Transport, i \in Slot : opening[t][i] \subseteq Task
      BY <1>1, NotOpening, OpenersAreTasks
    <2>2. Moves(u) /\ at'[u] \notin Holding
      BY <1>3, <1>4 DEF Moves, Holding
    <2>3. \A v \in Task : at'[v] \in Holding => HeadIs(on[v], v)'
      BY <1>1, <2>2, HoldersKept DEF LocksFit
    <2> QED
      BY <1>1, <1>3, <1>4, <2>1, <2>3 DEF LockInv, Holding
  <1>10. ShutInv'
    BY <1>1, <1>3, <1>4 DEF ShutInv
  <1>11. AloneInv'
    <2>1. SUFFICES ASSUME overlap = FALSE
                   PROVE  OneCaller' /\ StartsOpen' /\ SaysTrue' /\ ShutClosed' /\ OthersDead'
      BY <1>3 DEF AloneInv
    <2>2. OneCaller /\ StartsOpen /\ SaysTrue /\ ShutClosed /\ OthersDead
      BY <1>1, <2>1 DEF AloneInv
    <2>3. OneCaller'
      BY <1>1, <1>2, <1>3, <1>4, <2>2 DEF OneCaller, Active, Creating
    <2>4. StartsOpen'
      BY <1>1, <1>3, <1>4, <2>2 DEF StartsOpen, Creating
    <2>5. SaysTrue'
      BY <1>1, <1>2, <1>3, <1>4, <2>2 DEF SaysTrue, StartsOpen, OneCaller, Creating, Active,
         StageInv, Lifecycle
    <2>6. ShutClosed'
      BY <1>3, <2>2 DEF ShutClosed
    <2>7. OthersDead'
      BY <1>3, <1>4, <2>2 DEF OthersDead, Dead
    <2> QED BY <2>3, <2>4, <2>5, <2>6, <2>7
  <1> QED
    BY <1>5, <1>6, <1>7, <1>8, <1>9, <1>10, <1>11 DEF IInv

\* The first round is over.
LEMMA GatheredStep ==
  ASSUME IInv, NEW u \in Task, Gathered(u)
  PROVE  IInv'
  <1>1. at[u] = "gather" /\ Opens(u) = {}
    BY DEF Gathered
  <1>2. CASE Release(on[u]) /\ Started(u)
    <2>1. HeadIs(on[u], u)
      BY <1>1 DEF IInv, LockInv
    <2>2. LocksFit(u)
      BY <1>1, <1>2, <2>1, GivesLock DEF Active, Creating
    <2> QED
      BY <1>1, <1>2, <2>2, StartedStep
  <1>3. CASE /\ lock' = [lock EXCEPT ![on[u]] = Append(Tail(@), u)]
             /\ tries' = [tries EXCEPT ![u] = 1] /\ Goto(u, "retrylock")
             /\ UNCHANGED <<clientVars, poolVars, netVars, call, on, slot, left, history>>
    BY <1>1, <1>3, GatheredNone
  <1> QED
    BY <1>2, <1>3 DEF Gathered

\* connect() raises: nobody can use the transport that did not start.
LEMMA RaisesStep ==
  ASSUME IInv, NEW u \in Task, at[u] = "retry", Opens(u) = {}, up[on[u]] = {}, ConnectRaises(u)
  PROVE  IInv'
  <1>1. /\ TypeOK /\ StageInv /\ FreshInv /\ CreatorInv /\ LockInv /\ ShutInv /\ AloneInv
    BY DEF IInv
  <1>2. /\ on[u] \in Transport /\ on[u] \in 1..made /\ made \in Nat
        /\ call[u] \in {"connect", "reconnect"}
        /\ \A t \in Transport, i \in Slot : u \notin opening[t][i]
        /\ \A t \in Transport, i \in Slot : opening[t][i] \subseteq Task
    BY <1>1, WorksOnMade, CallFits, NotOpening, OpenersAreTasks DEF Active, Creating
  <1>3. /\ disconnecting' = disconnecting /\ made' = made /\ started' = started
        /\ stopped' = stopped /\ gone' = gone /\ shut' = shut /\ up' = up /\ sock' = sock
        /\ opening' = opening /\ overlap' = overlap /\ dropped' = dropped /\ lock' = lock
        /\ connected' = FALSE /\ transport' = None
    BY DEF ConnectRaises, poolVars, netVars, history
  <1>4. /\ Moves(u) /\ \A v \in Task \ {u} : tries'[v] = tries[v]
        /\ \/ at'[u] = "idle" /\ call'[u] = "none" /\ on'[u] = None
           \/ at'[u] = "pause" /\ call'[u] = "reconnect" /\ call[u] = "reconnect" /\ on'[u] = on[u]
    BY <1>1 DEF ConnectRaises, Return, Goto, Moves, TypeOK, Stage
  <1>5. /\ call' \in [Task -> Lifecycle \cup {"none", "request"}] /\ at' \in [Task -> Stage]
        /\ on' \in [Task -> Transport \cup {None}] /\ slot' \in [Task -> Slot]
        /\ tries' \in [Task -> 0..Retries] /\ left' \in [Task -> 0..Retries]
    <2>1. /\ left[u] \in 0..Retries /\ 0 \in 0..Retries /\ 1 \in Slot /\ Retries \in Nat
          /\ "idle" \in Stage /\ "pause" \in Stage
      BY <1>1, ClientAssumption DEF TypeOK, Slot, Stage
    <2>2. left[u] > 1 => left[u] - 1 \in 0..Retries
      BY <2>1
    <2>3. CASE Return(u)
      BY <1>1, <2>1, <2>3 DEF Return, Goto, TypeOK
    <2>4. CASE /\ left[u] > 1 /\ left' = [left EXCEPT ![u] = @ - 1]
               /\ tries' = [tries EXCEPT ![u] = 0]
               /\ Goto(u, "pause") /\ UNCHANGED <<call, on, slot>>
      BY <1>1, <2>1, <2>2, <2>4 DEF Goto, TypeOK
    <2> QED
      BY <2>3, <2>4 DEF ConnectRaises
  <1>6. TypeOK'
    BY <1>1, <1>3, <1>5 DEF TypeOK, None
  <1>7. StageInv'
    <2>1. StageFits(u)
      BY <1>2, <1>3, <1>4 DEF StageFits, None, Active, Creating
    <2>2. transport' \in 0..made'
      BY <1>2, <1>3 DEF None
    <2> QED
      BY <1>1, <1>2, <1>3, <1>4, <2>1, <2>2, StageStep
  <1>8. FreshInv'
    BY <1>1, <1>3 DEF FreshInv
  <1>9. CreatorInv'
    BY <1>1, <1>3, <1>4 DEF CreatorInv, Creating, Moves
  <1>10. LockInv'
    <2>1. HoldersStay(u) /\ at'[u] \notin Holding
      BY <1>3, <1>4 DEF Holding, HoldersStay, HeadIs
    <2>2. \A v \in Task : at'[v] \in Holding => HeadIs(on[v], v)'
      BY <1>1, <1>4, <2>1, HoldersKept
    <2> QED
      BY <1>1, <1>2, <1>3, <1>4, <2>2 DEF LockInv, Holding, Moves
  <1>11. ShutInv'
    BY <1>1, <1>3, <1>4 DEF ShutInv, Moves
  <1>12. AloneInv'
    <2>1. SUFFICES ASSUME overlap = FALSE
                   PROVE  OneCaller' /\ StartsOpen' /\ SaysTrue' /\ ShutClosed' /\ OthersDead'
      BY <1>3 DEF AloneInv
    <2>2. OneCaller /\ StartsOpen /\ SaysTrue /\ ShutClosed /\ OthersDead
      BY <1>1, <2>1 DEF AloneInv
    <2>3. /\ \A v \in Task \ {u} : call[v] \notin Lifecycle
          /\ on[u] = transport /\ on[u] \notin shut
      BY <1>2, <2>2 DEF OneCaller, StartsOpen, Active, Creating, Lifecycle
    <2>4. OneCaller'
      BY <1>4, <2>3 DEF OneCaller, Active, Creating, Moves, Lifecycle
    <2>5. StartsOpen'
      BY <1>3, <1>4, <2>2 DEF StartsOpen, Creating, Moves
    <2>6. SaysTrue'
      BY <1>3 DEF SaysTrue
    <2>7. ShutClosed'
      BY <1>3, <2>2 DEF ShutClosed
    <2>8. Dead(on[u])
      <3>1. sock[on[u]] = {}
        BY <1>1, <1>2, <2>3 DEF ShutInv
      <3>2. \A v \in Task : on[v] = on[u] => at[v] \notin {"lock", "reopen"}
        BY <1>1 DEF CreatorInv, Creating
      <3>3. ASSUME NEW i \in Slot, NEW v \in opening[on[u]][i]
            PROVE  FALSE
        <4>1. v \in Task /\ v # u /\ on[v] = on[u] /\ at[v] \in {"gather", "retry", "reopen"}
          BY <1>1, <1>2, <3>3 DEF LockInv
        <4> QED
          BY <1>1, <3>2, <4>1 DEF CreatorInv, Creating
      <3> QED
        BY <3>1, <3>2, <3>3 DEF Dead
    <2>9. OthersDead'
      <3>1. \A t \in Transport : t \in dropped \/ Dead(t)
        BY <2>2, <2>3, <2>8 DEF OthersDead
      <3>2. \A t \in Transport : Dead(t) => Dead(t)'
        BY <1>3, <1>4 DEF Dead, Moves
      <3> QED
        BY <1>3, <3>1, <3>2 DEF OthersDead
    <2> QED BY <2>4, <2>5, <2>6, <2>7, <2>9
  <1> QED
    BY <1>6, <1>7, <1>8, <1>9, <1>10, <1>11, <1>12 DEF IInv

\* A round of _retry_start is over.
LEMMA RetryOverStep ==
  ASSUME IInv, NEW u \in Task, RetryOver(u)
  PROVE  IInv'
  <1>1. at[u] = "retry" /\ Opens(u) = {}
    BY DEF RetryOver
  <1>2. CASE Started(u) /\ UNCHANGED lock
    BY <1>1, <1>2, NoLock, StartedStep
  <1>3. CASE /\ tries[u] < Retries /\ Goto(u, "retrypause")
             /\ UNCHANGED <<clientVars, poolVars, lock, netVars, call, on, slot, tries, left, history>>
    BY <1>1, <1>3, RetryPauses
  <1>4. CASE up[on[u]] = {} /\ ConnectRaises(u)
    BY <1>1, <1>4, RaisesStep
  <1> QED
    BY <1>2, <1>3, <1>4 DEF RetryOver

\* connect() of a connection is awaited: only u is added, and only in pool t.
LEMMA OpenAdds ==
  ASSUME TypeOK, NEW u \in Task, NEW t \in Transport, NEW S, Open(u, t, S)
  PROVE  /\ opening' \in [Transport -> [Slot -> SUBSET Task]]
         /\ \A s \in Transport \ {t} : opening'[s] = opening[s]
         /\ \A i \in Slot : opening'[t][i] \subseteq opening[t][i] \cup {u}
  <1>1. opening \in [Transport -> [Slot -> SUBSET Task]]
    BY DEF TypeOK
  <1>2. opening' = [opening EXCEPT ![t] = [i \in Slot |-> IF i \in S THEN opening[t][i] \cup {u}
                                                                    ELSE opening[t][i]]]
    BY <1>1 DEF Open
  <1>3. [i \in Slot |-> IF i \in S THEN opening[t][i] \cup {u} ELSE opening[t][i]]
          \in [Slot -> SUBSET Task]
    BY <1>1
  <1>4. opening' \in [Transport -> [Slot -> SUBSET Task]]
    BY <1>1, <1>2, <1>3
  <1>5. opening'[t] = [i \in Slot |-> IF i \in S THEN opening[t][i] \cup {u} ELSE opening[t][i]]
    BY <1>1, <1>2
  <1>6. \A s \in Transport \ {t} : opening'[s] = opening[s]
    BY <1>1, <1>2
  <1>7. \A i \in Slot : opening'[t][i] \subseteq opening[t][i] \cup {u}
    BY <1>5
  <1> QED
    BY <1>4, <1>6, <1>7

\* One round of connects of _retry_start begins.
LEMMA RetryRoundStep ==
  ASSUME IInv, NEW u \in Task, RetryRound(u)
  PROVE  IInv'
  <1>1. /\ TypeOK /\ StageInv /\ FreshInv /\ CreatorInv /\ LockInv /\ ShutInv /\ AloneInv
    BY DEF IInv
  <1>2. /\ at[u] = "retrylock" /\ on[u] \in Transport /\ on[u] \in 1..made /\ made \in Nat
        /\ call[u] \in {"connect", "reconnect"} /\ HeadIs(on[u], u)
    BY WorksOnMade, CallFits DEF Active, Creating, RetryRound, Holds, HeadIs
  <1>3. LocksFit(u)
    BY <1>2, GivesLock DEF RetryRound, Active, Creating
  <1>4. /\ opening' \in [Transport -> [Slot -> SUBSET Task]]
        /\ \A s \in Transport \ {on[u]} : opening'[s] = opening[s]
        /\ \A i \in Slot : opening'[on[u]][i] \subseteq opening[on[u]][i] \cup {u}
    BY <1>1, <1>2, OpenAdds DEF RetryRound
  <1>5. /\ connected' = connected /\ transport' = transport /\ disconnecting' = disconnecting
        /\ made' = made /\ started' = started /\ stopped' = stopped /\ gone' = gone /\ shut' = shut
        /\ up' = up /\ sock' = sock /\ call' = call /\ on' = on /\ slot' = slot /\ tries' = tries
        /\ left' = left /\ overlap' = overlap /\ dropped' = dropped
    BY DEF RetryRound, clientVars, poolVars, history
  <1>6. at' \in [Task -> Stage] /\ at'[u] = "retry" /\ \A v \in Task \ {u} : at'[v] = at[v]
    BY <1>1 DEF TypeOK, Stage, RetryRound, Goto
  <1>7. TypeOK'
    BY <1>1, <1>3, <1>4, <1>5, <1>6 DEF TypeOK, LocksFit
  <1>8. StageInv'
    BY <1>1, <1>2, <1>5, <1>6 DEF StageInv, Active, Creating
  <1>9. FreshInv'
    <2>1. \A t \in Transport : t > made => t # on[u]
      BY <1>2 DEF Transport
    <2> QED
      BY <1>1, <1>3, <1>4, <1>5, <2>1 DEF FreshInv, LocksFit
  <1>10. CreatorInv'
    BY <1>1, <1>2, <1>5, <1>6 DEF CreatorInv, Creating
  <1>11. LockInv'
    <2>1. Moves(u) /\ at'[u] \notin Holding
      BY <1>5, <1>6 DEF Moves, Holding
    <2>2. \A v \in Task : at'[v] \in Holding => HeadIs(on[v], v)'
      BY <1>1, <1>3, <2>1, HoldersKept DEF LocksFit
    <2>3. ASSUME NEW t \in Transport, NEW i \in Slot, NEW v \in opening'[t][i]
          PROVE  on'[v] = t /\ at'[v] \in {"gather", "retry", "reopen"}
      <3>1. CASE v = u
        <4>1. \A s \in Transport, j \in Slot : u \notin opening[s][j]
          BY <1>2, NotOpening
        <4>2. t = on[u]
          BY <1>4, <2>3, <3>1, <4>1
        <4> QED
          BY <1>5, <1>6, <3>1, <4>2
      <3>2. CASE v # u
        <4>1. v \in opening[t][i] /\ v \in Task
          BY <1>1, <1>4, <2>3, <3>2, OpenersAreTasks
        <4> QED
          BY <1>1, <1>5, <1>6, <3>2, <4>1 DEF LockInv
      <3> QED BY <3>1, <3>2
    <2> QED
      BY <2>2, <2>3 DEF LockInv, Holding
  <1>12. ShutInv'
    BY <1>1, <1>5, <1>6 DEF ShutInv
  <1>13. AloneInv'
    <2>1. SUFFICES ASSUME overlap = FALSE
                   PROVE  OneCaller' /\ StartsOpen' /\ SaysTrue' /\ ShutClosed' /\ OthersDead'
      BY <1>5 DEF AloneInv
    <2>2. OneCaller /\ StartsOpen /\ SaysTrue /\ ShutClosed /\ OthersDead
      BY <1>1, <2>1 DEF AloneInv
    <2>3. on[u] = transport /\ on[u] \notin shut \cup stopped
      BY <1>2, <2>2 DEF OneCaller, StartsOpen, Active, Creating, Lifecycle
    <2>4. OneCaller'
      BY <1>2, <1>5, <1>6, <2>2 DEF OneCaller, Active, Creating
    <2>5. StartsOpen'
      BY <1>2, <1>5, <1>6, <2>2 DEF StartsOpen, Creating
    <2>6. SaysTrue'
      BY <1>5, <1>6, <2>2 DEF SaysTrue
    <2>7. ShutClosed'
      BY <1>1, <1>4, <1>5, <2>2, <2>3, MadeAreTransports DEF ShutClosed
    <2>8. OthersDead'
      BY <1>4, <1>5, <1>6, <2>2, <2>3 DEF OthersDead, Dead
    <2> QED BY <2>4, <2>5, <2>6, <2>7, <2>8
  <1> QED
    BY <1>7, <1>8, <1>9, <1>10, <1>11, <1>12, <1>13 DEF IInv

\* get_connection tries a connection again, holding the lock.
LEMMA ReopensStep ==
  ASSUME IInv, NEW u \in Task, at[u] \in {"lock", "reopen"}, HeadIs(on[u], u), on[u] \notin shut,
         at[u] = "reopen" => Opens(u) = {},
         NEW j \in Slot, Open(u, on[u], {j}), slot' = [slot EXCEPT ![u] = j],
         at' = [at EXCEPT ![u] = "reopen"],
         UNCHANGED <<connected, lock, call, on, tries, left>>,
         UNCHANGED <<transport, disconnecting, poolVars, up, sock, history>>
  PROVE  IInv'
  <1>1. /\ TypeOK /\ StageInv /\ FreshInv /\ CreatorInv /\ LockInv /\ ShutInv /\ AloneInv
    BY DEF IInv
  <1>2. on[u] \in Transport /\ on[u] \in 1..made /\ made \in Nat /\ call[u] # "none"
    BY WorksOnMade, CallFits DEF Active
  <1>3. LocksFit(u)
    BY NoLock
  <1>4. /\ opening' \in [Transport -> [Slot -> SUBSET Task]]
        /\ \A s \in Transport \ {on[u]} : opening'[s] = opening[s]
        /\ \A i \in Slot : opening'[on[u]][i] \subseteq opening[on[u]][i] \cup {u}
    BY <1>1, <1>2, OpenAdds
  <1>5. /\ connected' = connected /\ transport' = transport /\ disconnecting' = disconnecting
        /\ made' = made /\ started' = started /\ stopped' = stopped /\ gone' = gone /\ shut' = shut
        /\ up' = up /\ sock' = sock /\ call' = call /\ on' = on /\ tries' = tries
        /\ left' = left /\ overlap' = overlap /\ dropped' = dropped /\ lock' = lock
    BY DEF poolVars, history
  <1>6. /\ at' \in [Task -> Stage] /\ at'[u] = "reopen" /\ \A v \in Task \ {u} : at'[v] = at[v]
        /\ slot' \in [Task -> Slot]
    BY <1>1 DEF TypeOK, Stage
  <1>7. TypeOK'
    BY <1>1, <1>3, <1>4, <1>5, <1>6 DEF TypeOK, LocksFit
  <1>8. StageInv'
    BY <1>1, <1>2, <1>5, <1>6 DEF StageInv, Active, Creating
  <1>9. FreshInv'
    <2>1. \A t \in Transport : t > made => t # on[u]
      BY <1>2 DEF Transport
    <2> QED
      BY <1>1, <1>4, <1>5, <2>1 DEF FreshInv
  <1>10. CreatorInv'
    BY <1>1, <1>5, <1>6 DEF CreatorInv, Creating
  <1>11. LockInv'
    <2>1. Moves(u)
      BY <1>5, <1>6 DEF Moves
    <2>2. HeadIs(on[u], u)'
      BY <1>5 DEF HeadIs
    <2>3. \A v \in Task : at'[v] \in Holding => HeadIs(on[v], v)'
      BY <1>1, <1>3, <2>1, <2>2, HoldersKept DEF LocksFit
    <2>4. ASSUME NEW t \in Transport, NEW i \in Slot, NEW v \in opening'[t][i]
          PROVE  on'[v] = t /\ at'[v] \in {"gather", "retry", "reopen"}
      <3>1. CASE v = u
        <4>1. \A s \in Transport, k \in Slot : u \notin opening[s][k]
          BY <1>2, NotOpening
        <4>2. t = on[u]
          BY <1>4, <2>4, <3>1, <4>1
        <4> QED
          BY <1>5, <1>6, <3>1, <4>2
      <3>2. CASE v # u
        <4>1. v \in opening[t][i] /\ v \in Task
          BY <1>1, <1>4, <2>4, <3>2, OpenersAreTasks
        <4> QED
          BY <1>1, <1>5, <1>6, <3>2, <4>1 DEF LockInv
      <3> QED BY <3>1, <3>2
    <2> QED
      BY <2>3, <2>4 DEF LockInv, Holding
  <1>12. ShutInv'
    BY <1>1, <1>5, <1>6 DEF ShutInv
  <1>13. AloneInv'
    <2>1. SUFFICES ASSUME overlap = FALSE
                   PROVE  OneCaller' /\ StartsOpen' /\ SaysTrue' /\ ShutClosed' /\ OthersDead'
      BY <1>5 DEF AloneInv
    <2>2. OneCaller /\ StartsOpen /\ SaysTrue /\ ShutClosed /\ OthersDead
      BY <1>1, <2>1 DEF AloneInv
    <2>3. on[u] = transport \/ on[u] \in dropped
      BY <1>2, <2>2 DEF OthersDead, Dead
    <2>4. OneCaller'
      BY <1>2, <1>5, <1>6, <2>2 DEF OneCaller, Active
    <2>5. StartsOpen'
      BY <1>5, <1>6, <2>2 DEF StartsOpen, Creating
    <2>6. SaysTrue'
      BY <1>5, <1>6, <2>2 DEF SaysTrue
    <2>7. ShutClosed'
      BY <1>1, <1>4, <1>5, <2>2, MadeAreTransports DEF ShutClosed
    <2>8. OthersDead'
      BY <1>4, <1>5, <1>6, <2>2, <2>3 DEF OthersDead, Dead
    <2> QED BY <2>4, <2>5, <2>6, <2>7, <2>8
  <1> QED
    BY <1>7, <1>8, <1>9, <1>10, <1>11, <1>12, <1>13 DEF IInv

\* get_connection with the lock.
LEMMA GetConnectionStep ==
  ASSUME IInv, NEW u \in Task, GetConnection(u)
  PROVE  IInv'
  <1>1. at[u] = "lock" /\ HeadIs(on[u], u) /\ TypeOK /\ on[u] \in Transport
    BY WorksOnMade DEF GetConnection, Holds, HeadIs, IInv, Active
  <1>2. UNCHANGED <<transport, disconnecting, poolVars, up, sock, history>>
    BY DEF GetConnection
  <1>3. CASE /\ \E i \in up[on[u]] : slot' = [slot EXCEPT ![u] = i]
             /\ Release(on[u]) /\ Goto(u, "sent")
             /\ UNCHANGED <<connected, opening, call, on, tries, left>>
    <2>1. slot' \in [Task -> Slot]
      BY <1>1, <1>3 DEF TypeOK
    <2>2. UNCHANGED poolsAndTransport
      BY <1>2, <1>3 DEF poolsAndTransport, poolVars, history
    <2>3. UNCHANGED <<connected, call, on, tries, left>>
      BY <1>3
    <2> QED
      BY <1>1, <1>3, <2>1, <2>2, <2>3, SentStep
  <1>4. CASE /\ on[u] \notin shut /\ Open(u, on[u], {1})
             /\ slot' = [slot EXCEPT ![u] = 1] /\ Goto(u, "reopen")
             /\ UNCHANGED <<connected, lock, call, on, tries, left>>
    <2>1. 1 \in Slot
      BY ClientAssumption DEF Slot
    <2>2. at' = [at EXCEPT ![u] = "reopen"]
      BY <1>4 DEF Goto
    <2> QED
      BY <1>1, <1>2, <1>4, <2>1, <2>2, ReopensStep
  <1>5. CASE Release(on[u]) /\ RequestEnds(u, FALSE) /\ UNCHANGED opening
    <2>1. UNCHANGED poolsAndTransport
      BY <1>2, <1>5 DEF poolsAndTransport, poolVars, history
    <2>2. LocksFit(u)
      BY <1>1, <1>5, GivesLock DEF Active
    <2> QED
      BY <1>1, <1>5, <2>1, <2>2, RequestEndsStep
  <1> QED
    BY <1>3, <1>4, <1>5 DEF GetConnection

\* The connect() of get_connection returned.
LEMMA ReopenedStep ==
  ASSUME IInv, NEW u \in Task, Reopened(u)
  PROVE  IInv'
  <1>1. /\ at[u] = "reopen" /\ Opens(u) = {} /\ HeadIs(on[u], u) /\ TypeOK
        /\ on[u] \notin shut
    BY DEF Reopened, IInv, LockInv, ShutInv
  <1>2. UNCHANGED <<transport, disconnecting, poolVars, up, sock, history>>
    BY DEF Reopened
  <1>3. CASE /\ Release(on[u]) /\ Goto(u, "sent")
             /\ UNCHANGED <<connected, opening, call, on, slot, tries, left>>
    <2>1. slot' \in [Task -> Slot]
      BY <1>1, <1>3 DEF TypeOK
    <2>2. UNCHANGED poolsAndTransport
      BY <1>2, <1>3 DEF poolsAndTransport, poolVars, history
    <2>3. UNCHANGED <<connected, call, on, tries, left>>
      BY <1>3
    <2> QED
      BY <1>1, <1>3, <2>1, <2>2, <2>3, SentStep
  <1>4. CASE /\ slot[u] < PoolSize /\ Open(u, on[u], {slot[u] + 1})
             /\ slot' = [slot EXCEPT ![u] = @ + 1]
             /\ UNCHANGED <<connected, lock, call, at, on, tries, left>>
    <2>1. slot[u] \in 1..PoolSize /\ PoolSize \in Nat
      BY <1>1, ClientAssumption DEF TypeOK, Slot
    <2>2. slot[u] + 1 \in Slot
      BY <1>4, <2>1 DEF Slot
    <2>3. at' = [at EXCEPT ![u] = "reopen"]
      BY <1>1, <1>4 DEF TypeOK
    <2>4. slot' = [slot EXCEPT ![u] = slot[u] + 1] /\ UNCHANGED <<connected, lock, call, on, tries, left>>
      BY <1>4
    <2> QED
      BY <1>1, <1>2, <1>4, <2>2, <2>3, <2>4, ReopensStep
  <1>5. CASE Release(on[u]) /\ RequestEnds(u, FALSE) /\ UNCHANGED opening
    <2>1. UNCHANGED poolsAndTransport
      BY <1>2, <1>5 DEF poolsAndTransport, poolVars, history
    <2>2. LocksFit(u)
      BY <1>1, <1>5, GivesLock DEF Active
    <2> QED
      BY <1>1, <1>5, <2>1, <2>2, RequestEndsStep
  <1> QED
    BY <1>3, <1>4, <1>5 DEF Reopened

-----------------------------------------------------------------------------
(* The network *)

\* Connects that end and connections that are lost bring nothing back: only the
\* sockets of pool t change, some awaited connects of t end, and t gets a
\* live socket only if one of its connects was awaited.
LEMMA NetworkStep ==
  ASSUME IInv, NEW t \in Transport,
         sock' \in [Transport -> SUBSET Slot], up' \in [Transport -> SUBSET Slot],
         opening' \in [Transport -> [Slot -> SUBSET Task]],
         \A s \in Transport \ {t} : sock'[s] = sock[s] /\ up'[s] = up[s],
         \A s \in Transport, i \in Slot : opening'[s][i] \subseteq opening[s][i],
         t \notin shut /\ sock[t] = up[t] => sock'[t] = up'[t],
         (\E i \in Slot : opening[t][i] # {}) \/ (sock'[t] \subseteq sock[t] /\ up'[t] \subseteq up[t]),
         UNCHANGED <<clientVars, poolVars, lock, taskVars, history>>
  PROVE  IInv'
  <1>1. /\ TypeOK /\ StageInv /\ FreshInv /\ CreatorInv /\ LockInv /\ ShutInv /\ AloneInv
    BY DEF IInv
  <1>2. /\ connected' = connected /\ transport' = transport /\ disconnecting' = disconnecting
        /\ made' = made /\ started' = started /\ stopped' = stopped /\ gone' = gone /\ shut' = shut
        /\ at' = at /\ call' = call /\ on' = on /\ slot' = slot /\ tries' = tries
        /\ left' = left /\ overlap' = overlap /\ dropped' = dropped /\ lock' = lock
    BY DEF clientVars, poolVars, taskVars, history
  <1>3. TypeOK'
    BY <1>1, <1>2 DEF TypeOK
  <1>4. StageInv'
    BY <1>1, <1>2 DEF StageInv
  <1>5. FreshInv'
    <2>1. SUFFICES ASSUME NEW s \in Transport, s > made
                   PROVE  /\ lock'[s] = <<>> /\ sock'[s] = {} /\ up'[s] = {}
                          /\ \A i \in Slot : opening'[s][i] = {}
      BY <1>2 DEF FreshInv
    <2>2. lock[s] = <<>> /\ sock[s] = {} /\ up[s] = {} /\ \A i \in Slot : opening[s][i] = {}
      BY <1>1, <2>1 DEF FreshInv
    <2>3. \A i \in Slot : opening'[s][i] = {}
      BY <2>2
    <2>4. sock'[s] = {} /\ up'[s] = {}
      BY <2>2
    <2> QED
      BY <1>2, <2>2, <2>3, <2>4
  <1>6. CreatorInv'
    BY <1>1, <1>2 DEF CreatorInv
  <1>7. LockInv'
    <2>1. \A v \in Task : at[v] \in Holding => HeadIs(on[v], v)'
      BY <1>1, <1>2 DEF LockInv, Holding, HeadIs
    <2> QED
      BY <1>1, <1>2, <2>1 DEF LockInv, Holding
  <1>8. ShutInv'
    BY <1>1, <1>2 DEF ShutInv
  <1>9. AloneInv'
    <2>1. SUFFICES ASSUME overlap = FALSE
                   PROVE  OneCaller' /\ StartsOpen' /\ SaysTrue' /\ ShutClosed' /\ OthersDead'
      BY <1>2 DEF AloneInv
    <2>2. OneCaller /\ StartsOpen /\ SaysTrue /\ ShutClosed /\ OthersDead
      BY <1>1, <2>1 DEF AloneInv
    <2>3. OneCaller'
      BY <1>2, <2>2 DEF OneCaller
    <2>4. StartsOpen' /\ SaysTrue'
      BY <1>2, <2>2 DEF StartsOpen, SaysTrue
    <2>5. \A s \in Transport : sock[s] = {} /\ (\A i \in Slot : opening[s][i] = {})
                              => sock'[s] = {} /\ \A i \in Slot : opening'[s][i] = {}
      <3>1. SUFFICES ASSUME NEW s \in Transport, sock[s] = {}, \A i \in Slot : opening[s][i] = {}
                     PROVE  sock'[s] = {} /\ \A i \in Slot : opening'[s][i] = {}
        OBVIOUS
      <3>2. \A i \in Slot : opening'[s][i] = {}
        BY <3>1
      <3>3. sock'[s] = {}
        BY <3>1
      <3> QED BY <3>2, <3>3
    <2>6. ShutClosed'
      BY <1>1, <1>2, <2>2, <2>5, MadeAreTransports DEF ShutClosed
    <2>7. \A s \in Transport : Dead(s) => Dead(s)'
      BY <1>2, <2>5 DEF Dead
    <2>8. OthersDead'
      BY <1>2, <2>2, <2>7 DEF OthersDead
    <2> QED BY <2>3, <2>4, <2>6, <2>8
  <1> QED
    BY <1>3, <1>4, <1>5, <1>6, <1>7, <1>8, <1>9 DEF IInv

\* A connect() that ends leaves the other awaited connects as they are.
LEMMA OpeningEnds ==
  ASSUME TypeOK, NEW t \in Transport, NEW i \in Slot, NEW u,
         opening' = [opening EXCEPT ![t][i] = @ \ {u}]
  PROVE  /\ opening' \in [Transport -> [Slot -> SUBSET Task]]
         /\ \A s \in Transport, j \in Slot : opening'[s][j] \subseteq opening[s][j]
  <1>1. opening \in [Transport -> [Slot -> SUBSET Task]]
    BY DEF TypeOK
  <1>2. opening' = [opening EXCEPT ![t] = [opening[t] EXCEPT ![i] = opening[t][i] \ {u}]]
    BY <1>1
  <1>3. [opening[t] EXCEPT ![i] = opening[t][i] \ {u}] \in [Slot -> SUBSET Task]
    BY <1>1
  <1>4. opening' \in [Transport -> [Slot -> SUBSET Task]]
    BY <1>1, <1>2, <1>3
  <1>5. opening'[t] = [opening[t] EXCEPT ![i] = opening[t][i] \ {u}]
        /\ \A s \in Transport \ {t} : opening'[s] = opening[s]
    BY <1>1, <1>2
  <1>6. \A j \in Slot : opening'[t][j] \subseteq opening[t][j]
    BY <1>1, <1>5
  <1> QED
    BY <1>4, <1>5, <1>6

\* open_connection returns.
LEMMA OpenedStep ==
  ASSUME IInv, NEW t \in Transport, NEW i \in Slot, Opened(t, i)
  PROVE  IInv'
  <1>1. TypeOK
    BY DEF IInv
  <1>2. PICK u \in opening[t][i] : opening' = [opening EXCEPT ![t][i] = @ \ {u}]
    BY DEF Opened
  <1>3. /\ opening' \in [Transport -> [Slot -> SUBSET Task]]
        /\ \A s \in Transport, j \in Slot : opening'[s][j] \subseteq opening[s][j]
    BY <1>1, <1>2, OpeningEnds
  <1>4. \E j \in Slot : opening[t][j] # {}
    BY <1>2
  <1>5. /\ sock' \in [Transport -> SUBSET Slot] /\ sock'[t] = sock[t] \cup {i}
        /\ \A s \in Transport \ {t} : sock'[s] = sock[s]
    BY <1>1 DEF Opened, TypeOK
  <1>6. /\ up' \in [Transport -> SUBSET Slot] /\ (t \notin shut => up'[t] = up[t] \cup {i})
        /\ \A s \in Transport \ {t} : up'[s] = up[s]
    BY <1>1 DEF Opened, TypeOK
  <1>7. UNCHANGED <<clientVars, poolVars, lock, taskVars, history>>
    BY DEF Opened
  <1>8. t \notin shut /\ sock[t] = up[t] => sock'[t] = up'[t]
    BY <1>5, <1>6
  <1> QED
    BY <1>3, <1>4, <1>5, <1>6, <1>7, <1>8, NetworkStep

\* open_connection fails.
LEMMA OpenFailsStep ==
  ASSUME IInv, NEW t \in Transport, NEW i \in Slot, OpenFails(t, i)
  PROVE  IInv'
  <1>1. TypeOK
    BY DEF IInv
  <1>2. PICK u \in opening[t][i] : opening' = [opening EXCEPT ![t][i] = @ \ {u}]
    BY DEF OpenFails
  <1>3. /\ opening' \in [Transport -> [Slot -> SUBSET Task]]
        /\ \A s \in Transport, j \in Slot : opening'[s][j] \subseteq opening[s][j]
    BY <1>1, <1>2, OpeningEnds
  <1>4. sock' = sock /\ up' = up /\ sock \in [Transport -> SUBSET Slot] /\ up \in [Transport -> SUBSET Slot]
    BY <1>1 DEF OpenFails, TypeOK
  <1>5. UNCHANGED <<clientVars, poolVars, lock, taskVars, history>>
    BY DEF OpenFails
  <1>6. /\ sock' \in [Transport -> SUBSET Slot] /\ up' \in [Transport -> SUBSET Slot]
        /\ \A s \in Transport \ {t} : sock'[s] = sock[s] /\ up'[s] = up[s]
        /\ t \notin shut /\ sock[t] = up[t] => sock'[t] = up'[t]
        /\ sock'[t] \subseteq sock[t] /\ up'[t] \subseteq up[t]
    BY <1>4
  <1> QED
    BY <1>3, <1>5, <1>6, NetworkStep

\* A connection is lost.
LEMMA ConnectionLostStep ==
  ASSUME IInv, NEW t \in Transport, NEW i \in Slot, ConnectionLost(t, i)
  PROVE  IInv'
  <1>1. TypeOK
    BY DEF IInv
  <1>2. /\ sock' \in [Transport -> SUBSET Slot] /\ sock'[t] = sock[t] \ {i}
        /\ \A s \in Transport \ {t} : sock'[s] = sock[s]
    BY <1>1 DEF ConnectionLost, TypeOK
  <1>3. /\ up' \in [Transport -> SUBSET Slot] /\ up'[t] = up[t] \ {i}
        /\ \A s \in Transport \ {t} : up'[s] = up[s]
    BY <1>1 DEF ConnectionLost, TypeOK
  <1>4. /\ opening' \in [Transport -> [Slot -> SUBSET Task]]
        /\ \A s \in Transport, j \in Slot : opening'[s][j] \subseteq opening[s][j]
    BY <1>1 DEF ConnectionLost, TypeOK
  <1>5. UNCHANGED <<clientVars, poolVars, lock, taskVars, history>>
    BY DEF ConnectionLost
  <1>6. /\ t \notin shut /\ sock[t] = up[t] => sock'[t] = up'[t]
        /\ sock'[t] \subseteq sock[t] /\ up'[t] \subseteq up[t]
    BY <1>2, <1>3
  <1> QED
    BY <1>2, <1>3, <1>4, <1>5, <1>6, NetworkStep

-----------------------------------------------------------------------------
(* A transport is made *)

\* connect() makes a transport, from a call that begins or an attempt of
\* reconnect().
LEMMA StartTransportStep ==
  ASSUME IInv, NEW u \in Task, connected = FALSE, StartTransport(u), at[u] \in {"idle", "pause"},
         call' \in [Task -> Lifecycle \cup {"none", "request"}],
         call'[u] \in {"connect", "reconnect"}, \A v \in Task \ {u} : call'[v] = call[v],
         overlap' \in BOOLEAN,
         overlap' = FALSE => overlap = FALSE /\ \A v \in Task \ {u} : call[v] \notin Lifecycle,
         left' = left
  PROVE  IInv'
  <1>1. /\ TypeOK /\ StageInv /\ FreshInv /\ CreatorInv /\ LockInv /\ ShutInv /\ AloneInv
    BY DEF IInv
  <1>t. PICK t \in Transport : t = made + 1
    BY <1>1, MadeAreTransports, ClientAssumption DEF StartTransport, Transport
  <1>2. /\ made \in Nat /\ MaxTransports \in Nat /\ made < MaxTransports
        /\ started \subseteq 1..made /\ stopped \subseteq 1..made /\ gone \subseteq 1..made
        /\ shut \subseteq 1..made /\ dropped \subseteq 1..made
    BY <1>1, MadeAreTransports, ClientAssumption DEF StartTransport
  <1>3. /\ t \notin started \cup stopped \cup gone \cup shut \cup dropped
        /\ 1..made \subseteq 1..t /\ t \in 1..t /\ t # None /\ t > made
    BY <1>t, <1>2 DEF None
  <1>4. /\ connected' = FALSE /\ disconnecting' = disconnecting /\ started' = started
        /\ stopped' = stopped /\ gone' = gone /\ shut' = shut /\ up' = up /\ sock' = sock
        /\ slot' = slot /\ tries' = tries /\ made' = t /\ transport' = t
    BY <1>t DEF StartTransport
  <1>5. /\ dropped' \subseteq 1..made /\ dropped \subseteq dropped'
        /\ transport # None => transport \in dropped'
    BY <1>1, <1>2 DEF StartTransport, StageInv, None
  <1>6. /\ at' \in [Task -> Stage] /\ at'[u] = "gather" /\ \A v \in Task \ {u} : at'[v] = at[v]
        /\ on' \in [Task -> Transport \cup {None}] /\ on'[u] = t
        /\ \A v \in Task \ {u} : on'[v] = on[v]
    BY <1>t, <1>1, <1>2 DEF StartTransport, Goto, TypeOK, Stage
  <1>7. /\ lock[t] = <<>> /\ sock[t] = {} /\ up[t] = {} /\ \A i \in Slot : opening[t][i] = {}
    BY <1>1, <1>2, <1>3 DEF FreshInv
  <1>8. /\ lock' \in [Transport -> Seq(Task)] /\ HoldersStay(u) /\ HeadIs(t, u)'
        /\ \A s \in Transport \ {t} : lock'[s] = lock[s]
    <2>1. Acquire(u, t)
      BY <1>t DEF StartTransport
    <2> QED
      BY <1>1, <1>2, <1>7, <2>1, AcquireHeads DEF HoldersStay
  <1>9. /\ opening' \in [Transport -> [Slot -> SUBSET Task]]
        /\ \A s \in Transport \ {t} : opening'[s] = opening[s]
        /\ \A i \in Slot : opening'[t][i] \subseteq {u}
    <2>1. Open(u, t, Slot)
      BY <1>t DEF StartTransport
    <2>2. \A i \in Slot : opening'[t][i] \subseteq opening[t][i] \cup {u}
      BY <1>1, <1>2, <2>1, OpenAdds
    <2> QED
      BY <1>1, <1>2, <1>7, <2>1, <2>2, OpenAdds
  <1>10. \A v \in Task : on[v] \in 0..made /\ on[v] # t
    BY <1>t, <1>1, <1>2 DEF StageInv
  <1>11. TypeOK'
    <2>1. /\ transport' \in Transport \cup {None} /\ made' \in 0..MaxTransports
      BY <1>t, <1>2, <1>4 DEF Transport
    <2>2. /\ started' \subseteq 1..made' /\ stopped' \subseteq 1..made' /\ gone' \subseteq 1..made'
          /\ shut' \subseteq 1..made' /\ dropped' \subseteq 1..made'
      BY <1>2, <1>3, <1>4, <1>5
    <2>3. \A S \in {started', stopped', gone', shut', dropped'} : S \subseteq 1..made'
      BY <2>2
    <2> QED
      BY <1>1, <1>4, <1>6, <1>8, <1>9, <2>1, <2>3 DEF TypeOK
  <1>12. StageInv'
    <2>1. Moves(u)
      BY <1>6 DEF Moves
    <2>2. StageFits(u)
      BY <1>t, <1>2, <1>3, <1>4, <1>6 DEF StageFits, Active, Creating
    <2>3. made' \in Nat /\ made <= made' /\ transport' \in 0..made'
      BY <1>t, <1>2, <1>4
    <2> QED
      BY <1>1, <1>4, <2>1, <2>2, <2>3, StageStep
  <1>13. FreshInv'
    <2>1. \A s \in Transport : s > t => s > made /\ s # t
      BY <1>t, <1>2 DEF Transport
    <2> QED
      BY <1>1, <1>4, <1>8, <1>9, <2>1 DEF FreshInv
  <1>14. CreatorInv'
    BY <1>1, <1>3, <1>4, <1>6, <1>10 DEF CreatorInv, Creating
  <1>15. LockInv'
    <2>1. Moves(u)
      BY <1>6 DEF Moves
    <2>2. HeadIs(on[u], u)'
      BY <1>6, <1>8 DEF HeadIs
    <2>3. \A v \in Task : at'[v] \in Holding => HeadIs(on[v], v)'
      BY <1>1, <1>8, <2>1, <2>2, HoldersKept
    <2>4. ASSUME NEW s \in Transport, NEW i \in Slot, NEW v \in opening'[s][i]
          PROVE  on'[v] = s /\ at'[v] \in {"gather", "retry", "reopen"}
      <3>1. CASE s = t
        BY <1>6, <1>9, <2>4, <3>1
      <3>2. CASE s # t
        <4>1. v \in opening[s][i] /\ v \in Task
          BY <1>1, <1>9, <2>4, <3>2, OpenersAreTasks
        <4>2. v # u
          BY <4>1, NotOpening
        <4> QED
          BY <1>1, <1>6, <4>1, <4>2 DEF LockInv
      <3> QED BY <3>1, <3>2
    <2> QED
      BY <2>3, <2>4 DEF LockInv, Holding
  <1>16. ShutInv'
    BY <1>1, <1>3, <1>4, <1>6 DEF ShutInv
  <1>17. AloneInv'
    <2>1. SUFFICES ASSUME overlap' = FALSE
                   PROVE  OneCaller' /\ StartsOpen' /\ SaysTrue' /\ ShutClosed' /\ OthersDead'
      BY DEF AloneInv
    <2>2. /\ OneCaller /\ StartsOpen /\ SaysTrue /\ ShutClosed /\ OthersDead
          /\ \A v \in Task \ {u} : call[v] \notin Lifecycle
      BY <1>1, <2>1 DEF AloneInv
    <2>3. OneCaller'
      BY <1>4, <1>6, <2>2 DEF OneCaller
    <2>4. StartsOpen'
      BY <1>3, <1>4, <1>6, <2>2 DEF StartsOpen
    <2>5. SaysTrue'
      BY <1>4 DEF SaysTrue
    <2>6. ShutClosed'
      BY <1>1, <1>3, <1>4, <1>9, <2>2, MadeAreTransports DEF ShutClosed
    <2>7. ASSUME NEW s \in Transport, s # t, Dead(s)
          PROVE  Dead(s)'
      BY <1>4, <1>6, <1>9, <2>7 DEF Dead
    <2>8. OthersDead'
      <3>1. \A s \in Transport : s # None
        BY DEF Transport, None
      <3> QED
        BY <1>4, <1>5, <2>2, <2>7, <3>1 DEF OthersDead
    <2> QED BY <2>3, <2>4, <2>5, <2>6, <2>8
  <1> QED
    BY <1>11, <1>12, <1>13, <1>14, <1>15, <1>16, <1>17 DEF IInv

\* connect() of the user.
LEMMA ConnectStep ==
  ASSUME IInv, NEW u \in Task, Connect(u)
  PROVE  IInv'
  <1>1. Begin(u, "connect") /\ StartTransport(u) /\ left' = left /\ TypeOK
    BY DEF Connect, IInv
  <1>2. connected = FALSE
    BY <1>1 DEF Connect, TypeOK
  <1>3. /\ at[u] = "idle" /\ call' = [call EXCEPT ![u] = "connect"] /\ overlap' \in BOOLEAN
        /\ overlap' = FALSE => overlap = FALSE /\ \A v \in Task \ {u} : call[v] \notin Lifecycle
    BY <1>1, BeginAlone DEF Lifecycle
  <1>4. /\ call' \in [Task -> Lifecycle \cup {"none", "request"}]
        /\ call'[u] \in {"connect", "reconnect"} /\ \A v \in Task \ {u} : call'[v] = call[v]
    BY <1>1, <1>3 DEF TypeOK, Lifecycle
  <1> QED
    BY <1>1, <1>2, <1>3, <1>4, StartTransportStep

\* An attempt of reconnect().
LEMMA ReconnectTriesStep ==
  ASSUME IInv, NEW u \in Task, ReconnectTries(u)
  PROVE  IInv'
  <1>1. at[u] = "pause" /\ overlap' = overlap /\ TypeOK /\ call[u] = "reconnect"
    BY CallFits DEF ReconnectTries, IInv
  <1>2. CASE Return(u) /\ UNCHANGED <<clientVars, poolVars, lock, netVars, dropped>>
    <2>1. UNCHANGED <<clientVars, poolVars, lock, netVars, dropped, overlap>>
      BY <1>1, <1>2
    <2> QED
      BY <1>1, <1>2, <2>1, ReconnectReturns
  <1>3. CASE ~connected /\ StartTransport(u) /\ UNCHANGED <<call, left>>
    <2>1. connected = FALSE /\ overlap' \in BOOLEAN
      BY <1>1, <1>3 DEF TypeOK
    <2>2. /\ call' = call /\ left' = left /\ call' \in [Task -> Lifecycle \cup {"none", "request"}]
          /\ call'[u] \in {"connect", "reconnect"} /\ \A v \in Task \ {u} : call'[v] = call[v]
      BY <1>1, <1>3 DEF TypeOK
    <2>3. overlap' = FALSE => overlap = FALSE /\ \A v \in Task \ {u} : call[v] \notin Lifecycle
      BY <1>1 DEF IInv, AloneInv, OneCaller, Lifecycle
    <2> QED
      BY <1>1, <1>3, <2>1, <2>2, <2>3, StartTransportStep
  <1> QED
    BY <1>2, <1>3 DEF ReconnectTries

-----------------------------------------------------------------------------
(* A transport is stopped *)

\* disconnect() up to the lock of the pool.
LEMMA StopsStep ==
  ASSUME IInv, NEW u \in Task, NEW op \in {"disconnect", "reconnect"}, Begin(u, op),
         transport # None, connected' = FALSE, disconnecting' = TRUE,
         stopped' = stopped \cup {transport}, started' = started \ {transport},
         on' = [on EXCEPT ![u] = transport], Acquire(u, transport), Goto(u, "stoplock"),
         left' \in [Task -> 0..Retries],
         UNCHANGED <<transport, made, gone, shut, netVars, slot, tries, dropped>>
  PROVE  IInv'
  <1>1. /\ TypeOK /\ StageInv /\ FreshInv /\ CreatorInv /\ LockInv /\ ShutInv /\ AloneInv
    BY DEF IInv
  <1>2. /\ at[u] = "idle" /\ call' = [call EXCEPT ![u] = op] /\ overlap' \in BOOLEAN
        /\ overlap' = FALSE => overlap = FALSE /\ \A v \in Task \ {u} : call[v] \notin Lifecycle
    BY BeginAlone DEF Lifecycle
  <1>3. transport \in Transport /\ transport \in 1..made /\ made \in Nat
    BY <1>1 DEF TypeOK, StageInv, None
  <1>4. LocksFit(u)
    BY <1>3, TakesLock
  <1>5. /\ connected' = FALSE /\ transport' = transport /\ disconnecting' = TRUE
        /\ made' = made /\ gone' = gone /\ shut' = shut /\ up' = up /\ sock' = sock
        /\ opening' = opening /\ slot' = slot /\ tries' = tries /\ dropped' = dropped
        /\ stopped' = stopped \cup {transport} /\ started' = started \ {transport}
    BY DEF netVars
  <1>6. /\ at' \in [Task -> Stage] /\ at'[u] = "stoplock" /\ \A v \in Task \ {u} : at'[v] = at[v]
        /\ on' \in [Task -> Transport \cup {None}] /\ on'[u] = transport
        /\ \A v \in Task \ {u} : on'[v] = on[v]
        /\ call' \in [Task -> Lifecycle \cup {"none", "request"}] /\ call'[u] = op
        /\ \A v \in Task \ {u} : call'[v] = call[v]
    BY <1>1, <1>2, <1>3 DEF Goto, TypeOK, Stage, Lifecycle
  <1>7. TypeOK'
    <2>1. \A S \in {started', stopped', gone', shut', dropped'} : S \subseteq 1..made'
      BY <1>1, <1>3, <1>5 DEF TypeOK
    <2>2. connected' \in BOOLEAN /\ disconnecting' \in BOOLEAN
      BY <1>5
    <2>3. /\ transport' \in Transport \cup {None} /\ made' \in 0..MaxTransports
          /\ up' \in [Transport -> SUBSET Slot] /\ sock' \in [Transport -> SUBSET Slot]
          /\ opening' \in [Transport -> [Slot -> SUBSET Task]]
          /\ slot' \in [Task -> Slot] /\ tries' \in [Task -> 0..Retries]
      BY <1>1, <1>5 DEF TypeOK
    <2> QED
      BY <1>2, <1>4, <1>6, <2>1, <2>2, <2>3 DEF TypeOK, LocksFit
  <1>8. Moves(u) /\ at'[u] \notin Holding
    BY <1>6 DEF Moves, Holding
  <1>9. StageInv'
    <2>1. StageFits(u)
      BY <1>3, <1>5, <1>6 DEF StageFits, Active, Creating, None
    <2>2. made' \in Nat /\ made <= made' /\ transport' \in 0..made'
      BY <1>3, <1>5
    <2> QED
      BY <1>1, <1>5, <1>8, <2>1, <2>2, StageStep
  <1>10. FreshInv'
    BY <1>1, <1>4, <1>5 DEF FreshInv, LocksFit
  <1>11. CreatorInv'
    BY <1>1, <1>5, <1>6 DEF CreatorInv, Creating
  <1>12. LockInv'
    <2>1. /\ \A t \in Transport, i \in Slot : u \notin opening[t][i]
          /\ \A t \in Transport, i \in Slot : opening[t][i] \subseteq Task
      BY <1>1, <1>2, NotOpening, OpenersAreTasks
    <2>2. \A v \in Task : at'[v] \in Holding => HeadIs(on[v], v)'
      BY <1>1, <1>4, <1>8, HoldersKept DEF LocksFit
    <2> QED
      BY <1>1, <1>5, <1>6, <2>1, <2>2 DEF LockInv, Holding
  <1>13. ShutInv'
    BY <1>1, <1>5, <1>6 DEF ShutInv
  <1>14. AloneInv'
    <2>1. SUFFICES ASSUME overlap' = FALSE
                   PROVE  OneCaller' /\ StartsOpen' /\ SaysTrue' /\ ShutClosed' /\ OthersDead'
      BY DEF AloneInv
    <2>2. /\ OneCaller /\ StartsOpen /\ SaysTrue /\ ShutClosed /\ OthersDead
          /\ \A v \in Task \ {u} : call[v] \notin Lifecycle
      BY <1>1, <1>2, <2>1 DEF AloneInv
    <2>3. \A v \in Task \ {u} : at[v] \notin Creating
      BY <1>1, <2>2 DEF StageInv, Lifecycle
    <2>4. OneCaller'
      BY <1>5, <1>6, <2>2 DEF OneCaller
    <2>5. StartsOpen'
      BY <1>6, <2>3 DEF StartsOpen, Creating
    <2>6. SaysTrue'
      BY <1>5 DEF SaysTrue
    <2>7. ShutClosed'
      BY <1>5, <2>2 DEF ShutClosed
    <2>8. OthersDead'
      BY <1>5, <1>6, <2>2 DEF OthersDead, Dead
    <2> QED BY <2>4, <2>5, <2>6, <2>7, <2>8
  <1> QED
    BY <1>7, <1>9, <1>10, <1>11, <1>12, <1>13, <1>14 DEF IInv

\* disconnect() of the user.
LEMMA DisconnectStep ==
  ASSUME IInv, NEW u \in Task, Disconnect(u)
  PROVE  IInv'
  <1>1. TypeOK /\ left' = left /\ UNCHANGED <<transport, made, gone, shut, netVars, slot, tries, dropped>>
    BY DEF Disconnect, IInv
  <1>2. left' \in [Task -> 0..Retries]
    BY <1>1 DEF TypeOK
  <1>3. CASE transport = None
    <2>1. at[u] = "idle" /\ UNCHANGED <<call, overlap>> /\ connected' = FALSE
      BY <1>3 DEF Disconnect, StopTransport
    <2>2. call'[u] # "reconnect"
      BY <2>1, CallFits
    <2>3. UNCHANGED <<call, at, overlap>> /\ UNCHANGED <<disconnecting, started, stopped, lock, on>>
      BY <1>3, <2>1, <2>2 DEF Disconnect, StopTransport
    <2> QED
      BY <1>1, <1>2, <2>1, <2>3, NothingToStop
  <1>4. CASE transport # None
    <2>1. Begin(u, "disconnect") /\ StopTransport(u)
      BY <1>4 DEF Disconnect
    <2>2. /\ connected' = FALSE /\ disconnecting' = TRUE
          /\ stopped' = stopped \cup {transport} /\ started' = started \ {transport}
          /\ on' = [on EXCEPT ![u] = transport] /\ Acquire(u, transport) /\ Goto(u, "stoplock")
      BY <1>4, <2>1 DEF StopTransport
    <2> QED
      BY <1>1, <1>2, <1>4, <2>1, <2>2, StopsStep
  <1> QED
    BY <1>3, <1>4

\* reconnect() of the user.
LEMMA ReconnectStep ==
  ASSUME IInv, NEW u \in Task, Reconnect(u)
  PROVE  IInv'
  <1>1. /\ TypeOK /\ Begin(u, "reconnect")
        /\ UNCHANGED <<transport, made, gone, shut, netVars, slot, tries, dropped>>
    BY DEF Reconnect, IInv
  <1>2. left' \in [Task -> 0..Retries]
    BY <1>1, ClientAssumption DEF TypeOK, Reconnect
  <1>3. at[u] = "idle" /\ call'[u] = "reconnect"
    BY <1>1 DEF Begin, TypeOK
  <1>4. CASE disconnecting
    <2>1. /\ Goto(u, "pause") /\ connected' = connected
          /\ UNCHANGED <<disconnecting, started, stopped, lock, on>>
      BY <1>4 DEF Reconnect
    <2> QED
      BY <1>1, <1>2, <1>3, <2>1, NothingToStop
  <1>5. CASE ~disconnecting /\ transport = None
    <2>1. /\ Goto(u, "pause") /\ connected' = FALSE
          /\ UNCHANGED <<disconnecting, started, stopped, lock, on>>
      BY <1>3, <1>5 DEF Reconnect, StopTransport
    <2> QED
      BY <1>1, <1>2, <1>3, <2>1, NothingToStop
  <1>6. CASE ~disconnecting /\ transport # None
    <2>1. /\ connected' = FALSE /\ disconnecting' = TRUE
          /\ stopped' = stopped \cup {transport} /\ started' = started \ {transport}
          /\ on' = [on EXCEPT ![u] = transport] /\ Acquire(u, transport) /\ Goto(u, "stoplock")
      BY <1>6 DEF Reconnect, StopTransport
    <2> QED
      BY <1>1, <1>2, <1>6, <2>1, StopsStep
  <1> QED
    BY <1>4, <1>5, <1>6

\* stop() closes the connections, holding the lock.
LEMMA CloseAllStep ==
  ASSUME IInv, NEW u \in Task, CloseAll(u)
  PROVE  IInv'
  <1>1. /\ TypeOK /\ StageInv /\ FreshInv /\ CreatorInv /\ LockInv /\ ShutInv /\ AloneInv
    BY DEF IInv
  <1>2. /\ at[u] = "stoplock" /\ on[u] \in Transport /\ on[u] \in 1..made /\ made \in Nat
        /\ call[u] \in {"disconnect", "reconnect"} /\ HeadIs(on[u], u)
    BY WorksOnMade, CallFits DEF Active, CloseAll, Holds, HeadIs
  <1>3. /\ connected' = connected /\ transport' = transport /\ disconnecting' = disconnecting
        /\ made' = made /\ started' = started /\ stopped' = stopped /\ gone' = gone
        /\ lock' = lock /\ opening' = opening /\ call' = call /\ on' = on /\ slot' = slot
        /\ tries' = tries /\ left' = left /\ overlap' = overlap /\ dropped' = dropped
        /\ shut' = shut \cup {on[u]}
    BY DEF CloseAll, clientVars, history
  <1>4. at' \in [Task -> Stage] /\ at'[u] = "closing" /\ \A v \in Task \ {u} : at'[v] = at[v]
    BY <1>1 DEF CloseAll, Goto, TypeOK, Stage
  <1>5. /\ up' \in [Transport -> SUBSET Slot] /\ sock' \in [Transport -> SUBSET Slot]
        /\ up'[on[u]] = {} /\ sock'[on[u]] = {}
        /\ \A t \in Transport \ {on[u]} : up'[t] = up[t] /\ sock'[t] = sock[t]
    BY <1>1, <1>2 DEF CloseAll, TypeOK
  <1>6. \A v \in Task \ {u} : at[v] \in Holding => on[v] # on[u]
    BY <1>1, <1>2 DEF LockInv, Holding, HeadIs
  <1>7. TypeOK'
    BY <1>1, <1>2, <1>3, <1>4, <1>5 DEF TypeOK
  <1>8. StageInv'
    BY <1>1, <1>2, <1>3, <1>4 DEF StageInv, Active, Creating
  <1>9. FreshInv'
    <2>1. \A t \in Transport : t > made => t # on[u]
      BY <1>2 DEF Transport
    <2> QED
      BY <1>1, <1>3, <1>5, <2>1 DEF FreshInv
  <1>10. CreatorInv'
    BY <1>1, <1>3, <1>4 DEF CreatorInv, Creating
  <1>11. LockInv'
    <2>1. /\ \A t \in Transport, i \in Slot : u \notin opening[t][i]
          /\ \A t \in Transport, i \in Slot : opening[t][i] \subseteq Task
      BY <1>1, <1>2, NotOpening, OpenersAreTasks
    <2>2. Moves(u) /\ HoldersStay(u) /\ HeadIs(on[u], u)'
      BY <1>2, <1>3, <1>4 DEF Moves, HoldersStay, HeadIs
    <2>3. \A v \in Task : at'[v] \in Holding => HeadIs(on[v], v)'
      BY <1>1, <2>2, HoldersKept
    <2> QED
      BY <1>1, <1>3, <1>4, <2>1, <2>3 DEF LockInv, Holding
  <1>12. ShutInv'
    BY <1>1, <1>3, <1>4, <1>5, <1>6 DEF ShutInv, Holding
  <1>13. AloneInv'
    <2>1. SUFFICES ASSUME overlap = FALSE
                   PROVE  OneCaller' /\ StartsOpen' /\ SaysTrue' /\ ShutClosed' /\ OthersDead'
      BY <1>3 DEF AloneInv
    <2>2. OneCaller /\ StartsOpen /\ SaysTrue /\ ShutClosed /\ OthersDead
      BY <1>1, <2>1 DEF AloneInv
    <2>3. /\ on[u] = transport /\ connected = FALSE
          /\ \A v \in Task \ {u} : call[v] \notin Lifecycle
      BY <1>2, <2>2 DEF OneCaller, SaysTrue, Active, Lifecycle
    <2>4. \A v \in Task : at[v] \notin Creating
      BY <1>1, <1>2, <2>3 DEF StageInv, Lifecycle, Creating
    <2>5. OneCaller'
      BY <1>2, <1>3, <1>4, <2>2 DEF OneCaller, Active
    <2>6. StartsOpen'
      BY <1>4, <2>4 DEF StartsOpen, Creating
    <2>7. SaysTrue'
      BY <1>3, <2>3 DEF SaysTrue
    <2>8. \A i \in Slot : opening[on[u]][i] = {}
      <3>1. SUFFICES ASSUME NEW i \in Slot, NEW v \in opening[on[u]][i]
                     PROVE  FALSE
        OBVIOUS
      <3>2. v \in Task /\ on[v] = on[u] /\ at[v] \in {"gather", "retry", "reopen"}
        BY <1>1, <1>2, OpenersAreTasks DEF LockInv
      <3> QED
        BY <1>2, <1>6, <2>4, <3>2 DEF Creating, Holding
    <2>9. ShutClosed'
      BY <1>1, <1>3, <1>5, <2>2, <2>8, MadeAreTransports DEF ShutClosed
    <2>10. OthersDead'
      <3>1. ASSUME NEW t \in Transport, t # on[u], Dead(t)
            PROVE  Dead(t)'
        BY <1>3, <1>4, <1>5, <3>1 DEF Dead
      <3> QED
        BY <1>3, <2>2, <2>3, <3>1 DEF OthersDead
    <2> QED BY <2>5, <2>6, <2>7, <2>9, <2>10
  <1> QED
    BY <1>7, <1>8, <1>9, <1>10, <1>11, <1>12, <1>13 DEF IInv

\* stop() returns: the pool is closed for good.
LEMMA StoppedStep ==
  ASSUME IInv, NEW u \in Task, Stopped(u)
  PROVE  IInv'
  <1>1. /\ TypeOK /\ StageInv /\ FreshInv /\ CreatorInv /\ LockInv /\ ShutInv /\ AloneInv
    BY DEF IInv
  <1>2. /\ at[u] = "closing" /\ on[u] \in Transport /\ on[u] \in 1..made /\ made \in Nat
        /\ call[u] \in {"disconnect", "reconnect"} /\ HeadIs(on[u], u) /\ on[u] \in shut
    BY <1>1, WorksOnMade, CallFits DEF Active, Stopped, LockInv, ShutInv
  <1>3. LocksFit(u)
    BY <1>2, GivesLock DEF Stopped, Active
  <1>4. /\ connected' = connected /\ transport' = None /\ disconnecting' = FALSE
        /\ made' = made /\ started' = started /\ stopped' = stopped /\ gone' = gone \cup {on[u]}
        /\ shut' = shut /\ up' = up /\ sock' = sock /\ opening' = opening
        /\ overlap' = overlap /\ dropped' = dropped
    BY DEF Stopped, netVars, history
  <1>5. /\ Moves(u) /\ \A v \in Task \ {u} : tries'[v] = tries[v]
        /\ on'[u] = None
        /\ \/ at'[u] = "idle" /\ call'[u] = "none"
           \/ at'[u] = "pause" /\ call'[u] = "reconnect" /\ call[u] = "reconnect"
    BY <1>1 DEF Stopped, Return, Goto, Moves, TypeOK, Stage
  <1>6. /\ call' \in [Task -> Lifecycle \cup {"none", "request"}] /\ at' \in [Task -> Stage]
        /\ on' \in [Task -> Transport \cup {None}] /\ slot' \in [Task -> Slot]
        /\ tries' \in [Task -> 0..Retries] /\ left' \in [Task -> 0..Retries]
    <2>1. /\ 0 \in 0..Retries /\ 1 \in Slot /\ "idle" \in Stage /\ "pause" \in Stage
      BY ClientAssumption DEF Slot, Stage
    <2>2. CASE Return(u)
      BY <1>1, <2>1, <2>2 DEF Return, Goto, TypeOK
    <2>3. CASE Goto(u, "pause") /\ on' = [on EXCEPT ![u] = None] /\ UNCHANGED <<call, slot, tries, left>>
      BY <1>1, <2>1, <2>3 DEF Goto, TypeOK
    <2> QED
      BY <2>2, <2>3 DEF Stopped
  <1>7. TypeOK'
    <2>1. gone' \subseteq 1..made /\ None \in Transport \cup {None}
      BY <1>1, <1>2, <1>4 DEF TypeOK
    <2> QED
      BY <1>1, <1>3, <1>4, <1>6, <2>1 DEF TypeOK, LocksFit
  <1>8. StageInv'
    <2>1. StageFits(u)
      BY <1>2, <1>4, <1>5 DEF StageFits, None, Active, Creating
    <2>2. transport' \in 0..made'
      BY <1>2, <1>4 DEF None
    <2> QED
      BY <1>1, <1>2, <1>4, <1>5, <2>1, <2>2, StageStep
  <1>9. FreshInv'
    BY <1>1, <1>3, <1>4 DEF FreshInv, LocksFit
  <1>10. CreatorInv'
    BY <1>1, <1>4, <1>5 DEF CreatorInv, Creating, Moves
  <1>11. LockInv'
    <2>1. /\ \A t \in Transport, i \in Slot : u \notin opening[t][i]
          /\ \A t \in Transport, i \in Slot : opening[t][i] \subseteq Task
      BY <1>1, <1>2, NotOpening, OpenersAreTasks
    <2>2. HoldersStay(u) /\ at'[u] \notin Holding
      BY <1>3, <1>5 DEF Holding, LocksFit
    <2>3. \A v \in Task : at'[v] \in Holding => HeadIs(on[v], v)'
      BY <1>1, <1>5, <2>2, HoldersKept
    <2> QED
      BY <1>1, <1>4, <1>5, <2>1, <2>3 DEF LockInv, Holding, Moves
  <1>12. ShutInv'
    BY <1>1, <1>2, <1>4, <1>5 DEF ShutInv, Moves
  <1>13. AloneInv'
    <2>1. SUFFICES ASSUME overlap = FALSE
                   PROVE  OneCaller' /\ StartsOpen' /\ SaysTrue' /\ ShutClosed' /\ OthersDead'
      BY <1>4 DEF AloneInv
    <2>2. OneCaller /\ StartsOpen /\ SaysTrue /\ ShutClosed /\ OthersDead
      BY <1>1, <2>1 DEF AloneInv
    <2>3. /\ on[u] = transport /\ connected = FALSE
          /\ \A v \in Task \ {u} : call[v] \notin Lifecycle
      BY <1>2, <2>2 DEF OneCaller, SaysTrue, Active, Lifecycle
    <2>4. OneCaller'
      BY <1>5, <2>3 DEF OneCaller, Active, Creating, Moves, Lifecycle
    <2>5. StartsOpen'
      BY <1>4, <1>5, <2>2 DEF StartsOpen, Creating, Moves
    <2>6. SaysTrue'
      BY <1>4, <2>3 DEF SaysTrue
    <2>7. ShutClosed'
      BY <1>4, <2>2 DEF ShutClosed
    <2>8. OthersDead'
      <3>1. \A t \in Transport : t \in dropped \/ Dead(t)
        BY <1>2, <2>2, <2>3 DEF OthersDead, Dead, ShutClosed
      <3>2. \A t \in Transport : Dead(t) => Dead(t)'
        BY <1>4, <1>5 DEF Dead, Moves
      <3> QED
        BY <1>4, <3>1, <3>2 DEF OthersDead
    <2> QED BY <2>4, <2>5, <2>6, <2>7, <2>8
  <1> QED
    BY <1>7, <1>8, <1>9, <1>10, <1>11, <1>12, <1>13 DEF IInv

-----------------------------------------------------------------------------
(* The theorems *)

\* The invariant holds of a client that never connected.
LEMMA IInvInit == Init => IInv
  <1>1. SUFFICES ASSUME Init PROVE IInv
    OBVIOUS
  <1>2. TypeOK
    <2>1. 0 \in 0..Retries /\ 1 \in Slot /\ "idle" \in Stage /\ 0 \in 0..MaxTransports
      BY ClientAssumption DEF Slot, Stage
    <2>2. lock \in [Transport -> Seq(Task)]
      <3>1. <<>> \in Seq(Task)
        BY EmptySeq
      <3> QED
        BY <1>1, <3>1 DEF Init
    <2>3. connected \in BOOLEAN /\ disconnecting \in BOOLEAN /\ overlap \in BOOLEAN
      BY <1>1 DEF Init
    <2> QED
      BY <1>1, <2>1, <2>2, <2>3 DEF Init, TypeOK, None
  <1>3. \A u \in Task : at[u] = "idle" /\ call[u] = "none" /\ on[u] = 0
    BY <1>1 DEF Init, None
  <1>4. \A t \in Transport : /\ lock[t] = <<>> /\ sock[t] = {} /\ up[t] = {}
                             /\ \A i \in Slot : opening[t][i] = {}
    BY <1>1 DEF Init
  <1>5. StageInv /\ FreshInv /\ CreatorInv
    BY <1>1, <1>3, <1>4 DEF Init, StageInv, FreshInv, CreatorInv, Active, Creating, None
  <1>6. LockInv /\ ShutInv
    BY <1>1, <1>3, <1>4 DEF Init, LockInv, ShutInv
  <1>7. OneCaller /\ StartsOpen /\ SaysTrue /\ ShutClosed /\ OthersDead
    BY <1>1, <1>3, <1>4 DEF Init, OneCaller, StartsOpen, SaysTrue, ShutClosed, OthersDead, Dead,
       Lifecycle, Creating
  <1> QED
    BY <1>2, <1>5, <1>6, <1>7 DEF IInv, AloneInv

\* Every step of the client, its tasks and the network keeps the invariant.
LEMMA IInvStep == IInv /\ [Next]_vars => IInv'
  <1>1. SUFFICES ASSUME IInv, [Next]_vars PROVE IInv'
    OBVIOUS
  <1>2. ASSUME NEW u \in Task,
               \/ TaskStep(u) \/ Answered(u) \/ ReconnectTries(u)
               \/ Connect(u) \/ Disconnect(u) \/ Reconnect(u) \/ Request(u)
        PROVE  IInv'
    <2>1. CASE TaskStep(u)
      BY <1>1, <2>1, GatheredStep, RetryRoundStep, RetryOverStep, RetryAgainStep, HealthStep,
         GetConnectionStep, ReopenedStep, CloseAllStep, StoppedStep DEF TaskStep
    <2>2. CASE Answered(u) \/ ReconnectTries(u) \/ Request(u)
      BY <1>1, <2>2, AnsweredStep, ReconnectTriesStep, RequestStep
    <2>3. CASE Connect(u) \/ Disconnect(u) \/ Reconnect(u)
      BY <1>1, <2>3, ConnectStep, DisconnectStep, ReconnectStep
    <2> QED
      BY <1>2, <2>1, <2>2, <2>3
  <1>3. ASSUME NEW t \in Transport, NEW i \in Slot,
               Opened(t, i) \/ OpenFails(t, i) \/ ConnectionLost(t, i)
        PROVE  IInv'
    BY <1>1, <1>3, OpenedStep, OpenFailsStep, ConnectionLostStep
  <1>4. CASE UNCHANGED vars
    <2>1. /\ connected' = connected /\ transport' = transport /\ disconnecting' = disconnecting
          /\ made' = made /\ started' = started /\ stopped' = stopped /\ gone' = gone
          /\ shut' = shut /\ lock' = lock /\ up' = up /\ sock' = sock /\ opening' = opening
          /\ call' = call /\ at' = at /\ on' = on /\ slot' = slot /\ tries' = tries
          /\ left' = left /\ overlap' = overlap /\ dropped' = dropped
      BY <1>4 DEF vars, clientVars, poolVars, netVars, taskVars, history
    <2>2. /\ TypeOK /\ StageInv /\ FreshInv /\ CreatorInv /\ LockInv /\ ShutInv /\ AloneInv
      BY <1>1 DEF IInv
    <2>3. TypeOK'
      BY <2>1, <2>2 DEF TypeOK
    <2>4. StageInv' /\ FreshInv' /\ CreatorInv'
      BY <2>1, <2>2 DEF StageInv, FreshInv, CreatorInv
    <2>5. LockInv' /\ ShutInv'
      BY <2>1, <2>2 DEF LockInv, ShutInv, HeadIs
    <2>6. AloneInv'
      BY <2>1, <2>2 DEF AloneInv, OneCaller, StartsOpen, SaysTrue, ShutClosed, OthersDead, Dead
    <2> QED
      BY <2>3, <2>4, <2>5, <2>6 DEF IInv
  <1> QED
    BY <1>1, <1>2, <1>3, <1>4 DEF Next

\* Two tasks that connect one connection would both have made its transport, or
\* both hold the pool's lock.
LEMMA OneOpens ==
  ASSUME IInv
  PROVE  SingleConnect
  <1>1. TypeOK /\ CreatorInv /\ LockInv
    BY DEF IInv
  <1>2. SUFFICES ASSUME NEW t \in Transport, NEW i \in Slot
                 PROVE  Cardinality(opening[t][i]) <= 1
    BY DEF SingleConnect
  <1>3. ASSUME NEW u \in opening[t][i], NEW v \in opening[t][i]
        PROVE  u = v
    <2>1. /\ u \in Task /\ on[u] = t /\ at[u] \in {"gather", "retry", "reopen"}
          /\ v \in Task /\ on[v] = t /\ at[v] \in {"gather", "retry", "reopen"}
      BY <1>1, OpenersAreTasks DEF LockInv
    <2>2. CASE at[u] = "reopen" /\ at[v] = "reopen"
      BY <1>1, <2>1, <2>2 DEF LockInv, HeadIs
    <2>3. CASE at[u] # "reopen" /\ at[v] # "reopen"
      BY <1>1, <2>1, <2>3 DEF CreatorInv, Creating
    <2>4. CASE (at[u] = "reopen") # (at[v] = "reopen")
      BY <1>1, <2>1, <2>4 DEF CreatorInv, Creating
    <2> QED
      BY <2>2, <2>3, <2>4
  <1>4. CASE opening[t][i] = {}
    BY <1>4, FS_EmptySet
  <1>5. CASE opening[t][i] # {}
    <2>1. PICK u \in opening[t][i] : TRUE
      BY <1>5
    <2>2. opening[t][i] = {u}
      BY <1>3
    <2> QED
      BY <2>2, FS_Singleton
  <1> QED
    BY <1>4, <1>5

\* The pool's lock does what it is for (ConnectionPool._lock, Transport.start and
\* stop, AinosClient.connect and disconnect), for any number of tasks, connections
\* and attempts: no connection object connects twice at once, and, as long as
\* lifecycle calls do not overlap, a stopped pool stays closed and a client that
\* says it is connected has a transport that accepts requests.
THEOREM PoolSafe == Spec => []PoolInv
  <1>1. IInv => PoolInv
    <2>1. SUFFICES ASSUME IInv PROVE PoolInv
      OBVIOUS
    <2>2. TypeOK /\ StageInv /\ ShutInv /\ AloneInv
      BY <2>1 DEF IInv
    <2>3. SingleConnect
      BY <2>1, OneOpens
    <2>4. StopClosesPool
      BY <2>2 DEF StopClosesPool, ShutInv, AloneInv, ShutClosed, TypeOK
    <2>5. ConnectedIsUsable
      <3>1. overlap \in BOOLEAN /\ connected \in BOOLEAN
        BY <2>2 DEF TypeOK
      <3>2. ~overlap => SaysTrue
        BY <2>2, <3>1 DEF AloneInv
      <3> QED
        BY <3>1, <3>2 DEF ConnectedIsUsable, SaysTrue
    <2> QED
      BY <2>2, <2>3, <2>4, <2>5 DEF PoolInv
  <1> QED
    BY <1>1, IInvInit, IInvStep, PTL DEF Spec

\* Which sockets can be left behind (AinosClient.connect replaces its transport
\* without stopping it): as long as lifecycle calls do not overlap, a live socket
\* belongs to the client's transport, to one a lifecycle call works on, or to one
\* that a later connect() replaced.
THEOREM LeaksKnown == Spec => []LeakExplained
  <1>1. IInv => LeakExplained
    <2>1. SUFFICES ASSUME IInv, ~overlap PROVE \A t \in Transport :
                     sock[t] # {} => \/ t = transport \/ t \in dropped
                                    \/ \E u \in Task : on[u] = t /\ call[u] \in Lifecycle
      BY DEF LeakExplained
    <2>2. overlap = FALSE
      BY <2>1 DEF IInv, TypeOK
    <2>3. OthersDead
      BY <2>1, <2>2 DEF IInv, AloneInv
    <2> QED
      BY <2>3 DEF OthersDead, Dead
  <1> QED
    BY <1>1, IInvInit, IInvStep, PTL DEF Spec

=============================================================================
