----------------------------- MODULE SdkClient -----------------------------
(***************************************************************************)
(* The life of a Python SDK client: AinosClient of bindings/python/ainos/  *)
(* client.py, and the Transport and ConnectionPool of transport.py it      *)
(* drives.  Several tasks of one event loop call connect, disconnect,      *)
(* reconnect and requests on one client; an action is what a task does     *)
(* between two awaits.  Each connect() of the client makes a Transport of  *)
(* its own with one pool.  A connection of a pool is what SdkConnection    *)
(* models in detail; here it is connected or not and its socket is live or *)
(* not.                                                                    *)
(*                                                                         *)
(* asyncio.Lock is a queue: its head holds the lock, the others wait in    *)
(* order of arrival.  Two places that do not suspend are steps of their    *)
(* own here (stages "health" and "pause" after a failed health request),   *)
(* which only adds interleavings.                                          *)
(***************************************************************************)
EXTENDS Naturals, Sequences, FiniteSets

CONSTANTS Task,            \* tasks that call the client
          PoolSize,        \* config.pool_size
          Retries,         \* config.reconnect_attempts
          MaxTransports    \* bound: transports made

ASSUME ClientAssumption ==
  /\ PoolSize \in Nat \ {0} /\ Retries \in Nat \ {0} /\ MaxTransports \in Nat
  /\ Task # {}

Slot == 1..PoolSize
Transport == 1..MaxTransports
None == 0

Lifecycle == {"connect", "disconnect", "reconnect"}
Stage == {"idle", "gather", "retrylock", "retry", "retrypause", "health", "lock", "reopen", "sent",
          "stoplock", "closing", "pause"}

VARIABLES
  connected, transport, disconnecting,   \* the client: _connected, _transport, _disconnecting
  made,        \* transports made so far
  started,     \* transports with _started
  stopped,     \* transports with _stopped; their pool is stopped with them
  gone,        \* transports whose _pool is None again
  shut,        \* pools whose connections are closed and removed
  lock,        \* the queue of each pool's _lock
  up,          \* connected connections of each pool
  sock,        \* connections whose socket to the daemon is live
  opening,     \* tasks that await connect() of a connection
  call, at,    \* each task: the client call it makes and where it is
  on, slot,    \* the transport and the connection it works on
  tries,       \* attempt of _retry_start
  left,        \* attempts of reconnect still to make
  overlap,     \* history: two lifecycle calls were in progress at once
  dropped      \* history: transports a connect() replaced while they were not stopped

clientVars == <<connected, transport, disconnecting>>
poolVars == <<made, started, stopped, gone, shut>>
netVars == <<up, sock, opening>>
taskVars == <<call, at, on, slot, tries, left>>
history == <<overlap, dropped>>
vars == <<clientVars, poolVars, lock, netVars, taskVars, history>>

TypeOK ==
  /\ connected \in BOOLEAN /\ disconnecting \in BOOLEAN /\ overlap \in BOOLEAN
  /\ transport \in Transport \cup {None} /\ made \in 0..MaxTransports
  /\ \A S \in {started, stopped, gone, shut, dropped} : S \subseteq 1..made
  /\ lock \in [Transport -> Seq(Task)]
  /\ up \in [Transport -> SUBSET Slot] /\ sock \in [Transport -> SUBSET Slot]
  /\ opening \in [Transport -> [Slot -> SUBSET Task]]
  /\ call \in [Task -> Lifecycle \cup {"none", "request"}] /\ at \in [Task -> Stage]
  /\ on \in [Task -> Transport \cup {None}] /\ slot \in [Task -> Slot]
  /\ tries \in [Task -> 0..Retries] /\ left \in [Task -> 0..Retries]

Init ==
  /\ connected = FALSE /\ transport = None /\ disconnecting = FALSE
  /\ made = 0 /\ started = {} /\ stopped = {} /\ gone = {} /\ shut = {}
  /\ lock = [t \in Transport |-> <<>>]
  /\ up = [t \in Transport |-> {}] /\ sock = [t \in Transport |-> {}]
  /\ opening = [t \in Transport |-> [i \in Slot |-> {}]]
  /\ call = [u \in Task |-> "none"] /\ at = [u \in Task |-> "idle"]
  /\ on = [u \in Task |-> None] /\ slot = [u \in Task |-> 1]
  /\ tries = [u \in Task |-> 0] /\ left = [u \in Task |-> 0]
  /\ overlap = FALSE /\ dropped = {}

(***************************************************************************)
(* Helpers                                                                 *)
(***************************************************************************)
Goto(u, stage) == at' = [at EXCEPT ![u] = stage]

\* A task starts a client call; two lifecycle calls at once are remembered.
Begin(u, op) ==
  /\ at[u] = "idle"
  /\ call' = [call EXCEPT ![u] = op]
  /\ overlap' = (overlap \/ (op \in Lifecycle /\ \E v \in Task \ {u} : call[v] \in Lifecycle))

\* The call of u returns or raises.
Return(u) ==
  /\ call' = [call EXCEPT ![u] = "none"] /\ Goto(u, "idle")
  /\ on' = [on EXCEPT ![u] = None]
  /\ slot' = [slot EXCEPT ![u] = 1] /\ tries' = [tries EXCEPT ![u] = 0]
  /\ left' = [left EXCEPT ![u] = 0]

Holds(u) == lock[on[u]] # <<>> /\ Head(lock[on[u]]) = u
Acquire(u, t) == lock' = [lock EXCEPT ![t] = Append(@, u)]
Release(t) == lock' = [lock EXCEPT ![t] = Tail(@)]

\* u awaits connect() of the connections in S of pool t.
Open(u, t, S) ==
  opening' = [opening EXCEPT ![t] = [i \in Slot |-> IF i \in S THEN @[i] \cup {u} ELSE @[i]]]
Opens(u) == {i \in Slot : u \in opening[on[u]][i]}

(***************************************************************************)
(* AinosClient.connect, Transport.start, ConnectionPool.start              *)
(***************************************************************************)
\* A new transport and pool; pool.start holds the pool's lock over the connects.
\* The transport of an earlier connect is replaced.
StartTransport(u) ==
  /\ made < MaxTransports
  /\ made' = made + 1 /\ transport' = made + 1
  /\ dropped' = IF transport = None THEN dropped ELSE dropped \cup {transport}
  /\ on' = [on EXCEPT ![u] = made + 1]
  /\ Acquire(u, made + 1)
  /\ Open(u, made + 1, Slot)
  /\ Goto(u, "gather")
  /\ UNCHANGED <<connected, disconnecting, started, stopped, gone, shut, up, sock, slot, tries>>

Connect(u) ==
  /\ ~connected
  /\ Begin(u, "connect") /\ StartTransport(u)
  /\ UNCHANGED left

\* open_connection returns.  A connection closed meanwhile gets a live socket
\* that nobody will close; its reader task ends at once.
Opened(t, i) ==
  /\ \E u \in opening[t][i] : opening' = [opening EXCEPT ![t][i] = @ \ {u}]
  /\ sock' = [sock EXCEPT ![t] = @ \cup {i}]
  /\ up' = IF t \in shut THEN up ELSE [up EXCEPT ![t] = @ \cup {i}]
  /\ UNCHANGED <<clientVars, poolVars, lock, taskVars, history>>

\* It fails, or connect_timeout expires.
OpenFails(t, i) ==
  /\ \E u \in opening[t][i] : opening' = [opening EXCEPT ![t][i] = @ \ {u}]
  /\ UNCHANGED <<clientVars, poolVars, lock, up, sock, taskVars, history>>

\* Some connection is up: the transport is started, the client connected, and
\* connect() goes on with a health request over the client's current transport.
Started(u) ==
  /\ started' = started \cup {on[u]}
  /\ connected' = TRUE
  /\ Goto(u, "health")
  /\ UNCHANGED <<transport, disconnecting, made, stopped, gone, shut, netVars, on, slot, tries,
                 call, left, history>>

\* The first round of connects is over.  With none up the task queues for the
\* lock again, in _retry_start.
Gathered(u) ==
  /\ at[u] = "gather" /\ Opens(u) = {}
  /\ \/ /\ up[on[u]] # {} /\ Release(on[u]) /\ Started(u)
     \/ /\ up[on[u]] = {}
        /\ lock' = [lock EXCEPT ![on[u]] = Append(Tail(@), u)]
        /\ tries' = [tries EXCEPT ![u] = 1]
        /\ Goto(u, "retrylock")
        /\ UNCHANGED <<clientVars, poolVars, netVars, call, on, slot, left, history>>

\* One round of _retry_start: the connects are started under the lock and
\* awaited outside it.  A pool stopped meanwhile has no connections left.
RetryRound(u) ==
  /\ at[u] = "retrylock" /\ Holds(u)
  /\ Open(u, on[u], IF on[u] \in shut THEN {} ELSE Slot \ up[on[u]])
  /\ Release(on[u])
  /\ Goto(u, "retry")
  /\ UNCHANGED <<clientVars, poolVars, up, sock, call, on, slot, tries, left, history>>

\* connect() fails: the client forgets its transport, whichever it is by now.
ConnectRaises(u) ==
  /\ connected' = FALSE /\ transport' = None
  /\ IF call[u] = "reconnect" /\ left[u] > 1
     THEN /\ left' = [left EXCEPT ![u] = @ - 1] /\ tries' = [tries EXCEPT ![u] = 0]
          /\ Goto(u, "pause") /\ UNCHANGED <<call, on, slot>>
     ELSE Return(u)
  /\ UNCHANGED <<disconnecting, poolVars, lock, netVars, history>>

\* Faulty variant: one attempt too many.
RetryOverOnceMore(u) ==
  /\ at[u] = "retry" /\ Opens(u) = {}
  /\ \/ up[on[u]] # {} /\ Started(u) /\ UNCHANGED lock
     \/ /\ up[on[u]] = {} /\ tries[u] <= Retries
        /\ Goto(u, "retrypause")
        /\ UNCHANGED <<clientVars, poolVars, lock, netVars, call, on, slot, tries, left, history>>

\* Faulty variant: the pool counts as started only with all its connections.
RetryOverAll(u) ==
  /\ at[u] = "retry" /\ Opens(u) = {}
  /\ \/ up[on[u]] = Slot /\ Started(u) /\ UNCHANGED lock
     \/ up[on[u]] # Slot /\ ConnectRaises(u)

\* The connects of a round are over: started, another attempt, or failed.
RetryOver(u) ==
  /\ at[u] = "retry" /\ Opens(u) = {}
  /\ \/ up[on[u]] # {} /\ Started(u) /\ UNCHANGED lock
     \/ /\ up[on[u]] = {} /\ tries[u] < Retries
        /\ Goto(u, "retrypause")
        /\ UNCHANGED <<clientVars, poolVars, lock, netVars, call, on, slot, tries, left, history>>
     \/ up[on[u]] = {} /\ tries[u] = Retries /\ ConnectRaises(u)

\* The back-off is over.
RetryAgain(u) ==
  /\ at[u] = "retrypause"
  /\ tries' = [tries EXCEPT ![u] = @ + 1]
  /\ Acquire(u, on[u])
  /\ Goto(u, "retrylock")
  /\ UNCHANGED <<clientVars, poolVars, netVars, call, on, slot, left, history>>

(***************************************************************************)
(* A request: AinosClient._send_request down to ConnectionPool             *)
(***************************************************************************)
\* The request ends.  In a connect() it was the health request, whose failure is
\* only logged; reconnect() then looks at _connected and may try again.
RequestEnds(u, still) ==
  /\ connected' = still
  /\ IF call[u] = "reconnect" /\ ~still /\ left[u] > 1
     THEN /\ left' = [left EXCEPT ![u] = @ - 1]
          /\ tries' = [tries EXCEPT ![u] = 0] /\ slot' = [slot EXCEPT ![u] = 1]
          /\ Goto(u, "pause") /\ UNCHANGED <<call, on>>
     ELSE Return(u)

\* No transport, or not connected: TransportClosedError before anything is tried.
\* Transport not started or stopped: the client also clears _connected.
\* Otherwise the task queues for the lock of the pool.
EnterRequest(u) ==
  \/ /\ (~connected \/ transport = None)
     /\ RequestEnds(u, connected)
     /\ UNCHANGED lock
  \/ /\ connected /\ transport # None
     /\ transport \notin started \/ transport \in stopped
     /\ RequestEnds(u, FALSE)
     /\ UNCHANGED lock
  \/ /\ connected /\ transport \in started \ stopped
     /\ on' = [on EXCEPT ![u] = transport]
     /\ Acquire(u, transport)
     /\ Goto(u, "lock")
     /\ UNCHANGED <<connected, call, slot, tries, left>>

Health(u) ==
  /\ at[u] = "health"
  /\ EnterRequest(u)
  /\ UNCHANGED <<transport, disconnecting, poolVars, netVars, history>>

\* A request of the user; one that is refused at once changes at most _connected.
Request(u) ==
  /\ at[u] = "idle"
  /\ \/ /\ connected /\ transport \in started \ stopped
        /\ call' = [call EXCEPT ![u] = "request"]
        /\ on' = [on EXCEPT ![u] = transport]
        /\ Acquire(u, transport)
        /\ Goto(u, "lock")
        /\ UNCHANGED connected
     \/ /\ connected /\ transport # None
        /\ transport \notin started \/ transport \in stopped
        /\ connected' = FALSE
        /\ UNCHANGED <<lock, call, at, on>>
  /\ UNCHANGED <<transport, disconnecting, poolVars, netVars, slot, tries, left, history>>

\* Faulty variant: get_connection does not wait for the lock.
GetConnectionUnlocked(u) ==
  /\ at[u] = "lock"
  /\ \/ /\ \E i \in up[on[u]] : slot' = [slot EXCEPT ![u] = i]
        /\ Release(on[u]) /\ Goto(u, "sent")
        /\ UNCHANGED <<connected, opening, call, on, tries, left>>
     \/ /\ up[on[u]] = {} /\ on[u] \notin shut
        /\ Open(u, on[u], {1})
        /\ slot' = [slot EXCEPT ![u] = 1] /\ Goto(u, "reopen")
        /\ UNCHANGED <<connected, lock, call, on, tries, left>>
  /\ UNCHANGED <<transport, disconnecting, poolVars, up, sock, history>>

\* get_connection with the lock: any active connection (the round robin), the
\* first connection to try again, or none because the pool was stopped.
GetConnection(u) ==
  /\ at[u] = "lock" /\ Holds(u)
  /\ \/ /\ \E i \in up[on[u]] : slot' = [slot EXCEPT ![u] = i]
        /\ Release(on[u]) /\ Goto(u, "sent")
        /\ UNCHANGED <<connected, opening, call, on, tries, left>>
     \/ /\ up[on[u]] = {} /\ on[u] \notin shut
        /\ Open(u, on[u], {1})
        /\ slot' = [slot EXCEPT ![u] = 1] /\ Goto(u, "reopen")
        /\ UNCHANGED <<connected, lock, call, on, tries, left>>
     \/ /\ on[u] \in shut
        /\ Release(on[u]) /\ RequestEnds(u, FALSE)
        /\ UNCHANGED opening
  /\ UNCHANGED <<transport, disconnecting, poolVars, up, sock, history>>

\* Faulty variant: the lock is not given back when no connection comes up.
ReopenedKeepsLock(u) ==
  /\ at[u] = "reopen" /\ Opens(u) = {}
  /\ \/ /\ slot[u] \in up[on[u]]
        /\ Release(on[u]) /\ Goto(u, "sent")
        /\ UNCHANGED <<connected, call, on, slot, tries, left>>
     \/ /\ slot[u] \notin up[on[u]]
        /\ RequestEnds(u, FALSE)
        /\ UNCHANGED lock
  /\ UNCHANGED <<transport, disconnecting, poolVars, netVars, history>>

\* The connect() of get_connection returned: use the connection, try the next
\* one, or give up with ConnectionError.
Reopened(u) ==
  /\ at[u] = "reopen" /\ Opens(u) = {}
  /\ \/ /\ slot[u] \in up[on[u]]
        /\ Release(on[u]) /\ Goto(u, "sent")
        /\ UNCHANGED <<connected, opening, call, on, slot, tries, left>>
     \/ /\ slot[u] \notin up[on[u]] /\ slot[u] < PoolSize
        /\ Open(u, on[u], {slot[u] + 1})
        /\ slot' = [slot EXCEPT ![u] = @ + 1]
        /\ UNCHANGED <<connected, lock, call, at, on, tries, left>>
     \/ /\ slot[u] \notin up[on[u]] /\ slot[u] = PoolSize
        /\ Release(on[u]) /\ RequestEnds(u, FALSE)
        /\ UNCHANGED opening
  /\ UNCHANGED <<transport, disconnecting, poolVars, up, sock, history>>

\* The connection answers, times out, or is lost; the loss is recorded in the
\* client even if it has another transport by now.
Answered(u) ==
  /\ at[u] = "sent"
  /\ \/ RequestEnds(u, connected)
     \/ slot[u] \notin up[on[u]] /\ RequestEnds(u, FALSE)
  /\ UNCHANGED <<transport, disconnecting, poolVars, lock, netVars, history>>

\* The daemon closes a connection, or it breaks, and its reader notices.
ConnectionLost(t, i) ==
  /\ i \in sock[t]
  /\ sock' = [sock EXCEPT ![t] = @ \ {i}] /\ up' = [up EXCEPT ![t] = @ \ {i}]
  /\ UNCHANGED <<clientVars, poolVars, lock, opening, taskVars, history>>

(***************************************************************************)
(* AinosClient.disconnect, Transport.stop, ConnectionPool.stop             *)
(***************************************************************************)
\* Faulty variant: _connected is left to the requests.
StopTransportConnected(u) ==
  /\ IF transport = None
     THEN /\ IF call'[u] = "reconnect"
             THEN Goto(u, "pause") ELSE UNCHANGED at
          /\ UNCHANGED <<disconnecting, started, stopped, lock, on>>
     ELSE /\ disconnecting' = TRUE
          /\ stopped' = stopped \cup {transport} /\ started' = started \ {transport}
          /\ on' = [on EXCEPT ![u] = transport]
          /\ Acquire(u, transport) /\ Goto(u, "stoplock")
  /\ UNCHANGED connected

\* Up to the lock of the pool; without a transport disconnect() is done at once.
StopTransport(u) ==
  /\ connected' = FALSE
  /\ IF transport = None
     THEN /\ IF call'[u] = "reconnect"
             THEN Goto(u, "pause") ELSE UNCHANGED at
          /\ UNCHANGED <<disconnecting, started, stopped, lock, on>>
     ELSE /\ disconnecting' = TRUE
          /\ stopped' = stopped \cup {transport} /\ started' = started \ {transport}
          /\ on' = [on EXCEPT ![u] = transport]
          /\ Acquire(u, transport) /\ Goto(u, "stoplock")

Disconnect(u) ==
  /\ ~disconnecting
  /\ IF transport = None
     THEN at[u] = "idle" /\ UNCHANGED <<call, overlap>>
     ELSE Begin(u, "disconnect")
  /\ StopTransport(u)
  /\ UNCHANGED <<transport, made, gone, shut, netVars, slot, tries, left, dropped>>

\* Faulty variant: stop() does not wait for the lock.
CloseAllUnlocked(u) ==
  /\ at[u] = "stoplock"
  /\ shut' = shut \cup {on[u]}
  /\ up' = [up EXCEPT ![on[u]] = {}] /\ sock' = [sock EXCEPT ![on[u]] = {}]
  /\ Goto(u, "closing")
  /\ UNCHANGED <<clientVars, made, started, stopped, gone, lock, opening, call, on, slot, tries,
                 left, history>>

\* Every connection is told to disconnect.
CloseAll(u) ==
  /\ at[u] = "stoplock" /\ Holds(u)
  /\ shut' = shut \cup {on[u]}
  /\ up' = [up EXCEPT ![on[u]] = {}] /\ sock' = [sock EXCEPT ![on[u]] = {}]
  /\ Goto(u, "closing")
  /\ UNCHANGED <<clientVars, made, started, stopped, gone, lock, opening, call, on, slot, tries,
                 left, history>>

\* stop() is over: the pool is dropped, and so is the client's transport,
\* whichever it is by now.
Stopped(u) ==
  /\ at[u] = "closing"
  /\ Release(on[u])
  /\ gone' = gone \cup {on[u]}
  /\ transport' = None /\ disconnecting' = FALSE
  /\ IF call[u] = "reconnect"
     THEN Goto(u, "pause") /\ on' = [on EXCEPT ![u] = None] /\ UNCHANGED <<call, slot, tries, left>>
     ELSE Return(u)
  /\ UNCHANGED <<connected, made, started, stopped, shut, netVars, history>>

(***************************************************************************)
(* AinosClient.reconnect                                                   *)
(***************************************************************************)
\* disconnect(), which returns at once while another one is running.
Reconnect(u) ==
  /\ Begin(u, "reconnect")
  /\ left' = [left EXCEPT ![u] = Retries]
  /\ IF disconnecting
     THEN Goto(u, "pause") /\ UNCHANGED <<connected, disconnecting, started, stopped, lock, on>>
     ELSE StopTransport(u)
  /\ UNCHANGED <<transport, made, gone, shut, netVars, slot, tries, dropped>>

\* After the delay: connect(), which returns at once when already connected.
ReconnectTries(u) ==
  /\ at[u] = "pause"
  /\ \/ /\ connected /\ Return(u)
        /\ UNCHANGED <<clientVars, poolVars, lock, netVars, dropped>>
     \/ /\ ~connected /\ StartTransport(u)
        /\ UNCHANGED <<call, left>>
  /\ UNCHANGED overlap

TaskStep(u) ==
  \/ Gathered(u) \/ RetryRound(u) \/ RetryOver(u) \/ RetryAgain(u)
  \/ Health(u) \/ GetConnection(u) \/ Reopened(u)
  \/ CloseAll(u) \/ Stopped(u)

Next ==
  \/ \E u \in Task : \/ TaskStep(u) \/ Answered(u) \/ ReconnectTries(u)
                      \/ Connect(u) \/ Disconnect(u) \/ Reconnect(u) \/ Request(u)
  \/ \E t \in Transport, i \in Slot : Opened(t, i) \/ OpenFails(t, i) \/ ConnectionLost(t, i)

Spec == Init /\ [][Next]_vars

\* The event loop runs every task that is ready, and connect_timeout ends every
\* attempt to connect.
FairSpec ==
  /\ Spec
  /\ \A u \in Task : WF_vars(TaskStep(u))
  /\ \A t \in Transport, i \in Slot : WF_vars(Opened(t, i) \/ OpenFails(t, i))

(***************************************************************************)
(* Properties                                                              *)
(***************************************************************************)
Quiet == \A u \in Task : call[u] \notin Lifecycle

\* No connection object is ever connecting twice at once (a second connect() would
\* replace the writer of the first and leak its socket): the lock of the pool, and
\* the transport that is not started, keep requests out of a starting pool.
SingleConnect ==
  \A t \in Transport, i \in Slot : Cardinality(opening[t][i]) <= 1

\* When stop() of a pool has returned none of its connections has a live socket or
\* is still connecting, as long as lifecycle calls do not overlap: requests that
\* were reconnecting or waiting for the lock cannot bring a connection back.
StopClosesPool ==
  ~overlap => \A t \in gone : sock[t] = {} /\ \A i \in Slot : opening[t][i] = {}

\* A live socket belongs to the client's transport, or to one that a task is
\* starting or stopping; when calls do not overlap the only other ones are those of
\* a transport that a later connect() replaced.
LeakExplained ==
  ~overlap => \A t \in Transport :
    sock[t] # {} => \/ t = transport \/ t \in dropped
                   \/ \E u \in Task : on[u] = t /\ call[u] \in Lifecycle

\* Between lifecycle calls that do not overlap, a client that says it is connected
\* has a transport that accepts requests.
ConnectedIsUsable ==
  ~overlap /\ Quiet /\ connected => transport \in started \ (stopped \cup shut)

\* disconnect() does not hang: whoever holds the pool's lock gives it back.
DisconnectEnds ==
  \A u \in Task : at[u] \in {"stoplock", "closing"} ~> at[u] \in {"idle", "pause"}

\* disconnect() "Gracefully closes all connections": when a call of it that no other
\* lifecycle call overlapped returns, no socket of the client is live.
DisconnectClosesAll ==
  [][\A u \in Task : call[u] = "disconnect" /\ at[u] = "closing" /\ at'[u] = "idle" /\ ~overlap
       => \A t \in Transport : sock'[t] = {}]_vars

(***************************************************************************)
(* The pool's lock does what it is for: no connection object connects      *)
(* twice at once, a stopped pool stays closed, and a client that says it   *)
(* is connected can send.                                                  *)
(***************************************************************************)
PoolInv == TypeOK /\ SingleConnect /\ StopClosesPool /\ ConnectedIsUsable

=============================================================================
