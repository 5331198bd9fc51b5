--------------------------- MODULE DesktopClient ---------------------------
(***************************************************************************)
(* The desktop's connection to the backend: AinosClient of                 *)
(* userland/desktop/src/client/ainos_client.py over TCPTransport of        *)
(* transport.py.  Tasks of one event loop connect and disconnect, others   *)
(* make requests; _read_loop, _heartbeat_loop and _reconnect_loop run      *)
(* beside them.  An action is what a task does between two awaits that can *)
(* suspend it.                                                             *)
(*                                                                         *)
(* The backend and the event loop's socket layer are external: a request   *)
(* sent over a live socket may be answered, at any later time; the backend *)
(* may go away at any moment; it sends well-formed messages.  When a       *)
(* socket dies, whoever awaits it is woken at once: the read loop is over  *)
(* before a new connection can be open, and before wait_closed() returns,  *)
(* unless the socket was lost before close() was called.                   *)
(***************************************************************************)
EXTENDS Naturals, FiniteSets

CONSTANTS
  Task,           \* the callers of AinosClient.connect and disconnect
  Infer,          \* calls of infer(), streaming, each with the id of its request
  Other,          \* calls of the other methods, each with a fresh uuid
  Canceller,      \* calls of cancel_inference()
  NoCall,
  MaxAttempts,    \* max_reconnect_attempts
  MaxUserCalls,   \* bound: calls of connect and disconnect
  MaxSockets      \* bound: connections the backend accepts

Call == Infer \cup Other \cup Canceller
Id == Infer \cup Other        \* the id of a request is named after the call it is made for

ASSUME DesktopAssumption ==
  /\ NoCall \notin Call
  /\ Infer \cap Other = {} /\ Id \cap Canceller = {}
  /\ "reconnect" \notin Task /\ "free" \notin Task
  /\ MaxAttempts \in Nat \ {0} /\ MaxUserCalls \in Nat /\ MaxSockets \in Nat

Proc == Task \cup {"reconnect"}

VARIABLES
  connected,      \* TCPTransport._connected
  clientUp,       \* AinosClient._connected
  sock,           \* what _reader and _writer are connected to
  sockets,        \* connections opened so far
  lock,           \* the holder of _connection_lock
  pc,             \* where each caller of connect or disconnect is
  userCalls,      \* calls of connect and disconnect so far
  reconnecting,   \* _reconnecting
  attempts,       \* _reconnect_attempts
  rc, tries,      \* the task running _reconnect_loop and its attempt
  loop,           \* the task running _read_loop
  hb,             \* _heartbeat_task
  pending,        \* _pending_requests: the call whose future each id leads to
  handlers,       \* keys of _stream_handlers
  key,            \* the request id of each call, or NoCall
  cs, fut,        \* where each call is, and its future while it is awaited
  received,       \* calls whose message reached the backend over this socket
  why,            \* auxiliary: who found the last connection to be over
  got,            \* auxiliary: the call whose answer settled each call
  wanted          \* auxiliary: the last call of the user was connect

flags == <<connected, clientUp, why>>
user == <<pc, userCalls, wanted>>
retry == <<reconnecting, attempts, rc, tries>>
tables == <<pending, handlers, key, cs, fut, got>>
vars == <<flags, sock, sockets, lock, user, retry, loop, hb, tables, received>>

InProgress == {"drain", "wait", "expired"}

ControlTypeOK ==
  /\ connected \in BOOLEAN /\ clientUp \in BOOLEAN
  /\ why \in {"never", "reader", "sender", "user", "exhausted"}
  /\ sock \in {"none", "up", "gone", "closed"} /\ sockets \in 0..MaxSockets
  /\ lock \in Proc \cup {"free"}
  /\ pc \in [Task -> {"idle", "connect", "opening", "disconnect", "closing"}]
  /\ userCalls \in 0..MaxUserCalls /\ wanted \in BOOLEAN
  /\ reconnecting \in BOOLEAN /\ attempts \in 0..1
  /\ rc \in {"none", "check", "sleep", "connect", "opening"} /\ tries \in 0..MaxAttempts
  /\ loop \in {"none", "new", "read"} /\ hb \in {"none", "run", "done"}

TablesTypeOK ==
  /\ pending \in [Id -> Call \cup {NoCall}] /\ handlers \subseteq Infer
  /\ key \in [Call -> Id \cup {NoCall}]
  /\ cs \in [Call -> InProgress \cup {"idle", "over", "cancelled"}]
  /\ fut \in [Call -> {"none", "wait", "result", "failed"}]
  /\ received \subseteq Call /\ got \in [Call -> Call \cup {NoCall}]

\* Type invariant; one loss is counted at a time.
TypeOK == ControlTypeOK /\ TablesTypeOK

Init ==
  /\ connected = FALSE /\ clientUp = FALSE /\ why = "never"
  /\ sock = "none" /\ sockets = 0 /\ lock = "free"
  /\ pc = [t \in Task |-> "idle"] /\ userCalls = 0 /\ wanted = FALSE
  /\ reconnecting = FALSE /\ attempts = 0 /\ rc = "none" /\ tries = 0
  /\ loop = "none" /\ hb = "none"
  /\ pending = [i \in Id |-> NoCall] /\ handlers = {}
  /\ key = [c \in Call |-> NoCall] /\ cs = [c \in Call |-> "idle"]
  /\ fut = [c \in Call |-> "none"] /\ got = [c \in Call |-> NoCall]
  /\ received = {}

-----------------------------------------------------------------------------
(***************************************************************************)
(* TCPTransport.connect, called by AinosClient.connect and by the          *)
(* reconnect loop.  The two requests that AinosClient.connect makes        *)
(* afterwards are calls of Other; their failures are only logged.          *)
(***************************************************************************)
At(p, where) == IF p = "reconnect" THEN rc = where ELSE pc[p] = where

\* The caller goes on: a task of the user, or the reconnect loop at its test.
GoTo(p, where) ==
  IF p = "reconnect" THEN rc' = where /\ UNCHANGED pc
  ELSE pc' = [pc EXCEPT ![p] = where] /\ UNCHANGED rc

\* connect() returned True: the reconnect loop ends, a user's task is back.
Succeeds(p) ==
  /\ GoTo(p, IF p = "reconnect" THEN "none" ELSE "idle")
  /\ reconnecting' = (reconnecting /\ p # "reconnect")
  /\ tries' = IF p = "reconnect" THEN 0 ELSE tries

ConnectCall(t) ==
  /\ pc[t] = "idle" /\ userCalls < MaxUserCalls
  /\ pc' = [pc EXCEPT ![t] = "connect"]
  /\ userCalls' = userCalls + 1 /\ wanted' = TRUE
  /\ UNCHANGED <<flags, sock, sockets, lock, retry, loop, hb, tables, received>>

\* The lock is taken and the connection is up already.
ConnectKnown(p) ==
  /\ At(p, "connect") /\ lock = "free" /\ connected
  /\ Succeeds(p)
  /\ clientUp' = (clientUp \/ p # "reconnect")
  /\ UNCHANGED <<connected, why, sock, sockets, lock, userCalls, wanted, attempts, loop, hb,
                 tables, received>>

\* The lock is taken and open_connection() awaited.
ConnectOpen(p) ==
  /\ At(p, "connect") /\ lock = "free" /\ ~connected
  /\ lock' = p /\ GoTo(p, "opening")
  /\ UNCHANGED <<flags, sock, sockets, userCalls, wanted, reconnecting, attempts, tries,
                 loop, hb, tables, received>>

\* Faulty variant: a heartbeat task that has ended is taken for a running one.
StartHeartbeatOnce == hb' = IF hb = "none" THEN "run" ELSE hb

\* _start_heartbeat: a heartbeat loop still asleep is kept for the new connection.
StartHeartbeat == hb' = "run"

\* Faulty variant: the attempts are not counted anew.
ConnectOpensCounting(p) ==
  /\ At(p, "opening") /\ sockets < MaxSockets /\ loop = "none"
  /\ sock' = "up" /\ sockets' = sockets + 1 /\ received' = {}
  /\ connected' = TRUE /\ clientUp' = TRUE /\ UNCHANGED attempts
  /\ StartHeartbeat /\ loop' = "new"
  /\ lock' = "free" /\ Succeeds(p)
  /\ UNCHANGED <<why, userCalls, wanted, tables>>

\* open_connection() returned: flag, heartbeat, read loop and callback in one step.
ConnectOpens(p) ==
  /\ At(p, "opening") /\ sockets < MaxSockets /\ loop = "none"
  /\ sock' = "up" /\ sockets' = sockets + 1 /\ received' = {}
  /\ connected' = TRUE /\ clientUp' = TRUE /\ attempts' = 0
  /\ StartHeartbeat /\ loop' = "new"
  /\ lock' = "free" /\ Succeeds(p)
  /\ UNCHANGED <<why, userCalls, wanted, tables>>

\* Faulty variant: an exception leaves connect() with the lock held.
ConnectFailsLocked(p) ==
  /\ At(p, "opening")
  /\ connected' = FALSE /\ clientUp' = (clientUp /\ p = "reconnect")
  /\ GoTo(p, IF p = "reconnect" THEN "check" ELSE "idle")
  /\ UNCHANGED <<why, lock, sock, sockets, userCalls, wanted, reconnecting, attempts, tries,
                 loop, hb, tables, received>>

\* open_connection() failed or timed out; AinosClient.connect clears its flag too.
ConnectFails(p) ==
  /\ At(p, "opening")
  /\ connected' = FALSE /\ clientUp' = (clientUp /\ p = "reconnect")
  /\ lock' = "free" /\ GoTo(p, IF p = "reconnect" THEN "check" ELSE "idle")
  /\ UNCHANGED <<why, sock, sockets, userCalls, wanted, reconnecting, attempts, tries,
                 loop, hb, tables, received>>

-----------------------------------------------------------------------------
(***************************************************************************)
(* disconnect() of the client and of the transport                         *)
(***************************************************************************)
DisconnectCall(t) ==
  /\ pc[t] = "idle" /\ userCalls < MaxUserCalls
  /\ pc' = [pc EXCEPT ![t] = "disconnect"]
  /\ userCalls' = userCalls + 1 /\ wanted' = FALSE
  /\ clientUp' = FALSE
  /\ UNCHANGED <<connected, why, sock, sockets, lock, retry, loop, hb, tables, received>>

\* Not connected: return, and leave a reconnect loop to its work.
DisconnectNothing(t) ==
  /\ pc[t] = "disconnect" /\ lock = "free" /\ ~connected
  /\ pc' = [pc EXCEPT ![t] = "idle"]
  /\ UNCHANGED <<flags, sock, sockets, lock, userCalls, wanted, retry, loop, hb, tables, received>>

\* Faulty variant: the table is emptied and its futures are forgotten.
ForgetPending ==
  /\ pending' = [i \in Id |-> NoCall]
  /\ UNCHANGED fut

\* Every future of the table that is not done gets an exception; the table is emptied.
FailPending ==
  /\ pending' = [i \in Id |-> NoCall]
  /\ fut' = [c \in Call |-> IF fut[c] = "wait" /\ \E i \in Id : pending[i] = c
                            THEN "failed" ELSE fut[c]]

\* _stop_heartbeat, the pending requests, and close() up to wait_closed().
DisconnectClose(t) ==
  /\ pc[t] = "disconnect" /\ lock = "free" /\ connected
  /\ lock' = t /\ pc' = [pc EXCEPT ![t] = "closing"]
  /\ hb' = IF hb = "run" THEN "none" ELSE hb
  /\ FailPending
  /\ sock' = "closed"
  /\ UNCHANGED <<flags, sockets, userCalls, wanted, retry, loop, handlers, key, cs, got, received>>

\* The connection is lost already: wait_closed() does not suspend, and the flag
\* is cleared before the read loop gets to run.
DisconnectGone(t) ==
  /\ pc[t] = "disconnect" /\ lock = "free" /\ connected /\ sock = "gone"
  /\ hb' = IF hb = "run" THEN "none" ELSE hb
  /\ FailPending
  /\ sock' = "none" /\ connected' = FALSE /\ clientUp' = FALSE /\ why' = "user"
  /\ pc' = [pc EXCEPT ![t] = "idle"]
  /\ UNCHANGED <<sockets, lock, userCalls, wanted, retry, loop, handlers, key, cs, got, received>>

\* wait_closed() returned: the end of the stream has woken the read loop before.
DisconnectEnd(t) ==
  /\ pc[t] = "closing" /\ loop = "none"
  /\ sock' = "none" /\ connected' = FALSE /\ clientUp' = FALSE
  /\ why' = IF connected THEN "user" ELSE why
  /\ lock' = "free" /\ pc' = [pc EXCEPT ![t] = "idle"]
  /\ UNCHANGED <<sockets, userCalls, wanted, retry, loop, hb, tables, received>>

-----------------------------------------------------------------------------
(***************************************************************************)
(* _read_loop, _schedule_reconnect, _reconnect_loop and _heartbeat_loop    *)
(***************************************************************************)
LoopStart ==
  /\ loop = "new"
  /\ loop' = IF connected /\ sock # "none" THEN "read" ELSE "none"
  /\ UNCHANGED <<flags, sock, sockets, lock, user, retry, hb, tables, received>>

\* _schedule_reconnect: one reconnect loop at a time.
ScheduleReconnect ==
  IF reconnecting \/ attempts >= MaxAttempts
  THEN UNCHANGED retry
  ELSE /\ reconnecting' = TRUE /\ attempts' = attempts + 1
       /\ rc' = "check" /\ tries' = 0

\* Faulty variant: the loss is retried and nobody is told.
LoopEndsUntold ==
  /\ loop = "read" /\ sock # "up"
  /\ loop' = "none" /\ received' = {}
  /\ IF connected
     THEN connected' = FALSE /\ UNCHANGED clientUp /\ why' = "reader" /\ ScheduleReconnect
     ELSE UNCHANGED <<flags, retry>>
  /\ UNCHANGED <<sock, sockets, lock, user, hb, tables>>

\* The read loop is at the end of the stream; its finally clause acts only
\* when nobody cleared _connected before it.
LoopEnds ==
  /\ loop = "read" /\ sock # "up"
  /\ loop' = "none" /\ received' = {}
  /\ IF connected
     THEN connected' = FALSE /\ clientUp' = FALSE /\ why' = "reader" /\ ScheduleReconnect
     ELSE UNCHANGED <<flags, retry>>
  /\ UNCHANGED <<sock, sockets, lock, user, hb, tables>>

\* Faulty variant: the loop ends and leaves the flag of its run behind.
ReconnectTestKeepsFlag ==
  /\ rc = "check"
  /\ IF tries < MaxAttempts /\ ~connected
     THEN tries' = tries + 1 /\ rc' = "sleep" /\ UNCHANGED why
     ELSE rc' = "none" /\ tries' = 0
          /\ why' = IF ~connected /\ why = "reader" THEN "exhausted" ELSE why
  /\ UNCHANGED <<connected, clientUp, reconnecting, sock, sockets, lock, user, attempts, loop, hb,
                 tables, received>>

\* The head of the loop of _reconnect_loop: another attempt, or the end.
ReconnectTest ==
  /\ rc = "check"
  /\ IF tries < MaxAttempts /\ ~connected
     THEN tries' = tries + 1 /\ rc' = "sleep" /\ UNCHANGED <<reconnecting, why>>
     ELSE rc' = "none" /\ reconnecting' = FALSE /\ tries' = 0
          /\ why' = IF ~connected /\ why = "reader" THEN "exhausted" ELSE why
  /\ UNCHANGED <<connected, clientUp, sock, sockets, lock, user, attempts, loop, hb,
                 tables, received>>

\* The back-off is over and connect() is called.
ReconnectWakes ==
  /\ rc = "sleep" /\ rc' = "connect"
  /\ UNCHANGED <<flags, sock, sockets, lock, user, reconnecting, attempts, tries, loop, hb,
                 tables, received>>

\* The heartbeat loop wakes without a connection, or its message cannot be
\* sent.  While it can be sent nothing changes: nobody reads _last_heartbeat.
HeartbeatEnds ==
  /\ hb = "run" /\ (~connected \/ sock = "gone")
  /\ hb' = "done"
  /\ UNCHANGED <<flags, sock, sockets, lock, user, retry, loop, tables, received>>

\* The backend closes the connection, or the network loses it.
BackendGoes ==
  /\ sock = "up" /\ sock' = "gone"
  /\ UNCHANGED <<flags, sockets, lock, user, retry, loop, hb, tables, received>>

-----------------------------------------------------------------------------
(***************************************************************************)
(* send_request and send_stream_request, and the handlers of the read loop *)
(***************************************************************************)
\* cancel_inference() takes the id of a call of infer(); the others have their own.
IdFor(c) == IF c \in Canceller THEN {key[i] : i \in {j \in Infer : cs[j] # "idle"}} \ {NoCall}
            ELSE {c}

Pop(c) == pending' = [pending EXCEPT ![key[c]] = NoCall]

\* The call leaves send_request, for a stream through the finally clause of
\* send_stream_request.  Its future, done or never to be awaited again, is
\* forgotten.
Leave(c, how) ==
  /\ cs' = [cs EXCEPT ![c] = how]
  /\ handlers' = handlers \ {c}
  /\ fut' = [fut EXCEPT ![c] = "none"] /\ got' = [got EXCEPT ![c] = NoCall]

SendRefused(c) ==
  /\ cs[c] = "idle" /\ (~connected \/ sock = "none")
  /\ Leave(c, "over")
  /\ UNCHANGED <<flags, sock, sockets, lock, user, retry, loop, hb, pending, key, received>>

\* Register the future under the id, whatever it led to before, and write.
Send(c) ==
  /\ cs[c] = "idle" /\ connected /\ sock # "none"
  /\ \E i \in IdFor(c) :
       /\ key' = [key EXCEPT ![c] = i]
       /\ pending' = [pending EXCEPT ![i] = c]
  /\ fut' = [fut EXCEPT ![c] = "wait"]
  /\ handlers' = handlers \cup (Infer \cap {c})
  /\ cs' = [cs EXCEPT ![c] = "drain"]
  /\ received' = IF sock = "up" THEN received \cup {c} ELSE received
  /\ UNCHANGED <<flags, sock, sockets, lock, user, retry, loop, hb, got>>

DrainDone(c) ==
  /\ cs[c] = "drain"
  /\ cs' = [cs EXCEPT ![c] = "wait"]
  /\ UNCHANGED <<flags, sock, sockets, lock, user, retry, loop, hb, pending, handlers, key, fut,
                 got, received>>

\* drain() raises: _connected is cleared, nobody is told and nothing scheduled.
DrainFails(c) ==
  /\ cs[c] = "drain" /\ sock # "up"
  /\ connected' = FALSE /\ why' = IF connected THEN "sender" ELSE why
  /\ Pop(c) /\ Leave(c, "over")
  /\ UNCHANGED <<clientUp, sock, sockets, lock, user, retry, loop, hb, key, received>>

\* Faulty variant: the answer goes to whichever request is pending.
SettlesAny(c, i) == pending[i] # NoCall

\* The entry that the id of an answer leads to.
Settles(c, i) == pending[i] # NoCall /\ i = key[c]

\* A response, the end of a stream or an error message, made for call c, is read:
\* the future that its id leads to is settled, unless it is done.
Receive(c, how) ==
  /\ loop = "read" /\ c \in received
  /\ received' = received \ {c}
  /\ \/ /\ \E i \in Id :
             /\ Settles(c, i)
             /\ pending' = [pending EXCEPT ![i] = NoCall]
             /\ LET d == pending[i] IN
                  IF fut[d] = "wait"
                  THEN fut' = [fut EXCEPT ![d] = how] /\ got' = [got EXCEPT ![d] = c]
                  ELSE UNCHANGED <<fut, got>>
     \/ /\ ~ \E i \in Id : Settles(c, i)
        /\ UNCHANGED <<pending, fut, got>>
  /\ loop' = IF connected THEN "read" ELSE "none"
  /\ UNCHANGED <<flags, sock, sockets, lock, user, retry, hb, handlers, key, cs>>

\* wait_for() returns the result, or raises what the future holds.
Return(c) ==
  /\ cs[c] = "wait" /\ fut[c] \in {"result", "failed"}
  /\ Leave(c, "over")
  /\ IF fut[c] = "failed" THEN Pop(c) ELSE UNCHANGED pending
  /\ UNCHANGED <<flags, sock, sockets, lock, user, retry, loop, hb, key, received>>

\* The timeout: wait_for() cancels the future and waits for that to take effect.
Expire(c) ==
  /\ cs[c] = "wait" /\ fut[c] = "wait"
  /\ cs' = [cs EXCEPT ![c] = "expired"]
  /\ fut' = [fut EXCEPT ![c] = "none"]
  /\ UNCHANGED <<flags, sock, sockets, lock, user, retry, loop, hb, pending, handlers, key, got,
                 received>>

\* Faulty variant: the entry of a request that timed out stays.
TimesOutKeepsEntry(c) ==
  /\ cs[c] = "expired"
  /\ Leave(c, "over")
  /\ UNCHANGED <<flags, sock, sockets, lock, user, retry, loop, hb, pending, key, received>>

TimesOut(c) ==
  /\ cs[c] = "expired"
  /\ Pop(c) /\ Leave(c, "over")
  /\ UNCHANGED <<flags, sock, sockets, lock, user, retry, loop, hb, key, received>>

\* The caller's task is cancelled.  CancelledError passes both except clauses,
\* so the entry stays.
Cancelled(c) ==
  /\ cs[c] = "drain" \/ (cs[c] = "wait" /\ fut[c] = "wait")
  /\ Leave(c, "cancelled")
  /\ UNCHANGED <<flags, sock, sockets, lock, user, retry, loop, hb, pending, key, received>>

-----------------------------------------------------------------------------

Next ==
  \/ \E p \in Proc : ConnectKnown(p) \/ ConnectOpen(p) \/ ConnectOpens(p) \/ ConnectFails(p)
  \/ \E t \in Task : \/ ConnectCall(t) \/ DisconnectCall(t) \/ DisconnectNothing(t)
                     \/ DisconnectClose(t) \/ DisconnectGone(t) \/ DisconnectEnd(t)
  \/ LoopStart \/ LoopEnds \/ ReconnectTest \/ ReconnectWakes \/ HeartbeatEnds \/ BackendGoes
  \/ \E c \in Call : \/ SendRefused(c) \/ Send(c) \/ DrainDone(c) \/ DrainFails(c)
                     \/ Return(c) \/ Expire(c) \/ TimesOut(c) \/ Cancelled(c)
                     \/ \E how \in {"result", "failed"} : Receive(c, how)

Spec == Init /\ [][Next]_vars

-----------------------------------------------------------------------------

Shared(c) == \E d \in Call \ {c} : key[d] = key[c]

(***************************************************************************)
(* Every entry of _pending_requests belongs to a call in progress, or to   *)
(* one whose task was cancelled, and every chunk handler to a stream in    *)
(* progress, whatever lost connections, timeouts and disconnects did.      *)
(***************************************************************************)
TablesExplained ==
  /\ \A i \in Id : pending[i] # NoCall => cs[pending[i]] \in InProgress \cup {"cancelled"}
  /\ \A i \in handlers : cs[i] \in InProgress

(***************************************************************************)
(* A caller whose future is open is found by the answer to its request: no *)
(* disconnect, lost connection or timeout of others removes its entry.     *)
(* Only a call with the same id does: cancel_inference() reuses the id of  *)
(* the request it cancels.                                                 *)
(***************************************************************************)
NoOrphan ==
  \A c \in Call : fut[c] = "wait" /\ cs[c] \in InProgress => pending[key[c]] = c \/ Shared(c)

(***************************************************************************)
(* A call is settled by the answer made for it, also when answers come     *)
(* late, out of order or after a reconnect; again only a shared id crosses *)
(* them.                                                                   *)
(***************************************************************************)
AnswersMatch == \A c \in Call : got[c] \in {NoCall, c} \/ Shared(c)

(***************************************************************************)
(* A loss that the read loop finds is being retried until the connection   *)
(* is back or the attempts are used up, and the flag that admits only one  *)
(* reconnect loop is up exactly while one runs.                            *)
(***************************************************************************)
LossIsRetried ==
  /\ reconnecting <=> rc # "none"
  /\ ~connected /\ why = "reader" => rc # "none"

(***************************************************************************)
(* The client's flag agrees with the transport's: what shows as connected  *)
(* is, or a failed send was the first to notice, which tells nobody; what  *)
(* is connected shows as such, or is being disconnected.                   *)
(***************************************************************************)
ClientKnows ==
  /\ clientUp => connected \/ why = "sender"
  /\ connected => clientUp \/ \E t \in Task : pc[t] \in {"disconnect", "closing"}

(***************************************************************************)
(* A live connection has its heartbeat, also when the previous loop was    *)
(* asleep, had ended or was cancelled when the connection came up, and a   *)
(* task reading it.                                                        *)
(***************************************************************************)
LiveIsServed ==
  connected => /\ loop # "none"
               /\ sock = "up" => hb = "run"

(***************************************************************************)
(* connect() and disconnect(), of the user or of the reconnect loop, never *)
(* overlap in what they await, and none ends with the lock held: else the  *)
(* next disconnect() would wait for ever.                                  *)
(***************************************************************************)
LockCoversAwaits ==
  \A p \in Proc : lock = p <=> At(p, "opening") \/ At(p, "closing")

(***************************************************************************)
(* After disconnect() the client stays disconnected until somebody calls   *)
(* connect().                                                              *)
(***************************************************************************)
StaysDisconnected == (~wanted /\ \A t \in Task : pc[t] = "idle") => ~connected

(***************************************************************************)
(* The lock covers what connect(), disconnect() and the reconnect loop     *)
(* await, is free after every one of their ways out, and the connection    *)
(* they leave behind is read and kept alive.                               *)
(***************************************************************************)
DesktopInv == TypeOK /\ LockCoversAwaits /\ LiveIsServed

(***************************************************************************)
(* A call in progress gets its own answer, and when it ends leaves nothing *)
(* in the tables, through losses, reconnects, timeouts and disconnects;    *)
(* the exceptions are a cancelled task and cancel_inference(), which       *)
(* shares the id of another call.                                          *)
(***************************************************************************)
CallsInv == TablesExplained /\ NoOrphan /\ AnswersMatch

=============================================================================
