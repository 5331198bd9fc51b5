--------------------------- MODULE SdkConnection ---------------------------
(***************************************************************************)
(* One TCP connection of the Python SDK: TransportConnection of            *)
(* bindings/python/ainos/transport.py.  The tasks of one event loop call   *)
(* send_request and send_streaming_request, a background task runs         *)
(* _read_loop, and the pool calls connect and disconnect.  An action is    *)
(* what a task does between two awaits that can suspend it; taking the     *)
(* uncontended _pending_lock does not suspend, and no holder awaits.       *)
(*                                                                         *)
(* The daemon's side is external: it may answer a request it received,     *)
(* send lines nobody asked for, split a line over two reads, stop in the   *)
(* middle of one, and close the connection at any moment.                  *)
(***************************************************************************)
EXTENDS Naturals, Sequences, FiniteSets

CONSTANTS Unary,          \* ids of the calls of send_request
          Streaming,      \* ids of the calls of send_streaming_request
          MaxPending,     \* _MAX_PENDING_REQUESTS
          MaxConnects,    \* bound: calls of connect
          MaxWire         \* bound: fragments on their way to the client

ASSUME ConnectionAssumption ==
  /\ Unary \cap Streaming = {}
  /\ MaxPending \in Nat \ {0} /\ MaxConnects \in Nat /\ MaxWire \in Nat

Req == Unary \cup Streaming

(***************************************************************************)
(* A line is a response (or error) to a request, a stream chunk, the final *)
(* chunk of a stream, or a JSON value that is not an object.  It arrives   *)
(* whole or as a head and a tail; only the last fragment ends with "\n".   *)
(***************************************************************************)
Line == [kind : {"response"}, id : Req] \cup [kind : {"chunk", "final"}, id : Streaming]
          \cup {[kind |-> "value"]}
Fragment == [part : {"whole", "head", "tail"}, line : Line]

Outcome == {"ok", "error", "timeout", "cancelled"}
Waiting == {"drain", "wait", "expired"}

VARIABLES
  connected, closed,    \* _connected, _closed
  opening,              \* a connect() awaits open_connection
  connects,             \* calls of connect so far
  peer,                 \* the daemon's end of the current socket
  wire,                 \* fragments sent and not yet read
  received,             \* requests the daemon may answer on this socket
  owed,                 \* lines of which the daemon has sent the head only
  reader,               \* the task running _read_loop
  buf,                  \* _read_buffer
  pending,              \* keys of _pending_requests
  fut,                  \* the future of each request
  pc,                   \* where each caller is
  disc,                 \* disconnect(): not called, awaiting the reader, done
  torn,                 \* history: a connect() found a partial line in _read_buffer
  garbled,              \* history: a complete line was dropped as unparsable
  late,                 \* history: a connect() finished after disconnect()
  stray,                \* a socket that connect() replaced is still open
  startled              \* history: _read_loop ended on a value that is not an object

vars == <<connected, closed, opening, connects, peer, wire, received, owed,
          reader, buf, pending, fut, pc, disc, torn, garbled, late, stray, startled>>

caller == <<fut, pc>>
history == <<torn, late, startled>>
socket == <<opening, connects, peer, stray, history>>
stream == <<wire, received, owed, buf, garbled>>

TypeOK ==
  /\ connected \in BOOLEAN /\ closed \in BOOLEAN /\ opening \in BOOLEAN
  /\ connects \in 0..MaxConnects
  /\ peer \in {"none", "up", "gone"}
  /\ wire \in Seq(Fragment) /\ Len(wire) <= MaxWire
  /\ received \subseteq Req /\ owed \subseteq Line
  /\ reader \in {"none", "new", "read", "cancel"}
  /\ buf \in Seq(Fragment)
  /\ pending \subseteq Req
  /\ fut \in [Req -> {"none", "wait", "result", "failed", "cancelled"}]
  /\ pc \in [Req -> {"idle"} \cup Waiting \cup Outcome]
  /\ disc \in {"no", "begun", "done"}
  /\ torn \in BOOLEAN /\ garbled \in BOOLEAN /\ late \in BOOLEAN
  /\ stray \in BOOLEAN /\ startled \in BOOLEAN

Init ==
  /\ connected = FALSE /\ closed = FALSE /\ opening = FALSE /\ connects = 0
  /\ peer = "none" /\ wire = <<>> /\ received = {} /\ owed = {}
  /\ reader = "none" /\ buf = <<>>
  /\ pending = {} /\ fut = [r \in Req |-> "none"] /\ pc = [r \in Req |-> "idle"]
  /\ disc = "no" /\ torn = FALSE /\ garbled = FALSE /\ late = FALSE
  /\ stray = FALSE /\ startled = FALSE

(***************************************************************************)
(* connect() and disconnect()                                              *)
(***************************************************************************)
Connect ==
  /\ ~closed /\ ~connected /\ ~opening
  /\ connects < MaxConnects
  /\ opening' = TRUE /\ connects' = connects + 1
  /\ UNCHANGED <<connected, closed, peer, reader, pending, caller, stream, disc, stray, history>>

\* open_connection returns.  The previous reader task is over by then: it was
\* woken by the event that made connected false.  _read_buffer is kept, and the
\* previous writer is replaced without being closed: a socket that nobody reads
\* any more, but that the daemon still has, is left open.
ConnectDone ==
  /\ opening /\ reader = "none"
  /\ opening' = FALSE /\ connected' = TRUE /\ reader' = "new"
  /\ torn' = (torn \/ buf # <<>>)
  /\ late' = (late \/ closed)
  /\ stray' = (stray \/ peer = "up")
  /\ peer' = "up" /\ wire' = <<>> /\ received' = {} /\ owed' = {}
  /\ UNCHANGED <<closed, connects, buf, pending, caller, disc, garbled, startled>>

\* open_connection fails or connect_timeout expires.
ConnectFails ==
  /\ opening
  /\ opening' = FALSE /\ connected' = FALSE
  /\ UNCHANGED <<closed, connects, peer, reader, pending, caller, stream, disc, stray, history>>

\* Faulty variant: the table is replaced and the futures in it are forgotten.
FailNone == pending' = {} /\ UNCHANGED fut

\* Every future still waiting in the table gets an exception; the table is emptied.
FailAll ==
  /\ pending' = {}
  /\ fut' = [r \in Req |-> IF r \in pending /\ fut[r] = "wait" THEN "failed" ELSE fut[r]]

\* disconnect() up to the await of the cancelled reader task.  A task cancelled
\* before its first step never runs its body.
DisconnectBegin ==
  /\ ~closed /\ reader # "none"
  /\ closed' = TRUE /\ connected' = FALSE
  /\ reader' = IF reader = "new" THEN "none" ELSE "cancel"
  /\ disc' = "begun"
  /\ UNCHANGED <<socket, stream, pending, caller>>

\* Faulty variant: the writer is dropped without being closed.
DisconnectKeepsSocket ==
  /\ disc = "begun" /\ reader = "none"
  /\ disc' = "done" /\ FailAll
  /\ UNCHANGED <<connected, closed, socket, stream, reader, pc>>

\* The rest of disconnect(): fail what is pending, close the writer.
DisconnectEnd ==
  /\ disc = "begun" /\ reader = "none"
  /\ disc' = "done" /\ FailAll
  /\ peer' = "none" /\ wire' = <<>> /\ received' = {} /\ owed' = {}
  /\ UNCHANGED <<connected, closed, opening, connects, reader, buf, pc, garbled, stray, history>>

\* Faulty variant: pending requests are failed only when a reader had to be cancelled.
DisconnectKeepsPending ==
  /\ ~closed /\ reader = "none"
  /\ closed' = TRUE /\ connected' = FALSE /\ disc' = "done"
  /\ peer' = "none" /\ wire' = <<>> /\ received' = {} /\ owed' = {}
  /\ UNCHANGED <<opening, connects, reader, buf, pending, fut, pc, garbled, stray, history>>

\* Without a running reader the whole of disconnect() is one step.
DisconnectNow ==
  /\ ~closed /\ reader = "none"
  /\ closed' = TRUE /\ connected' = FALSE /\ disc' = "done" /\ FailAll
  /\ peer' = "none" /\ wire' = <<>> /\ received' = {} /\ owed' = {}
  /\ UNCHANGED <<opening, connects, reader, buf, pc, garbled, stray, history>>

(***************************************************************************)
(* send_request                                                            *)
(***************************************************************************)
Refuse(r) ==
  /\ pc' = [pc EXCEPT ![r] = "error"]
  /\ UNCHANGED <<connected, closed, socket, stream, reader, pending, fut, disc>>

\* TransportClosedError, TransportBufferFullError, or an exception of
\* _send_message before the write ("Not connected", message too large), after
\* which the entry just made is deleted again.
SendRefused(r) ==
  /\ pc[r] = "idle" /\ r \in Unary
  /\ Refuse(r)

Write(r) ==
  /\ pending' = pending \cup {r}
  /\ fut' = [fut EXCEPT ![r] = "wait"]
  /\ pc' = [pc EXCEPT ![r] = "drain"]
  /\ received' = IF peer = "up" THEN received \cup {r} ELSE received
  /\ UNCHANGED <<connected, closed, socket, wire, owed, buf, garbled, reader, disc>>

SendRequest(r) ==
  /\ pc[r] = "idle" /\ r \in Unary
  /\ ~closed /\ connected
  /\ Cardinality(pending) < MaxPending
  /\ Write(r)

\* The call ends and its future is dropped.
Return(r, outcome) ==
  /\ pc' = [pc EXCEPT ![r] = outcome]
  /\ fut' = [fut EXCEPT ![r] = "none"]

\* drain() returns; the caller now waits for the future with a timeout.
DrainDone(r) ==
  /\ pc[r] = "drain" /\ r \in Unary
  /\ pc' = [pc EXCEPT ![r] = "wait"]
  /\ UNCHANGED <<connected, closed, socket, stream, reader, pending, fut, disc>>

\* The socket is gone, drain() raises: _send_message clears _connected and
\* send_request deletes its entry.
DrainFails(r) ==
  /\ pc[r] = "drain" /\ r \in Unary
  /\ peer # "up"
  /\ connected' = FALSE
  /\ pending' = pending \ {r}
  /\ Return(r, "error")
  /\ UNCHANGED <<closed, socket, stream, reader, disc>>

\* Faulty variant: the response itself is stored as the outcome of the call.
FinishRaw(r) ==
  /\ pc[r] = "wait" /\ fut[r] \in {"result", "failed"}
  /\ Return(r, fut[r])
  /\ UNCHANGED <<connected, closed, socket, stream, reader, pending, disc>>

\* wait_for returns the response, or raises the exception set in the future
\* and the entry is deleted if it is still there.
Finish(r) ==
  /\ pc[r] = "wait" /\ fut[r] \in {"result", "failed"}
  /\ Return(r, IF fut[r] = "result" THEN "ok" ELSE "error")
  /\ pending' = IF fut[r] = "result" THEN pending ELSE pending \ {r}
  /\ UNCHANGED <<connected, closed, socket, stream, reader, disc>>

\* Faulty variant: the timeout is only applied while the connection is up.
ExpireConnected(r) ==
  /\ connected
  /\ pc[r] = "wait" /\ fut[r] = "wait"
  /\ fut' = [fut EXCEPT ![r] = "cancelled"]
  /\ pc' = [pc EXCEPT ![r] = "expired"]
  /\ UNCHANGED <<connected, closed, socket, stream, reader, pending, disc>>

\* The timer of wait_for: the future is cancelled, the caller resumes later.
Expire(r) ==
  /\ pc[r] = "wait" /\ fut[r] = "wait"
  /\ fut' = [fut EXCEPT ![r] = "cancelled"]
  /\ pc' = [pc EXCEPT ![r] = "expired"]
  /\ UNCHANGED <<connected, closed, socket, stream, reader, pending, disc>>

\* Faulty variant: the timeout is raised past the cleanup.
CleanupNothing(r) ==
  /\ pc[r] = "expired"
  /\ Return(r, "timeout")
  /\ UNCHANGED <<connected, closed, socket, stream, reader, pending, disc>>

\* except Exception: delete the entry and raise.
Cleanup(r) ==
  /\ pc[r] = "expired"
  /\ pending' = pending \ {r}
  /\ Return(r, "timeout")
  /\ UNCHANGED <<connected, closed, socket, stream, reader, disc>>

\* The calling task is cancelled.  CancelledError is not an Exception, so the
\* entry stays in the table.
Cancel(r) ==
  /\ pc[r] \in {"drain", "wait"} /\ fut[r] = "wait"
  /\ fut' = [fut EXCEPT ![r] = IF pc[r] = "wait" THEN "cancelled" ELSE fut[r]]
  /\ pc' = [pc EXCEPT ![r] = "cancelled"]
  /\ UNCHANGED <<connected, closed, socket, stream, reader, pending, disc>>

(***************************************************************************)
(* send_streaming_request: no limit, no timeout, nothing undone on error   *)
(***************************************************************************)
StreamClosed(s) ==
  /\ pc[s] = "idle" /\ s \in Streaming /\ closed
  /\ Refuse(s)

StreamNotSent(s) ==
  /\ pc[s] = "idle" /\ s \in Streaming /\ ~closed
  /\ pending' = pending \cup {s}
  /\ fut' = [fut EXCEPT ![s] = "wait"]
  /\ pc' = [pc EXCEPT ![s] = "error"]
  /\ UNCHANGED <<connected, closed, socket, stream, reader, disc>>

StreamRequest(s) ==
  /\ pc[s] = "idle" /\ s \in Streaming
  /\ ~closed /\ connected
  /\ Write(s)

StreamDrained(s) ==
  /\ pc[s] = "drain" /\ s \in Streaming
  /\ \/ /\ pc' = [pc EXCEPT ![s] = "ok"] /\ UNCHANGED connected
     \/ /\ peer # "up" /\ connected' = FALSE
        /\ pc' = [pc EXCEPT ![s] = "error"]
  /\ UNCHANGED <<closed, socket, stream, reader, pending, fut, disc>>

(***************************************************************************)
(* _read_loop                                                              *)
(***************************************************************************)
\* Faulty variant: the finally clause leaves _connected alone.
ReaderExitConnected ==
  /\ reader' = "none" /\ FailAll /\ UNCHANGED connected

\* The finally clause.
ReaderExit ==
  /\ reader' = "none" /\ connected' = FALSE /\ FailAll

\* First step of the task.
ReaderStart ==
  /\ reader = "new"
  /\ IF connected /\ ~closed
     THEN /\ reader' = "read" /\ UNCHANGED <<connected, pending, fut>>
     ELSE ReaderExit
  /\ UNCHANGED <<closed, socket, stream, pc, disc>>

\* The lines the buffer holds parse when their fragments belong together.
Parses(frags) ==
  \/ Len(frags) = 1 /\ frags[1].part = "whole"
  \/ /\ Len(frags) = 2 /\ frags[1].part = "head" /\ frags[2].part = "tail"
     /\ frags[1].line = frags[2].line

\* The fragment is appended to _read_buffer; a line is complete at its newline.
Buffered == Append(buf, Head(wire))
Complete == Head(wire).part # "head"

\* _handle_response and _handle_stream: the request whose entry is popped and
\* whose future gets the line.  A chunk that is not final changes nothing, and
\* neither does a line that is empty, too long or of an unknown type.
Answered(line) ==
  IF line.kind \in {"response", "final"} THEN {line.id} \cap pending ELSE {}

\* Faulty variant: bytes after the last newline are not kept.
ReadPartialDropped ==
  /\ reader = "read" /\ wire # <<>> /\ ~Complete
  /\ buf' = <<>> /\ wire' = Tail(wire)
  /\ IF connected THEN UNCHANGED <<reader, connected, pending, fut>> ELSE ReaderExit
  /\ UNCHANGED <<closed, socket, received, owed, garbled, pc, disc>>

\* No newline yet: the fragment waits in _read_buffer.
ReadPartial ==
  /\ reader = "read" /\ wire # <<>> /\ ~Complete
  /\ buf' = Buffered /\ wire' = Tail(wire)
  /\ IF connected THEN UNCHANGED <<reader, connected, pending, fut>> ELSE ReaderExit
  /\ UNCHANGED <<closed, socket, received, owed, garbled, pc, disc>>

\* A line that parses is dispatched, one that does not is logged and skipped.
\* The loop then looks at _connected again, which a failed write may have cleared.
ReadLine ==
  /\ reader = "read" /\ wire # <<>> /\ Complete
  /\ Parses(Buffered) => Head(wire).line.kind # "value"
  /\ buf' = <<>> /\ wire' = Tail(wire)
  /\ LET done == IF Parses(Buffered) THEN Answered(Head(wire).line) ELSE {}
         left == IF connected THEN pending \ done ELSE {}
     IN  /\ pending' = left
         /\ fut' = [r \in Req |-> IF fut[r] # "wait" \/ r \notin pending \/ r \in left THEN fut[r]
                                 ELSE IF r \in done THEN "result" ELSE "failed"]
  /\ reader' = IF connected THEN "read" ELSE "none"
  /\ garbled' = (garbled \/ ~Parses(Buffered))
  /\ UNCHANGED <<connected, closed, socket, received, owed, pc, disc>>

\* data.get on a value that is not an object raises AttributeError: the task ends.
ReadValue ==
  /\ reader = "read" /\ wire # <<>> /\ Complete
  /\ Parses(Buffered) /\ Head(wire).line.kind = "value"
  /\ buf' = <<>> /\ wire' = Tail(wire)
  /\ ReaderExit /\ startled' = TRUE
  /\ UNCHANGED <<closed, opening, connects, peer, stray, torn, late, received, owed, garbled, pc, disc>>

\* End of file or a read error.
ReadEnd ==
  /\ reader = "read" /\ wire = <<>> /\ peer = "gone"
  /\ ReaderExit
  /\ UNCHANGED <<closed, socket, stream, pc, disc>>

\* CancelledError at the await of read().
ReaderCancelled ==
  /\ reader = "cancel"
  /\ ReaderExit
  /\ UNCHANGED <<closed, socket, stream, pc, disc>>

(***************************************************************************)
(* The daemon and the network                                              *)
(***************************************************************************)
PeerSends ==
  /\ peer = "up" /\ Len(wire) < MaxWire /\ owed = {}
  /\ \E l \in {m \in Line : m.kind = "value" \/ m.id \in received}, p \in {"whole", "head"} :
       /\ wire' = Append(wire, [part |-> p, line |-> l])
       /\ owed' = IF p = "head" THEN {l} ELSE {}
       /\ received' = IF l.kind \in {"response", "final"} THEN received \ {l.id} ELSE received
  /\ UNCHANGED <<connected, closed, socket, buf, garbled, reader, pending, caller, disc>>

PeerSendsRest ==
  /\ peer = "up" /\ Len(wire) < MaxWire
  /\ \E l \in owed : wire' = Append(wire, [part |-> "tail", line |-> l])
  /\ owed' = {}
  /\ UNCHANGED <<connected, closed, socket, received, buf, garbled, reader, pending, caller, disc>>

\* The daemon closes the connection, or it breaks.
PeerGoes ==
  /\ peer = "up"
  /\ peer' = "gone" /\ received' = {} /\ owed' = {}
  /\ UNCHANGED <<connected, closed, opening, connects, wire, buf, garbled, reader, pending,
                 caller, disc, stray, history>>

\* The daemon closes a replaced socket, or the garbage collector does.
StrayGoes ==
  /\ stray
  /\ stray' = FALSE
  /\ UNCHANGED <<connected, closed, opening, connects, peer, history, stream, reader, pending, caller, disc>>

Next ==
  \/ Connect \/ ConnectDone \/ ConnectFails
  \/ DisconnectBegin \/ DisconnectEnd \/ DisconnectNow
  \/ \E r \in Unary : \/ SendRefused(r) \/ SendRequest(r) \/ DrainDone(r) \/ DrainFails(r)
                       \/ Finish(r) \/ Expire(r) \/ Cleanup(r) \/ Cancel(r)
  \/ \E s \in Streaming : StreamClosed(s) \/ StreamNotSent(s) \/ StreamRequest(s) \/ StreamDrained(s)
  \/ ReaderStart \/ ReadPartial \/ ReadLine \/ ReadValue \/ ReadEnd \/ ReaderCancelled
  \/ PeerSends \/ PeerSendsRest \/ PeerGoes \/ StrayGoes

Spec == Init /\ [][Next]_vars

\* The event loop runs every task that is ready and fires every timer.
FairSpec ==
  Spec /\ \A r \in Unary : WF_vars(Finish(r)) /\ WF_vars(Expire(r)) /\ WF_vars(Cleanup(r))

(***************************************************************************)
(* Properties                                                              *)
(***************************************************************************)
\* A caller whose future is not set is found in _pending_requests: whoever ends
\* the connection (reader or disconnect) or answers will wake it.
NoDeafWaiter ==
  \A r \in Unary : pc[r] \in {"drain", "wait"} /\ fut[r] = "wait" => r \in pending

\* An entry whose caller has left send_request belongs to a cancelled caller (the
\* cleanup catches Exception, not CancelledError) or to a streaming request;
\* timeouts, lost connections and answers leave nothing behind.
LeftoversExplained ==
  \A r \in pending \cap Unary : pc[r] \in Waiting \cup {"cancelled"}

\* A complete line of the daemon is thrown away as unparsable only if a connection
\* broke inside a line and connect() reused the object with the old _read_buffer.
GarbledOnlyAfterTear == garbled => torn

\* When disconnect() has returned nobody waits for an answer and nothing is pending.
ClosedSettles ==
  disc = "done" => /\ pending = {}
                   /\ \A r \in Unary : pc[r] \in {"drain", "wait"} => fut[r] # "wait"

\* A connection that reports itself connected has a reader to receive answers and
\* to notice the end of the connection.
ConnectedHasReader == connected /\ ~closed => reader \in {"new", "read"}

\* disconnect() closes the socket there is, but for one that a connect() opens
\* after it; and a socket is replaced without being closed, which disconnect()
\* cannot make up for, only after _read_loop ended on a value that is not an object.
SocketClosed ==
  /\ disc = "done" /\ peer = "up" => late
  /\ stray => startled

\* A request that waits for its answer ends: with the answer, an error, a timeout
\* or the cancellation of its task.
WaitEnds == \A r \in Unary : pc[r] = "wait" ~> pc[r] \in Outcome

(***************************************************************************)
(* The flags of a TransportConnection tell the truth over connect(),       *)
(* disconnect() and a lost connection: a connected one is being read, a    *)
(* closed one has settled its callers and closed its socket, no socket is  *)
(* left behind by a connect() but after an unasked value, and no line is   *)
(* spoiled but by a torn one.                                              *)
(***************************************************************************)
ConnectionInv == TypeOK /\ GarbledOnlyAfterTear /\ ClosedSettles /\ ConnectedHasReader /\ SocketClosed

=============================================================================
