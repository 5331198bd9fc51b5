------------------------ MODULE SdkConnectionProofs ------------------------
(***************************************************************************)
(* Theorems about the TCP connection of the Python SDK, for every number   *)
(* of requests, connects and fragments.  The inductive invariant has three *)
(* parts: the callers and their futures, the flags of the connection, and  *)
(* the bytes between the daemon and the reader.                            *)
(***************************************************************************)
EXTENDS SdkConnection, SequenceTheorems, TLAPS

CallersTyped ==
  /\ pending \subseteq Req
  /\ fut \in [Req -> {"none", "wait", "result", "failed", "cancelled"}]
  /\ pc \in [Req -> {"idle"} \cup Waiting \cup Outcome]

\* A future that holds its answer is out of the table: Finish leaves no entry.
AnsweredIsTaken == \A r \in Unary : fut[r] = "result" => r \notin pending

CallersInv == CallersTyped /\ NoDeafWaiter /\ LeftoversExplained /\ AnsweredIsTaken

FlagsTyped ==
  /\ connected \in BOOLEAN /\ closed \in BOOLEAN /\ opening \in BOOLEAN
  /\ connects \in 0..MaxConnects
  /\ peer \in {"none", "up", "gone"}
  /\ reader \in {"none", "new", "read", "cancel"}
  /\ disc \in {"no", "begun", "done"}
  /\ torn \in BOOLEAN /\ late \in BOOLEAN /\ stray \in BOOLEAN /\ startled \in BOOLEAN

\* disconnect() sets _closed before anything else, and nothing clears it.
DisconnectingIsClosed == disc # "no" => closed

\* While the object is not connected, or connect() is at work, the daemon has the
\* last socket still open only if the reader ended on an unasked value; and only
\* disconnect() cancels the reader.
OpenIsConnected ==
  /\ peer = "up" /\ (opening \/ (~closed /\ ~connected)) => startled
  /\ reader = "cancel" => closed

FlagsInv ==
  FlagsTyped /\ DisconnectingIsClosed /\ ClosedSettles /\ ConnectedHasReader /\ SocketClosed /\ OpenIsConnected

StreamTyped ==
  /\ wire \in Seq(Fragment) /\ Len(wire) <= MaxWire
  /\ received \subseteq Req /\ owed \subseteq Line
  /\ buf \in Seq(Fragment)
  /\ garbled \in BOOLEAN

\* Two fragments that follow each other fit together: a tail comes after the
\* head of its line and nowhere else.
Fits(f, g) == IF f.part = "head" THEN g.part = "tail" /\ g.line = f.line ELSE g.part # "tail"

(***************************************************************************)
(* Buffer, wire and what the daemon still owes form whole lines, unless a  *)
(* connection was opened with a partial line in the buffer.                *)
(***************************************************************************)
LinesFit ==
  /\ buf = <<>> \/ (Len(buf) = 1 /\ buf[1].part = "head")
  /\ wire # <<>> => IF buf = <<>> THEN wire[1].part # "tail" ELSE Fits(buf[1], wire[1])
  /\ \A i \in 1..(Len(wire) - 1) : Fits(wire[i], wire[i + 1])
  /\ peer = "up" =>
       owed = IF wire # <<>>
              THEN IF wire[Len(wire)].part = "head" THEN {wire[Len(wire)].line} ELSE {}
              ELSE IF buf # <<>> THEN {buf[1].line} ELSE {}

StreamInv == StreamTyped /\ GarbledOnlyAfterTear /\ (torn \/ LinesFit)

\* The invariant that is inductive.
IInv == CallersInv /\ FlagsInv /\ StreamInv

\* It is stronger than what the connection promises.
LEMMA IInvImplies == IInv => ConnectionInv /\ NoDeafWaiter /\ LeftoversExplained
  BY DEF IInv, CallersInv, FlagsInv, StreamInv, ConnectionInv, TypeOK, CallersTyped, FlagsTyped,
         StreamTyped

-----------------------------------------------------------------------------
(* The callers *)

\* Emptying the table wakes every caller in it.
LEMMA FailAllWakes ==
  ASSUME CallersInv, FailAll, UNCHANGED pc
  PROVE  CallersInv'
  BY DEF CallersInv, CallersTyped, NoDeafWaiter, LeftoversExplained, AnsweredIsTaken, FailAll, Req

\* Each step of a caller, of the reader and of the others keeps the callers'
\* part of the invariant.
LEMMA CallersStep ==
  ASSUME IInv, Next
  PROVE  CallersInv'
<1> DEFINE FutValue == {"none", "wait", "result", "failed", "cancelled"}
<1>1. /\ CallersInv /\ Unary \subseteq Req /\ Streaming \subseteq Req /\ Unary \cap Streaming = {}
      /\ pending \subseteq Req /\ fut \in [Req -> FutValue]
      /\ pc \in [Req -> {"idle"} \cup Waiting \cup Outcome]
  BY ConnectionAssumption DEF IInv, CallersInv, CallersTyped, Req
<1>2. ASSUME UNCHANGED <<pending, fut, pc>> PROVE CallersInv'
  BY <1>1, <1>2 DEF CallersInv, CallersTyped, NoDeafWaiter, LeftoversExplained, AnsweredIsTaken
<1>3. ASSUME Connect \/ ConnectDone \/ ConnectFails \/ DisconnectBegin
             \/ PeerSends \/ PeerSendsRest \/ PeerGoes \/ StrayGoes
      PROVE  CallersInv'
  BY <1>2, <1>3 DEF Connect, ConnectDone, ConnectFails, DisconnectBegin, PeerSends, PeerSendsRest,
                    PeerGoes, StrayGoes, caller
<1>4. ASSUME DisconnectEnd \/ DisconnectNow \/ ReaderStart \/ ReadPartial \/ ReadValue
             \/ ReadEnd \/ ReaderCancelled
      PROVE  CallersInv'
  <2>1. UNCHANGED pc /\ (FailAll \/ UNCHANGED <<pending, fut>>)
    BY <1>4 DEF DisconnectEnd, DisconnectNow, ReaderStart, ReadPartial, ReadValue, ReadEnd,
                ReaderCancelled, ReaderExit
  <2> QED  BY <1>1, <1>2, <2>1, FailAllWakes
<1>5. CASE ReadLine
  <2> DEFINE done == IF Parses(Buffered) THEN Answered(Head(wire).line) ELSE {}
             left == IF connected THEN pending \ done ELSE {}
  <2>1. /\ left \subseteq pending \ done /\ pending' = left
        /\ fut' = [r \in Req |-> IF fut[r] # "wait" \/ r \notin pending \/ r \in left THEN fut[r]
                                ELSE IF r \in done THEN "result" ELSE "failed"]
        /\ UNCHANGED pc
    BY <1>5 DEF ReadLine
  <2> HIDE DEF done, left
  <2> QED
    BY <1>1, <2>1 DEF CallersInv, CallersTyped, NoDeafWaiter, LeftoversExplained, AnsweredIsTaken
<1>6. ASSUME NEW r \in Unary, SendRefused(r) \/ DrainDone(r) \/ Expire(r) \/ Cancel(r)
      PROVE  CallersInv'
  BY <1>1, <1>6 DEF SendRefused, Refuse, DrainDone, Expire, Cancel, Waiting, Outcome,
       CallersInv, CallersTyped, NoDeafWaiter, LeftoversExplained, AnsweredIsTaken
<1>7. ASSUME NEW r \in Unary, SendRequest(r)
      PROVE  CallersInv'
  BY <1>1, <1>7 DEF SendRequest, Write, Waiting, Outcome,
       CallersInv, CallersTyped, NoDeafWaiter, LeftoversExplained, AnsweredIsTaken
<1>8. ASSUME NEW r \in Unary, DrainFails(r) \/ Finish(r) \/ Cleanup(r)
      PROVE  CallersInv'
  BY <1>1, <1>8 DEF DrainFails, Finish, Cleanup, Return, Waiting, Outcome,
       CallersInv, CallersTyped, NoDeafWaiter, LeftoversExplained, AnsweredIsTaken
<1>9. ASSUME NEW s \in Streaming,
             StreamClosed(s) \/ StreamNotSent(s) \/ StreamRequest(s) \/ StreamDrained(s)
      PROVE  CallersInv'
  BY <1>1, <1>9 DEF StreamClosed, Refuse, StreamNotSent, StreamRequest, Write, StreamDrained, Waiting, Outcome,
       CallersInv, CallersTyped, NoDeafWaiter, LeftoversExplained, AnsweredIsTaken
<1> QED
  BY <1>3, <1>4, <1>5, <1>6, <1>7, <1>8, <1>9 DEF Next

-----------------------------------------------------------------------------
(* The flags *)

\* Each step keeps the flags' part: once disconnect() has returned, nobody can
\* enter the table again.
LEMMA FlagsStep ==
  ASSUME IInv, CallersInv', Next
  PROVE  FlagsInv'
<1>1. FlagsInv /\ CallersInv /\ MaxConnects \in Nat
  BY ConnectionAssumption DEF IInv
<1>2. ASSUME DisconnectingIsClosed', disc' = "done" => pending' = {} PROVE ClosedSettles'
  BY <1>2 DEF CallersInv, NoDeafWaiter, ClosedSettles
<1> USE <1>1 DEF FlagsInv, FlagsTyped, DisconnectingIsClosed, ConnectedHasReader, SocketClosed, OpenIsConnected
<1>3. ASSUME UNCHANGED <<connected, closed, socket, reader, disc>>,
             pending' \subseteq pending \/ ~closed
      PROVE  FlagsInv'
  BY <1>2, <1>3 DEF socket, history, ClosedSettles
<1>4. ASSUME Connect \/ ConnectDone \/ ConnectFails PROVE FlagsInv'
  <2>1. ClosedSettles' /\ DisconnectingIsClosed'
    BY <1>2, <1>4 DEF Connect, ConnectDone, ConnectFails, ClosedSettles
  <2>2. CASE Connect
    BY <2>1, <2>2 DEF Connect, history
  <2>3. CASE ConnectDone
    <3>1. /\ connected' = TRUE /\ opening' = FALSE /\ reader' = "new" /\ peer' = "up"
          /\ closed' = closed /\ disc' = disc /\ connects' = connects
          /\ torn' \in BOOLEAN /\ late' \in BOOLEAN /\ startled' = startled
      BY <2>3 DEF ConnectDone
    <3>2. closed => late'
      BY <2>3 DEF ConnectDone
    <3>3. stray' \in BOOLEAN /\ (stray' => startled')
      BY <2>3, <3>1 DEF ConnectDone
    <3> QED  BY <2>1, <3>1, <3>2, <3>3
  <2>4. CASE ConnectFails
    BY <2>1, <2>4 DEF ConnectFails, history
  <2> QED  BY <1>4, <2>2, <2>3, <2>4
<1>5. ASSUME DisconnectBegin \/ DisconnectEnd \/ DisconnectNow PROVE FlagsInv'
  <2>1. CASE DisconnectBegin
    BY <1>2, <2>1 DEF DisconnectBegin, socket, history, ClosedSettles
  <2>2. CASE DisconnectEnd
    BY <1>2, <2>2 DEF DisconnectEnd, FailAll, history, ClosedSettles
  <2>3. CASE DisconnectNow
    BY <1>2, <2>3 DEF DisconnectNow, FailAll, history, ClosedSettles
  <2> QED  BY <1>5, <2>1, <2>2, <2>3
<1>6. ASSUME NEW r \in Unary, SendRefused(r) \/ SendRequest(r) \/ DrainDone(r)
               \/ Finish(r) \/ Expire(r) \/ Cleanup(r) \/ Cancel(r)
      PROVE  FlagsInv'
  BY <1>3, <1>6 DEF SendRefused, Refuse, SendRequest, Write, DrainDone, Finish, Expire, Cleanup, Cancel
<1>7. ASSUME NEW r \in Unary, DrainFails(r) PROVE FlagsInv'
  BY <1>2, <1>7 DEF DrainFails, socket, history, ClosedSettles
<1>8. ASSUME NEW s \in Streaming, StreamClosed(s) \/ StreamNotSent(s) \/ StreamRequest(s)
      PROVE  FlagsInv'
  BY <1>3, <1>8 DEF StreamClosed, Refuse, StreamNotSent, StreamRequest, Write
<1>9. ASSUME NEW s \in Streaming, StreamDrained(s) PROVE FlagsInv'
  <2>1. /\ UNCHANGED <<closed, opening, connects, peer, late, torn, stray, startled, reader, disc, pending>>
        /\ connected' = connected \/ (connected' = FALSE /\ peer # "up")
    BY <1>9 DEF StreamDrained, socket, history
  <2>2. ClosedSettles'
    BY <1>2, <2>1 DEF ClosedSettles
  <2>3. CASE connected' = connected
    BY <2>1, <2>2, <2>3
  <2>4. CASE connected' = FALSE /\ peer # "up"
    BY <2>1, <2>2, <2>4
  <2> QED  BY <2>1, <2>3, <2>4
<1>10. ASSUME ReaderStart \/ ReadPartial \/ ReadValue \/ ReadEnd \/ ReaderCancelled PROVE FlagsInv'
  <2>1. CASE ReaderStart \/ ReadPartial
    <3>1. /\ UNCHANGED <<closed, disc, opening, connects, peer, stray, torn, late, startled>>
          /\ pending' \subseteq pending
      BY <2>1 DEF ReaderStart, ReadPartial, ReaderExit, FailAll, socket, history
    <3>2. /\ connected' \in BOOLEAN /\ (connected' => connected /\ (reader' = reader \/ reader' = "read"))
          /\ reader' \in {"none", "read"} /\ (~connected' => ~connected \/ closed)
      BY <2>1 DEF ReaderStart, ReadPartial, ReaderExit
    <3> QED  BY <1>2, <3>1, <3>2 DEF ClosedSettles
  <2>2. CASE ReadValue
    BY <1>2, <2>2 DEF ReadValue, ReaderExit, FailAll, ClosedSettles
  <2>3. CASE ReadEnd \/ ReaderCancelled
    <3>1. /\ UNCHANGED <<closed, disc, opening, connects, peer, stray, torn, late, startled>>
          /\ pending' = {} /\ reader' = "none" /\ connected' = FALSE /\ (peer = "gone" \/ closed)
      BY <2>3 DEF ReadEnd, ReaderCancelled, ReaderExit, FailAll, socket, history
    <3> QED  BY <1>2, <3>1 DEF ClosedSettles
  <2> QED  BY <1>10, <2>1, <2>2, <2>3
<1>11. CASE ReadLine
  <2>1. pending' \subseteq pending
    BY <1>11 DEF ReadLine
  <2> QED  BY <1>2, <1>11, <2>1 DEF ReadLine, socket, history, ClosedSettles
<1>12. ASSUME PeerSends \/ PeerSendsRest \/ PeerGoes \/ StrayGoes PROVE FlagsInv'
  <2>1. CASE PeerSends \/ PeerSendsRest
    BY <1>2, <2>1 DEF PeerSends, PeerSendsRest, socket, history, ClosedSettles
  <2>2. CASE PeerGoes \/ StrayGoes
    <3>1. /\ UNCHANGED <<connected, closed, disc, opening, connects, torn, late, startled, reader, pending>>
          /\ peer' \in {peer, "gone"} /\ stray' \in BOOLEAN /\ (stray' => stray)
      <4>1. CASE PeerGoes
        BY <4>1 DEF PeerGoes, history
      <4>2. CASE StrayGoes
        BY <4>2 DEF StrayGoes, history
      <4> QED  BY <2>2, <4>1, <4>2
    <3> QED  BY <1>2, <3>1 DEF ClosedSettles
  <2> QED  BY <1>12, <2>1, <2>2
<1> QED
  BY <1>4, <1>5, <1>6, <1>7, <1>8, <1>9, <1>10, <1>11, <1>12 DEF Next

-----------------------------------------------------------------------------
(* The bytes *)

\* What is left of the wire when its first fragment has been read.
LEMMA TailFacts ==
  ASSUME StreamTyped, wire # <<>>
  PROVE  /\ Tail(wire) \in Seq(Fragment) /\ Len(Tail(wire)) = Len(wire) - 1
         /\ Len(wire) \in Nat /\ Len(wire) > 0 /\ Head(wire) = wire[1] /\ Head(wire) \in Fragment
         /\ Append(buf, Head(wire)) \in Seq(Fragment)
         /\ \A i \in 1..(Len(wire) - 1) : Tail(wire)[i] = wire[i + 1]
         /\ Tail(wire) = <<>> <=> Len(wire) = 1
<1>1. wire \in Seq(Fragment) /\ buf \in Seq(Fragment)
  BY DEF StreamTyped
<1>2. Len(wire) \in Nat /\ Len(wire) > 0 /\ Head(wire) = wire[1] /\ Head(wire) \in Fragment
  BY <1>1
<1>3. Tail(wire) \in Seq(Fragment) /\ Len(Tail(wire)) = Len(wire) - 1
  BY <1>1, <1>2
<1>4. \A i \in 1..(Len(wire) - 1) : Tail(wire)[i] = wire[i + 1]
  BY <1>1, <1>2
<1>5. Append(buf, Head(wire)) \in Seq(Fragment)
  BY <1>1, <1>2
<1>6. Tail(wire) = <<>> <=> Len(wire) = 1
  <2>1. /\ Tail(wire) = <<>> => Len(Tail(wire)) = 0
        /\ Tail(wire) # <<>> => Len(Tail(wire)) \in Nat \ {0}
    BY <1>3, EmptySeq
  <2> QED  BY <1>2, <1>3, <2>1
<1> QED
  BY <1>2, <1>3, <1>4, <1>5, <1>6

\* The first fragment of tidy lines is a head that the empty buffer takes, or
\* it completes a line.
LEMMA FirstFits ==
  ASSUME StreamTyped, LinesFit, wire # <<>>
  PROVE  /\ ~Complete => buf = <<>> /\ wire[1].part = "head"
         /\ Complete => Parses(Buffered) /\ wire[1].part # "head"
<1>1. Head(wire) = wire[1] /\ wire[1] \in Fragment
  BY TailFacts
<1>2. wire[1].part \in {"whole", "head", "tail"}
  BY <1>1 DEF Fragment
<1>3. CASE buf = <<>>
  <2>1. Len(Buffered) = 1 /\ Buffered[1] = wire[1]
    BY <1>1, <1>3 DEF Buffered
  <2> QED  BY <1>1, <1>2, <1>3, <2>1 DEF LinesFit, Complete, Parses
<1>4. CASE buf # <<>>
  <2>1. Len(buf) = 1 /\ buf[1].part = "head" /\ Fits(buf[1], wire[1])
    BY <1>4 DEF LinesFit
  <2>2. Len(Buffered) = 2 /\ Buffered[1] = buf[1] /\ Buffered[2] = wire[1]
    <3>1. buf \in Seq(Fragment) /\ Buffered = Append(buf, wire[1])
      BY <1>1 DEF Buffered, StreamTyped
    <3>2. /\ Len(Append(buf, wire[1])) = Len(buf) + 1
          /\ \A i \in 1..Len(buf) : Append(buf, wire[1])[i] = buf[i]
          /\ Append(buf, wire[1])[Len(buf) + 1] = wire[1]
      BY <1>1, <3>1, AppendProperties
    <3> QED  BY <2>1, <3>1, <3>2
  <2> QED  BY <1>1, <2>1, <2>2 DEF Complete, Parses, Fits
<1> QED
  BY <1>3, <1>4

\* Reading the first fragment into the buffer, or out of it as a line, leaves
\* tidy lines tidy.
LEMMA ReadKeepsLines ==
  ASSUME StreamTyped, LinesFit, wire # <<>>, wire' = Tail(wire), UNCHANGED <<peer, owed>>,
         buf' = IF Complete THEN <<>> ELSE Buffered
  PROVE  LinesFit'
<1>1. /\ Len(wire') = Len(wire) - 1 /\ Len(wire) \in Nat /\ Len(wire) > 0
      /\ \A i \in 1..(Len(wire) - 1) : wire'[i] = wire[i + 1]
      /\ wire' = <<>> <=> Len(wire) = 1
      /\ Head(wire) = wire[1] /\ Head(wire) \in Fragment
  BY TailFacts
<1>2. \A i \in 1..(Len(wire) - 1) : Fits(wire[i], wire[i + 1])
  BY DEF LinesFit
<1>3. \A i \in 1..(Len(wire') - 1) : Fits(wire'[i], wire'[i + 1])
  BY <1>1, <1>2
<1>4. wire' # <<>> => Len(wire) >= 2 /\ wire'[1] = wire[2] /\ Fits(wire[1], wire[2])
                      /\ wire'[Len(wire')] = wire[Len(wire)]
  BY <1>1, <1>2
<1>5. peer = "up" => owed = IF wire[Len(wire)].part = "head" THEN {wire[Len(wire)].line} ELSE {}
  BY DEF LinesFit
<1>6. CASE Complete
  <2>1. buf' = <<>> /\ wire[1].part # "head"
    BY <1>6, FirstFits
  <2>2. wire' # <<>> => wire'[1].part # "tail"
    BY <1>4, <2>1 DEF Fits
  <2>3. peer = "up" /\ wire' = <<>> => owed = {}
    BY <1>1, <1>5, <2>1
  <2> QED  BY <1>3, <1>4, <1>5, <2>1, <2>2, <2>3 DEF LinesFit, Fits
<1>7. CASE ~Complete
  <2>1. buf = <<>> /\ wire[1].part = "head"
    BY <1>7, FirstFits
  <2>2. buf' = <<wire[1]>>
    BY <1>1, <1>7, <2>1 DEF Buffered
  <2>3. Len(buf') = 1 /\ buf'[1] = wire[1] /\ buf' # <<>>
    BY <2>2
  <2>4. wire' # <<>> => Fits(buf'[1], wire'[1])
    BY <1>4, <2>3
  <2>5. peer = "up" /\ wire' = <<>> => owed = {buf'[1].line}
    BY <1>1, <1>5, <2>1, <2>3
  <2> QED  BY <1>3, <1>4, <1>5, <2>1, <2>3, <2>4, <2>5 DEF LinesFit, Fits
<1> QED
  BY <1>6, <1>7

\* What the daemon appends continues the last line.
LEMMA AppendKeepsLines ==
  ASSUME StreamTyped, LinesFit, peer = "up", NEW f \in Fragment, wire' = Append(wire, f),
         UNCHANGED <<peer, buf>>,
         IF owed = {} THEN f.part # "tail" ELSE f.part = "tail" /\ f.line \in owed,
         owed' = IF f.part = "head" THEN {f.line} ELSE {}
  PROVE  LinesFit'
<1>1. /\ Len(wire') = Len(wire) + 1 /\ Len(wire) \in Nat /\ wire' # <<>>
      /\ \A i \in 1..Len(wire) : wire'[i] = wire[i]
      /\ wire'[Len(wire) + 1] = f /\ (wire = <<>> <=> Len(wire) = 0)
  BY DEF StreamTyped
<1>2. CASE wire = <<>>
  <2>1. wire'[1] = f /\ Len(wire') = 1
    BY <1>1, <1>2
  <2>2. IF buf = <<>> THEN f.part # "tail" ELSE Fits(buf[1], f)
    BY <1>2 DEF LinesFit, Fits
  <2> QED  BY <1>1, <2>1, <2>2 DEF LinesFit, Fits
<1>3. CASE wire # <<>>
  <2>1. wire'[1] = wire[1] /\ Len(wire) >= 1
    BY <1>1, <1>3
  <2>2. Fits(wire[Len(wire)], f)
    BY <1>3 DEF LinesFit, Fits
  <2>3. \A i \in 1..(Len(wire') - 1) : Fits(wire'[i], wire'[i + 1])
    <3> SUFFICES ASSUME NEW i \in 1..(Len(wire') - 1) PROVE Fits(wire'[i], wire'[i + 1])
      OBVIOUS
    <3>1. CASE i = Len(wire)
      BY <1>1, <2>1, <2>2, <3>1
    <3>2. CASE i # Len(wire)
      <4>1. i \in 1..(Len(wire) - 1) /\ wire'[i] = wire[i] /\ wire'[i + 1] = wire[i + 1]
        BY <1>1, <2>1, <3>2
      <4> QED  BY <4>1 DEF LinesFit
    <3> QED  BY <3>1, <3>2
  <2> QED  BY <1>1, <1>3, <2>1, <2>3 DEF LinesFit, Fits
<1> QED
  BY <1>2, <1>3

\* Each step keeps the part about the bytes.
LEMMA StreamStep ==
  ASSUME IInv, Next
  PROVE  StreamInv'
<1>1. StreamInv /\ StreamTyped /\ torn \in BOOLEAN /\ garbled \in BOOLEAN /\ (garbled => torn)
      /\ MaxWire \in Nat
  BY ConnectionAssumption DEF IInv, StreamInv, StreamTyped, FlagsInv, FlagsTyped, GarbledOnlyAfterTear
<1>2. ASSUME UNCHANGED <<wire, owed, buf, garbled, peer, torn>>, received' \subseteq Req
      PROVE  StreamInv'
  BY <1>1, <1>2 DEF StreamInv, StreamTyped, GarbledOnlyAfterTear, LinesFit, Fits
<1>3. ASSUME Connect \/ ConnectFails \/ DisconnectBegin \/ ReaderStart \/ ReadEnd \/ ReaderCancelled \/ StrayGoes
      PROVE  StreamInv'
  BY <1>1, <1>2, <1>3 DEF Connect, ConnectFails, DisconnectBegin, ReaderStart, ReadEnd, ReaderCancelled, StrayGoes,
                          stream, socket, history, StreamTyped
<1>4. ASSUME NEW r \in Unary, SendRefused(r) \/ SendRequest(r) \/ DrainDone(r) \/ DrainFails(r)
               \/ Finish(r) \/ Expire(r) \/ Cleanup(r) \/ Cancel(r)
      PROVE  StreamInv'
  BY <1>1, <1>2, <1>4 DEF SendRefused, Refuse, SendRequest, Write, DrainDone, DrainFails, Finish, Expire,
                          Cleanup, Cancel, stream, socket, history, StreamTyped, Req
<1>5. ASSUME NEW s \in Streaming, StreamClosed(s) \/ StreamNotSent(s) \/ StreamRequest(s) \/ StreamDrained(s)
      PROVE  StreamInv'
  BY <1>1, <1>2, <1>5 DEF StreamClosed, Refuse, StreamNotSent, StreamRequest, Write, StreamDrained,
                          stream, socket, history, StreamTyped, Req
<1>6. CASE ConnectDone
  <2>1. /\ wire' = <<>> /\ received' = {} /\ owed' = {} /\ buf' = buf /\ garbled' = garbled
        /\ torn => torn'
        /\ buf # <<>> => torn'
    BY <1>6 DEF ConnectDone
  <2>2. StreamTyped'
    BY <1>1, <2>1 DEF StreamTyped
  <2>3. buf = <<>> => LinesFit'
    BY <2>1 DEF LinesFit, Fits
  <2> QED  BY <1>1, <2>1, <2>2, <2>3 DEF StreamInv, GarbledOnlyAfterTear
<1>7. ASSUME DisconnectEnd \/ DisconnectNow PROVE StreamInv'
  <2>1. /\ wire' = <<>> /\ received' = {} /\ owed' = {} /\ buf' = buf /\ garbled' = garbled
        /\ torn' = torn /\ peer' = "none"
    BY <1>7 DEF DisconnectEnd, DisconnectNow, history
  <2>2. StreamTyped'
    BY <1>1, <2>1 DEF StreamTyped
  <2>3. LinesFit => LinesFit'
    BY <2>1 DEF LinesFit, Fits
  <2> QED  BY <1>1, <2>1, <2>2, <2>3 DEF StreamInv, GarbledOnlyAfterTear
<1>8. ASSUME ReadPartial \/ ReadLine \/ ReadValue PROVE StreamInv'
  <2>1. /\ wire # <<>> /\ wire' = Tail(wire) /\ UNCHANGED <<peer, owed, received, torn>>
        /\ buf' = IF Complete THEN <<>> ELSE Buffered
        /\ \/ garbled' = garbled
           \/ Complete /\ garbled' = (garbled \/ ~Parses(Buffered))
    <3>1. CASE ReadPartial
      BY <3>1 DEF ReadPartial, socket, history
    <3>2. CASE ReadLine
      BY <3>2, Zenon DEF ReadLine, socket, history
    <3>3. CASE ReadValue
      BY <3>3 DEF ReadValue, socket
    <3> QED  BY <1>8, <3>1, <3>2, <3>3
  <2>2. garbled' \in BOOLEAN /\ (LinesFit => garbled' = garbled) /\ (garbled => garbled')
    <3>1. LinesFit => (Complete => Parses(Buffered))
      BY <1>1, <2>1, FirstFits
    <3>2. CASE garbled' = garbled
      BY <1>1, <3>2
    <3>3. CASE Complete /\ garbled' = (garbled \/ ~Parses(Buffered))
      BY <1>1, <3>1, <3>3
    <3> QED  BY <2>1, <3>2, <3>3
  <2>3. StreamTyped'
    <3>1. wire' \in Seq(Fragment) /\ Len(wire') <= MaxWire /\ buf' \in Seq(Fragment)
      BY <1>1, <2>1, TailFacts DEF StreamTyped, Buffered
    <3> QED  BY <1>1, <2>1, <2>2, <3>1 DEF StreamTyped
  <2>4. LinesFit => LinesFit'
    BY <1>1, <2>1, ReadKeepsLines
  <2>5. torn \/ LinesFit
    BY <1>1 DEF StreamInv
  <2>6. garbled' => torn'
    BY <1>1, <2>1, <2>2, <2>5
  <2> QED  BY <2>1, <2>3, <2>4, <2>5, <2>6 DEF StreamInv, GarbledOnlyAfterTear
<1>9. CASE PeerSends
  <2>1. PICK l \in Line, p \in {"whole", "head"} :
          /\ wire' = Append(wire, [part |-> p, line |-> l])
          /\ owed' = IF p = "head" THEN {l} ELSE {}
          /\ received' \subseteq received
    BY <1>9 DEF PeerSends
  <2>2. peer = "up" /\ owed = {} /\ UNCHANGED <<peer, buf, garbled, torn>> /\ Len(wire) < MaxWire
    BY <1>9 DEF PeerSends, socket, history
  <2> DEFINE f == [part |-> p, line |-> l]
  <2>3. f \in Fragment /\ f.part = p /\ f.line = l
    BY DEF Fragment
  <2> HIDE DEF f
  <2>4. wire' = Append(wire, f)
    BY <2>1 DEF f
  <2>5. LinesFit => LinesFit'
    BY <1>1, <2>1, <2>2, <2>3, <2>4, AppendKeepsLines
  <2>6. StreamTyped'
    <3>1. wire' \in Seq(Fragment) /\ Len(wire') <= MaxWire
      BY <1>1, <2>2, <2>3, <2>4 DEF StreamTyped
    <3> QED  BY <1>1, <2>1, <2>2, <3>1 DEF StreamTyped
  <2> QED  BY <1>1, <2>2, <2>5, <2>6 DEF StreamInv, GarbledOnlyAfterTear
<1>10. CASE PeerSendsRest
  <2>1. PICK l \in owed : wire' = Append(wire, [part |-> "tail", line |-> l])
    BY <1>10 DEF PeerSendsRest
  <2>2. /\ peer = "up" /\ owed' = {} /\ UNCHANGED <<peer, buf, garbled, torn, received>>
        /\ Len(wire) < MaxWire /\ l \in Line
    BY <1>1, <1>10 DEF PeerSendsRest, socket, history, StreamTyped
  <2> DEFINE f == [part |-> "tail", line |-> l]
  <2>3. f \in Fragment /\ f.part = "tail" /\ f.line = l
    BY <2>2 DEF Fragment
  <2> HIDE DEF f
  <2>4. wire' = Append(wire, f)
    BY <2>1 DEF f
  <2>5. LinesFit => LinesFit'
    BY <1>1, <2>1, <2>2, <2>3, <2>4, AppendKeepsLines
  <2>6. StreamTyped'
    <3>1. wire' \in Seq(Fragment) /\ Len(wire') <= MaxWire
      BY <1>1, <2>2, <2>3, <2>4 DEF StreamTyped
    <3> QED  BY <1>1, <2>1, <2>2, <3>1 DEF StreamTyped
  <2> QED  BY <1>1, <2>2, <2>5, <2>6 DEF StreamInv, GarbledOnlyAfterTear
<1>11. CASE PeerGoes
  <2>1. peer' = "gone" /\ received' = {} /\ owed' = {} /\ UNCHANGED <<wire, buf, garbled, torn>>
    BY <1>11 DEF PeerGoes, history
  <2>2. StreamTyped'
    BY <1>1, <2>1 DEF StreamTyped
  <2>3. LinesFit => LinesFit'
    BY <2>1 DEF LinesFit, Fits
  <2> QED  BY <1>1, <2>1, <2>2, <2>3 DEF StreamInv, GarbledOnlyAfterTear
<1> QED
  BY <1>3, <1>4, <1>5, <1>6, <1>7, <1>8, <1>9, <1>10, <1>11 DEF Next

-----------------------------------------------------------------------------

\* The inductive invariant holds throughout.
LEMMA ConnectionInductive == Spec => []IInv
<1>1. Init => IInv
  <2> SUFFICES ASSUME Init PROVE IInv
    OBVIOUS
  <2>1. CallersInv
    BY DEF Init, CallersInv, CallersTyped, NoDeafWaiter, LeftoversExplained, AnsweredIsTaken, Req
  <2>2. FlagsInv
    <3>1. /\ connected = FALSE /\ disc = "no" /\ peer = "none" /\ reader = "none"
          /\ closed = FALSE /\ opening = FALSE /\ torn = FALSE /\ late = FALSE
          /\ stray = FALSE /\ startled = FALSE
      BY DEF Init
    <3>2. connects \in 0..MaxConnects
      BY ConnectionAssumption DEF Init
    <3>3. FlagsTyped
      BY <3>1, <3>2 DEF FlagsTyped
    <3>4. DisconnectingIsClosed /\ ClosedSettles /\ ConnectedHasReader /\ SocketClosed /\ OpenIsConnected
      BY <3>1 DEF DisconnectingIsClosed, ClosedSettles, ConnectedHasReader, SocketClosed, OpenIsConnected
    <3> QED  BY <3>3, <3>4 DEF FlagsInv
  <2>3. StreamInv
    <3>1. wire = <<>> /\ buf = <<>> /\ received = {} /\ owed = {} /\ garbled = FALSE
      BY DEF Init
    <3>2. Len(wire) = 0
      BY <3>1
    <3>3. StreamTyped
      <4>1. wire \in Seq(Fragment) /\ buf \in Seq(Fragment)
        BY <3>1, EmptySeq
      <4>2. Len(wire) <= MaxWire
        BY <3>2, ConnectionAssumption
      <4>3. garbled \in BOOLEAN /\ received \subseteq Req /\ owed \subseteq Line
        BY <3>1
      <4> QED  BY <4>1, <4>2, <4>3 DEF StreamTyped
    <3>4. LinesFit
      BY <3>1, <3>2 DEF LinesFit
    <3> QED  BY <3>1, <3>3, <3>4 DEF StreamInv, GarbledOnlyAfterTear
  <2> QED  BY <2>1, <2>2, <2>3 DEF IInv
<1>2. IInv /\ [Next]_vars => IInv'
  <2> SUFFICES ASSUME IInv, [Next]_vars PROVE IInv'
    OBVIOUS
  <2>1. CASE Next
    <3>1. CallersInv'
      BY <2>1, CallersStep
    <3>2. FlagsInv'
      BY <2>1, <3>1, FlagsStep
    <3> QED  BY <2>1, <3>1, <3>2, StreamStep DEF IInv
  <2>2. CASE UNCHANGED vars
    <3>1. CallersInv'
      BY <2>2 DEF vars, IInv, CallersInv, CallersTyped, NoDeafWaiter, LeftoversExplained, AnsweredIsTaken
    <3>2. FlagsInv'
      BY <2>2 DEF vars, IInv, FlagsInv, FlagsTyped, DisconnectingIsClosed, ClosedSettles, ConnectedHasReader,
                  SocketClosed, OpenIsConnected
    <3>3. StreamInv'
      BY <2>2 DEF vars, IInv, StreamInv, StreamTyped, GarbledOnlyAfterTear, LinesFit, Fits
    <3> QED  BY <3>1, <3>2, <3>3 DEF IInv
  <2> QED  BY <2>1, <2>2
<1> QED
  BY <1>1, <1>2, PTL DEF Spec

(***************************************************************************)
(* The flags of a TransportConnection tell the truth for any number of     *)
(* requests, connects and splits of the lines: a connected one is being    *)
(* read, a closed one has settled its callers and closed its socket, a     *)
(* connect() replaces an open socket only after _read_loop ended on an     *)
(* unasked value, and _read_loop spoils a line only after connect() took   *)
(* over the buffer of a torn one.                                          *)
(***************************************************************************)
THEOREM ConnectionSafe == Spec => []ConnectionInv
  BY IInvImplies, ConnectionInductive, PTL

(***************************************************************************)
(* No caller of send_request waits for a future that nobody will set: it   *)
(* is in _pending_requests, which every end of the connection goes through. *)
(***************************************************************************)
THEOREM WaitersHeard == Spec => []NoDeafWaiter
  BY IInvImplies, ConnectionInductive, PTL

(***************************************************************************)
(* Only a cancelled caller leaves an entry in _pending_requests behind.    *)
(***************************************************************************)
THEOREM LeftoversKnown == Spec => []LeftoversExplained
  BY IInvImplies, ConnectionInductive, PTL

=============================================================================
