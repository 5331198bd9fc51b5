------------------------ MODULE DesktopClientProofs ------------------------
(***************************************************************************)
(* The desktop client for every number of callers, requests, attempts and  *)
(* connections.                                                            *)
(***************************************************************************)
EXTENDS DesktopClient, TLAPS

\* How the transport's own fields hang together.
Coupled ==
  /\ reconnecting => rc # "none"
  /\ ~reconnecting => rc = "none"
  /\ connected => attempts = 0 /\ sock # "none"
  /\ \A p \in Proc : At(p, "opening") => ~connected

ControlInv == ControlTypeOK /\ LockCoversAwaits /\ Coupled

\* __init__ establishes the control invariant.
LEMMA ControlInit == Init => ControlInv
<1> SUFFICES ASSUME Init PROVE ControlInv
  OBVIOUS
<1> USE DesktopAssumption DEF Init, Proc
<1>1. ControlTypeOK
  <2>1. 0 \in 0..MaxSockets /\ 0 \in 0..MaxUserCalls /\ 0 \in 0..MaxAttempts /\ 0 \in 0..1
    OBVIOUS
  <2>2. /\ connected \in BOOLEAN /\ clientUp \in BOOLEAN
        /\ wanted \in BOOLEAN /\ reconnecting \in BOOLEAN
    OBVIOUS
  <2>3. pc \in [Task -> {"idle", "connect", "opening", "disconnect", "closing"}]
    OBVIOUS
  <2> QED BY <2>1, <2>2, <2>3 DEF ControlTypeOK
<1>2. LockCoversAwaits
  BY DEF LockCoversAwaits, At
<1>3. Coupled
  BY DEF Coupled, At
<1> QED BY <1>1, <1>2, <1>3 DEF ControlInv

\* Steps of the calls that leave the transport's fields alone.
ControlVars == <<flags, sock, sockets, lock, user, retry, loop, hb>>

\* It depends on the transport's own fields only.
LEMMA ControlStutter == ControlInv /\ UNCHANGED ControlVars => ControlInv'
BY DEF ControlVars, flags, user, retry, ControlInv, ControlTypeOK, LockCoversAwaits, Coupled, At

\* connect() preserves it: only the holder of the lock opens a connection.
LEMMA ConnectSteps ==
  ASSUME ControlInv, NEW p \in Proc,
         ConnectKnown(p) \/ ConnectOpen(p) \/ ConnectOpens(p) \/ ConnectFails(p)
  PROVE  ControlInv'
<1> USE DesktopAssumption DEF ControlInv, Proc
<1>1. CASE ConnectKnown(p)
  <2>1. ControlTypeOK'
    BY <1>1 DEF ControlTypeOK, ConnectKnown, Succeeds, GoTo, At
  <2>2. LockCoversAwaits'
    BY <1>1 DEF ControlTypeOK, LockCoversAwaits, Coupled, At, ConnectKnown, Succeeds, GoTo
  <2>3. Coupled'
    BY <1>1 DEF ControlTypeOK, LockCoversAwaits, Coupled, At, ConnectKnown, Succeeds, GoTo
  <2> QED BY <2>1, <2>2, <2>3
<1>2. CASE ConnectOpen(p)
  <2>1. ControlTypeOK'
    BY <1>2 DEF ControlTypeOK, ConnectOpen, GoTo, flags, At
  <2>2. LockCoversAwaits'
    BY <1>2 DEF ControlTypeOK, LockCoversAwaits, Coupled, At, ConnectOpen, GoTo, flags
  <2>3. Coupled'
    BY <1>2 DEF ControlTypeOK, LockCoversAwaits, Coupled, At, ConnectOpen, GoTo, flags
  <2> QED BY <2>1, <2>2, <2>3
<1>3. CASE ConnectOpens(p)
  <2>1. ControlTypeOK'
    BY <1>3 DEF ControlTypeOK, ConnectOpens, Succeeds, GoTo, StartHeartbeat, At
  <2>2. LockCoversAwaits'
    BY <1>3 DEF ControlTypeOK, LockCoversAwaits, Coupled, At, ConnectOpens, Succeeds, GoTo,
       StartHeartbeat
  <2>3. Coupled'
    BY <1>3 DEF ControlTypeOK, LockCoversAwaits, Coupled, At, ConnectOpens, Succeeds, GoTo,
       StartHeartbeat
  <2> QED BY <2>1, <2>2, <2>3
<1>4. CASE ConnectFails(p)
  <2>1. ControlTypeOK'
    <3>1. connected' \in BOOLEAN /\ clientUp' \in BOOLEAN
      BY <1>4 DEF ConnectFails, ControlTypeOK
    <3>2. CASE p = "reconnect"
      BY <1>4, <3>1, <3>2 DEF ControlTypeOK, ConnectFails, GoTo
    <3>3. CASE p # "reconnect"
      BY <1>4, <3>1, <3>3 DEF ControlTypeOK, ConnectFails, GoTo
    <3> QED BY <3>2, <3>3
  <2>2. LockCoversAwaits'
    BY <1>4 DEF ControlTypeOK, LockCoversAwaits, Coupled, At, ConnectFails, GoTo
  <2>3. Coupled'
    BY <1>4 DEF ControlTypeOK, LockCoversAwaits, Coupled, At, ConnectFails, GoTo
  <2> QED BY <2>1, <2>2, <2>3
<1> QED BY <1>1, <1>2, <1>3, <1>4

\* The user's calls and disconnect() preserve it.
LEMMA UserSteps ==
  ASSUME ControlInv, NEW t \in Task,
         \/ ConnectCall(t) \/ DisconnectCall(t) \/ DisconnectNothing(t)
         \/ DisconnectClose(t) \/ DisconnectGone(t) \/ DisconnectEnd(t)
  PROVE  ControlInv'
<1> USE DesktopAssumption DEF ControlInv, Proc
<1>1. CASE ConnectCall(t)
  <2>1. ControlTypeOK'
    BY <1>1 DEF ControlTypeOK, ConnectCall, flags, retry
  <2>2. LockCoversAwaits'
    BY <1>1 DEF ControlTypeOK, LockCoversAwaits, Coupled, At, ConnectCall, flags, retry
  <2>3. Coupled'
    BY <1>1 DEF ControlTypeOK, LockCoversAwaits, Coupled, At, ConnectCall, flags, retry
  <2> QED BY <2>1, <2>2, <2>3
<1>2. CASE DisconnectCall(t)
  <2>1. ControlTypeOK'
    <3>1. /\ userCalls' \in 0..MaxUserCalls
          /\ pc' \in [Task -> {"idle", "connect", "opening", "disconnect", "closing"}]
      BY <1>2 DEF DisconnectCall, ControlTypeOK
    <3>2. clientUp' \in BOOLEAN /\ wanted' \in BOOLEAN
      BY <1>2 DEF DisconnectCall
    <3> QED BY <1>2, <3>1, <3>2 DEF ControlTypeOK, DisconnectCall, retry
  <2>2. LockCoversAwaits'
    BY <1>2 DEF ControlTypeOK, LockCoversAwaits, Coupled, At, DisconnectCall, retry
  <2>3. Coupled'
    BY <1>2 DEF ControlTypeOK, LockCoversAwaits, Coupled, At, DisconnectCall, retry
  <2> QED BY <2>1, <2>2, <2>3
<1>3. CASE DisconnectNothing(t)
  <2>1. ControlTypeOK'
    BY <1>3 DEF ControlTypeOK, DisconnectNothing, flags, retry
  <2>2. LockCoversAwaits'
    BY <1>3 DEF ControlTypeOK, LockCoversAwaits, Coupled, At, DisconnectNothing, flags, retry
  <2>3. Coupled'
    BY <1>3 DEF ControlTypeOK, LockCoversAwaits, Coupled, At, DisconnectNothing, flags, retry
  <2> QED BY <2>1, <2>2, <2>3
<1>4. CASE DisconnectClose(t)
  <2>1. ControlTypeOK'
    BY <1>4 DEF ControlTypeOK, DisconnectClose, flags, retry
  <2>2. LockCoversAwaits'
    BY <1>4 DEF ControlTypeOK, LockCoversAwaits, Coupled, At, DisconnectClose, flags, retry
  <2>3. Coupled'
    BY <1>4 DEF ControlTypeOK, LockCoversAwaits, Coupled, At, DisconnectClose, flags, retry
  <2> QED BY <2>1, <2>2, <2>3
<1>5. CASE DisconnectEnd(t)
  <2>1. ControlTypeOK'
    BY <1>5 DEF ControlTypeOK, DisconnectEnd, retry
  <2>2. LockCoversAwaits'
    BY <1>5 DEF ControlTypeOK, LockCoversAwaits, Coupled, At, DisconnectEnd, retry
  <2>3. Coupled'
    BY <1>5 DEF ControlTypeOK, LockCoversAwaits, Coupled, At, DisconnectEnd, retry
  <2> QED BY <2>1, <2>2, <2>3
<1>6. CASE DisconnectGone(t)
  <2>1. ControlTypeOK'
    <3>1. pc' \in [Task -> {"idle", "connect", "opening", "disconnect", "closing"}]
      BY <1>6 DEF DisconnectGone, ControlTypeOK
    <3>2. connected' \in BOOLEAN /\ clientUp' \in BOOLEAN
      BY <1>6 DEF DisconnectGone
    <3> QED BY <1>6, <3>1, <3>2 DEF ControlTypeOK, DisconnectGone, retry
  <2>2. LockCoversAwaits'
    BY <1>6 DEF ControlTypeOK, LockCoversAwaits, Coupled, At, DisconnectGone, retry
  <2>3. Coupled'
    BY <1>6 DEF ControlTypeOK, LockCoversAwaits, Coupled, At, DisconnectGone, retry
  <2> QED BY <2>1, <2>2, <2>3
<1> QED BY <1>1, <1>2, <1>3, <1>4, <1>5, <1>6

\* The three loops and the backend preserve it.
LEMMA LoopSteps ==
  ASSUME ControlInv,
         LoopStart \/ LoopEnds \/ ReconnectTest \/ ReconnectWakes \/ HeartbeatEnds \/ BackendGoes
  PROVE  ControlInv'
<1> USE DesktopAssumption DEF ControlInv, Proc
<1>1. CASE LoopStart
  <2>1. ControlTypeOK'
    BY <1>1 DEF ControlTypeOK, LoopStart, flags, user, retry
  <2>2. LockCoversAwaits'
    BY <1>1 DEF ControlTypeOK, LockCoversAwaits, Coupled, At, LoopStart, flags, user, retry
  <2>3. Coupled'
    BY <1>1 DEF ControlTypeOK, LockCoversAwaits, Coupled, At, LoopStart, flags, user, retry
  <2> QED BY <2>1, <2>2, <2>3
<1>2. CASE LoopEnds
  <2>1. ControlTypeOK'
    <3>1. CASE connected
      <4>1. attempts = 0
        BY <3>1 DEF Coupled
      <4>2. /\ reconnecting' \in BOOLEAN /\ attempts' \in 0..1 /\ tries' \in 0..MaxAttempts
            /\ rc' \in {"none", "check", "sleep", "connect", "opening"}
        <5>1. ScheduleReconnect
          BY <1>2, <3>1 DEF LoopEnds
        <5>2. CASE reconnecting \/ attempts >= MaxAttempts
          BY <5>1, <5>2 DEF ScheduleReconnect, retry, ControlTypeOK
        <5>3. CASE ~(reconnecting \/ attempts >= MaxAttempts)
          <6>1. reconnecting' = TRUE /\ attempts' = 1 /\ rc' = "check" /\ tries' = 0
            BY <4>1, <5>1, <5>3 DEF ScheduleReconnect
          <6> QED BY <6>1
        <5> QED BY <5>2, <5>3
      <4>3. connected' \in BOOLEAN /\ clientUp' \in BOOLEAN
        BY <1>2, <3>1 DEF LoopEnds
      <4> QED BY <1>2, <3>1, <4>2, <4>3 DEF LoopEnds, ControlTypeOK, user
    <3>2. CASE ~connected
      BY <1>2, <3>2 DEF LoopEnds, ControlTypeOK, flags, user, retry
    <3> QED BY <3>1, <3>2
  <2>2. LockCoversAwaits'
    BY <1>2 DEF ControlTypeOK, LockCoversAwaits, Coupled, At, LoopEnds, ScheduleReconnect,
       flags, user, retry
  <2>3. Coupled'
    BY <1>2 DEF ControlTypeOK, LockCoversAwaits, Coupled, At, LoopEnds, ScheduleReconnect,
       flags, user, retry
  <2> QED BY <2>1, <2>2, <2>3
<1>3. CASE ReconnectTest
  <2>1. ControlTypeOK'
    <3>1. /\ tries' \in 0..MaxAttempts /\ reconnecting' \in BOOLEAN
          /\ rc' \in {"none", "check", "sleep", "connect", "opening"}
      <4>1. CASE tries < MaxAttempts /\ ~connected
        <5>1. tries' = tries + 1 /\ rc' = "sleep" /\ reconnecting' = reconnecting
          BY <1>3, <4>1 DEF ReconnectTest
        <5> QED BY <4>1, <5>1 DEF ControlTypeOK
      <4>2. CASE ~(tries < MaxAttempts /\ ~connected)
        <5>1. tries' = 0 /\ rc' = "none" /\ reconnecting' = FALSE
          BY <1>3, <4>2 DEF ReconnectTest
        <5>2. 0 \in 0..MaxAttempts
          OBVIOUS
        <5> QED BY <5>1, <5>2, Zenon
      <4> QED BY <4>1, <4>2
    <3>2. why' \in {"never", "reader", "sender", "user", "exhausted"}
      BY <1>3 DEF ReconnectTest, ControlTypeOK
    <3> QED BY <1>3, <3>1, <3>2 DEF ReconnectTest, ControlTypeOK, user
  <2>2. LockCoversAwaits'
    BY <1>3 DEF ControlTypeOK, LockCoversAwaits, Coupled, At, ReconnectTest, user
  <2>3. Coupled'
    BY <1>3 DEF ControlTypeOK, LockCoversAwaits, Coupled, At, ReconnectTest, user
  <2> QED BY <2>1, <2>2, <2>3
<1>4. CASE ReconnectWakes
  <2>1. ControlTypeOK'
    BY <1>4 DEF ControlTypeOK, ReconnectWakes, flags, user
  <2>2. LockCoversAwaits'
    BY <1>4 DEF ControlTypeOK, LockCoversAwaits, Coupled, At, ReconnectWakes, flags, user
  <2>3. Coupled'
    BY <1>4 DEF ControlTypeOK, LockCoversAwaits, Coupled, At, ReconnectWakes, flags, user
  <2> QED BY <2>1, <2>2, <2>3
<1>5. CASE HeartbeatEnds
  <2>1. ControlTypeOK'
    BY <1>5 DEF ControlTypeOK, HeartbeatEnds, flags, user, retry
  <2>2. LockCoversAwaits'
    BY <1>5 DEF ControlTypeOK, LockCoversAwaits, Coupled, At, HeartbeatEnds, flags, user, retry
  <2>3. Coupled'
    BY <1>5 DEF ControlTypeOK, LockCoversAwaits, Coupled, At, HeartbeatEnds, flags, user, retry
  <2> QED BY <2>1, <2>2, <2>3
<1>6. CASE BackendGoes
  <2>1. ControlTypeOK'
    BY <1>6 DEF ControlTypeOK, BackendGoes, flags, user, retry
  <2>2. LockCoversAwaits'
    BY <1>6 DEF ControlTypeOK, LockCoversAwaits, Coupled, At, BackendGoes, flags, user, retry
  <2>3. Coupled'
    BY <1>6 DEF ControlTypeOK, LockCoversAwaits, Coupled, At, BackendGoes, flags, user, retry
  <2> QED BY <2>1, <2>2, <2>3
<1> QED BY <1>1, <1>2, <1>3, <1>4, <1>5, <1>6

\* drain() fails: of the transport's fields only the flag is cleared.
LEMMA ControlDrainFails ==
  ASSUME ControlInv, NEW c \in Call, DrainFails(c)
  PROVE  ControlInv'
<1> USE DEF ControlInv, ControlTypeOK, LockCoversAwaits, Coupled, At, DrainFails, user, retry
<1>1. ControlTypeOK'
  OBVIOUS
<1>2. LockCoversAwaits'
  OBVIOUS
<1>3. Coupled'
  OBVIOUS
<1> QED BY <1>1, <1>2, <1>3

\* A message that is read ends the read loop when the flag is down.
LEMMA ControlReceive ==
  ASSUME ControlInv, NEW c \in Call, NEW how, Receive(c, how)
  PROVE  ControlInv'
<1>1. /\ loop' \in {"none", "read"}
      /\ UNCHANGED <<flags, sock, sockets, lock, user, retry, hb>>
  BY DEF Receive
<1> QED
  BY <1>1 DEF flags, user, retry, ControlInv, ControlTypeOK, LockCoversAwaits, Coupled, At

\* The other steps of a call.
CallOnly(c) ==
  \/ SendRefused(c) \/ Send(c) \/ DrainDone(c)
  \/ Return(c) \/ Expire(c) \/ TimesOut(c) \/ Cancelled(c)

\* They leave the transport's fields alone.
LEMMA CallOnlyStutters ==
  ASSUME NEW c \in Call, CallOnly(c) PROVE UNCHANGED ControlVars
BY DEF CallOnly, ControlVars, SendRefused, Send, DrainDone, Return, Expire, TimesOut, Cancelled

\* A step of a user's task or of the reconnect loop inside connect().
Connects(p) == ConnectKnown(p) \/ ConnectOpen(p) \/ ConnectOpens(p) \/ ConnectFails(p)

\* A step of a user's task outside it.
Uses(t) == \/ ConnectCall(t) \/ DisconnectCall(t) \/ DisconnectNothing(t)
           \/ DisconnectClose(t) \/ DisconnectGone(t) \/ DisconnectEnd(t)

\* A step of the three loops or of the backend.
Loops == \/ LoopStart \/ LoopEnds \/ ReconnectTest \/ ReconnectWakes
         \/ HeartbeatEnds \/ BackendGoes

\* The steps of Next by who takes them.
LEMMA StepKinds ==
  ASSUME [Next]_vars
  PROVE  \/ \E p \in Proc : Connects(p)
         \/ \E t \in Task : Uses(t)
         \/ Loops
         \/ \E c \in Call : CallOnly(c)
         \/ \E c \in Call : DrainFails(c)
         \/ \E c \in Call : \E how \in {"result", "failed"} : Receive(c, how)
         \/ UNCHANGED vars
BY DEF Next, Connects, Uses, Loops, CallOnly

\* Every step preserves the control invariant.
LEMMA ControlStep == ControlInv /\ [Next]_vars => ControlInv'
<1> SUFFICES ASSUME ControlInv, [Next]_vars PROVE ControlInv'
  OBVIOUS
<1>1. CASE \E p \in Proc : Connects(p)
  BY <1>1, ConnectSteps DEF Connects
<1>2. CASE \E t \in Task : Uses(t)
  BY <1>2, UserSteps DEF Uses
<1>3. CASE Loops
  BY <1>3, LoopSteps DEF Loops
<1>4. CASE \E c \in Call : CallOnly(c)
  BY <1>4, CallOnlyStutters, ControlStutter
<1>5. CASE \E c \in Call : DrainFails(c)
  BY <1>5, ControlDrainFails
<1>6. CASE \E c \in Call : \E how \in {"result", "failed"} : Receive(c, how)
  BY <1>6, ControlReceive
<1>7. CASE UNCHANGED vars
  BY <1>7, ControlStutter DEF vars, ControlVars
<1> QED
  BY <1>1, <1>2, <1>3, <1>4, <1>5, <1>6, <1>7, StepKinds

\* The control invariant holds in every reachable state.
LEMMA ControlAlways == Spec => []ControlInv
BY ControlInit, ControlStep, PTL DEF Spec

(***************************************************************************)
(* connect(), disconnect() and the reconnect loop exclude each other       *)
(* across their awaits, and none leaves the lock behind, for any number of *)
(* tasks.                                                                  *)
(***************************************************************************)
THEOREM DesktopLock == Spec => []LockCoversAwaits
<1>1. ControlInv => LockCoversAwaits
  BY DEF ControlInv
<1> QED BY <1>1, ControlAlways, PTL

-----------------------------------------------------------------------------
(***************************************************************************)
(* Who knows of a connection, who serves it and who brings it back.        *)
(***************************************************************************)
Retried == ~connected /\ why = "reader" => rc # "none"

ServiceInv == Retried /\ ClientKnows /\ LiveIsServed

\* It holds before the first connect().
LEMMA ServiceInit == Init => ServiceInv
BY DEF Init, ServiceInv, Retried, ClientKnows, LiveIsServed

\* It depends on the transport's and the client's fields only.
LEMMA ServiceStutter == ServiceInv /\ UNCHANGED ControlVars => ServiceInv'
BY DEF ControlVars, flags, user, retry, ServiceInv, Retried, ClientKnows, LiveIsServed

\* connect() preserves it.
LEMMA ServiceConnects ==
  ASSUME ControlInv, ServiceInv, NEW p \in Proc, Connects(p)
  PROVE  ServiceInv'
<1> USE DesktopAssumption DEF ControlInv, ControlTypeOK, Coupled, ServiceInv, Retried,
   ClientKnows, LiveIsServed, At, Proc
<1>1. CASE ConnectKnown(p)
  <2>1. Retried'
    BY <1>1 DEF ConnectKnown, Succeeds, GoTo
  <2>2. ClientKnows'
    BY <1>1 DEF ConnectKnown, Succeeds, GoTo
  <2>3. LiveIsServed'
    BY <1>1 DEF ConnectKnown, Succeeds, GoTo
  <2> QED BY <2>1, <2>2, <2>3
<1>2. CASE ConnectOpen(p)
  <2>1. Retried'
    BY <1>2 DEF ConnectOpen, GoTo, flags
  <2>2. ClientKnows'
    BY <1>2 DEF ConnectOpen, GoTo, flags
  <2>3. LiveIsServed'
    BY <1>2 DEF ConnectOpen, GoTo, flags
  <2> QED BY <2>1, <2>2, <2>3
<1>3. CASE ConnectOpens(p)
  <2>1. Retried'
    BY <1>3 DEF ConnectOpens, Succeeds, GoTo, StartHeartbeat
  <2>2. ClientKnows'
    BY <1>3 DEF ConnectOpens, Succeeds, GoTo, StartHeartbeat
  <2>3. LiveIsServed'
    BY <1>3 DEF ConnectOpens, Succeeds, GoTo, StartHeartbeat
  <2> QED BY <2>1, <2>2, <2>3
<1>4. CASE ConnectFails(p)
  <2>1. Retried'
    BY <1>4 DEF ConnectFails, GoTo
  <2>2. ClientKnows'
    BY <1>4 DEF ConnectFails, GoTo
  <2>3. LiveIsServed'
    BY <1>4 DEF ConnectFails, GoTo
  <2> QED BY <2>1, <2>2, <2>3
<1> QED BY <1>1, <1>2, <1>3, <1>4 DEF Connects

\* The user's calls and disconnect() preserve it.
LEMMA ServiceUses ==
  ASSUME ControlInv, ServiceInv, NEW t \in Task, Uses(t)
  PROVE  ServiceInv'
<1> USE DesktopAssumption DEF ControlInv, ControlTypeOK, Coupled, ServiceInv, Retried,
   ClientKnows, LiveIsServed, At, Proc
<1>1. CASE ConnectCall(t)
  <2>1. Retried'
    BY <1>1 DEF ConnectCall, flags, retry
  <2>2. ClientKnows'
    BY <1>1 DEF ConnectCall, flags, retry
  <2>3. LiveIsServed'
    BY <1>1 DEF ConnectCall, flags, retry
  <2> QED BY <2>1, <2>2, <2>3
<1>2. CASE DisconnectCall(t)
  <2>1. Retried'
    BY <1>2 DEF DisconnectCall, retry
  <2>2. ClientKnows'
    BY <1>2 DEF DisconnectCall, retry
  <2>3. LiveIsServed'
    BY <1>2 DEF DisconnectCall, retry
  <2> QED BY <2>1, <2>2, <2>3
<1>3. CASE DisconnectNothing(t)
  <2>1. Retried'
    BY <1>3 DEF DisconnectNothing, flags, retry
  <2>2. ClientKnows'
    BY <1>3 DEF DisconnectNothing, flags, retry
  <2>3. LiveIsServed'
    BY <1>3 DEF DisconnectNothing, flags, retry
  <2> QED BY <2>1, <2>2, <2>3
<1>4. CASE DisconnectClose(t)
  <2>1. Retried'
    BY <1>4 DEF DisconnectClose, flags, retry
  <2>2. ClientKnows'
    BY <1>4 DEF DisconnectClose, flags, retry
  <2>3. LiveIsServed'
    BY <1>4 DEF DisconnectClose, flags, retry
  <2> QED BY <2>1, <2>2, <2>3
<1>5. CASE DisconnectEnd(t)
  <2>1. Retried'
    BY <1>5 DEF DisconnectEnd, retry
  <2>2. ClientKnows'
    BY <1>5 DEF DisconnectEnd, retry
  <2>3. LiveIsServed'
    BY <1>5 DEF DisconnectEnd, retry
  <2> QED BY <2>1, <2>2, <2>3
<1>6. CASE DisconnectGone(t)
  <2>1. Retried'
    BY <1>6 DEF DisconnectGone, retry
  <2>2. ClientKnows'
    BY <1>6 DEF DisconnectGone, retry
  <2>3. LiveIsServed'
    BY <1>6 DEF DisconnectGone, retry
  <2> QED BY <2>1, <2>2, <2>3
<1> QED BY <1>1, <1>2, <1>3, <1>4, <1>5, <1>6 DEF Uses

\* The three loops and the backend preserve it.
LEMMA ServiceLoops ==
  ASSUME ControlInv, ServiceInv, Loops
  PROVE  ServiceInv'
<1> USE DesktopAssumption DEF ControlInv, ControlTypeOK, Coupled, ServiceInv, Retried,
   ClientKnows, LiveIsServed, At, Proc
<1>1. CASE LoopStart
  <2>1. Retried'
    BY <1>1 DEF LoopStart, flags, user, retry
  <2>2. ClientKnows'
    BY <1>1 DEF LoopStart, flags, user, retry
  <2>3. LiveIsServed'
    BY <1>1 DEF LoopStart, flags, user, retry
  <2> QED BY <2>1, <2>2, <2>3
<1>2. CASE LoopEnds
  <2>1. Retried'
    BY <1>2 DEF LoopEnds, ScheduleReconnect, flags, user, retry
  <2>2. ClientKnows'
    BY <1>2 DEF LoopEnds, ScheduleReconnect, flags, user, retry
  <2>3. LiveIsServed'
    BY <1>2 DEF LoopEnds, ScheduleReconnect, flags, user, retry
  <2> QED BY <2>1, <2>2, <2>3
<1>3. CASE ReconnectTest
  <2>1. Retried'
    BY <1>3 DEF ReconnectTest, user
  <2>2. ClientKnows'
    BY <1>3 DEF ReconnectTest, user
  <2>3. LiveIsServed'
    BY <1>3 DEF ReconnectTest, user
  <2> QED BY <2>1, <2>2, <2>3
<1>4. CASE ReconnectWakes
  <2>1. Retried'
    BY <1>4 DEF ReconnectWakes, flags, user
  <2>2. ClientKnows'
    BY <1>4 DEF ReconnectWakes, flags, user
  <2>3. LiveIsServed'
    BY <1>4 DEF ReconnectWakes, flags, user
  <2> QED BY <2>1, <2>2, <2>3
<1>5. CASE HeartbeatEnds
  <2>1. Retried'
    BY <1>5 DEF HeartbeatEnds, flags, user, retry
  <2>2. ClientKnows'
    BY <1>5 DEF HeartbeatEnds, flags, user, retry
  <2>3. LiveIsServed'
    BY <1>5 DEF HeartbeatEnds, flags, user, retry
  <2> QED BY <2>1, <2>2, <2>3
<1>6. CASE BackendGoes
  <2>1. Retried'
    BY <1>6 DEF BackendGoes, flags, user, retry
  <2>2. ClientKnows'
    BY <1>6 DEF BackendGoes, flags, user, retry
  <2>3. LiveIsServed'
    BY <1>6 DEF BackendGoes, flags, user, retry
  <2> QED BY <2>1, <2>2, <2>3
<1> QED BY <1>1, <1>2, <1>3, <1>4, <1>5, <1>6 DEF Loops

\* A failed send, which tells nobody, preserves it.
LEMMA ServiceDrainFails ==
  ASSUME ControlInv, ServiceInv, NEW c \in Call, DrainFails(c)
  PROVE  ServiceInv'
BY DEF DrainFails, user, retry, ControlInv, ControlTypeOK, ServiceInv, Retried, ClientKnows,
   LiveIsServed

\* Reading a message preserves it.
LEMMA ServiceReceive ==
  ASSUME ControlInv, ServiceInv, NEW c \in Call, NEW how, Receive(c, how)
  PROVE  ServiceInv'
<1>1. /\ connected => loop' = "read"
      /\ UNCHANGED <<flags, sock, sockets, lock, user, retry, hb>>
  BY DEF Receive
<1> QED
  BY <1>1 DEF flags, user, retry, ServiceInv, Retried, ClientKnows, LiveIsServed

\* Every step preserves it.
LEMMA ServiceStep == ControlInv /\ ServiceInv /\ [Next]_vars => ServiceInv'
<1> SUFFICES ASSUME ControlInv, ServiceInv, [Next]_vars PROVE ServiceInv'
  OBVIOUS
<1>1. CASE \E p \in Proc : Connects(p)
  BY <1>1, ServiceConnects
<1>2. CASE \E t \in Task : Uses(t)
  BY <1>2, ServiceUses
<1>3. CASE Loops
  BY <1>3, ServiceLoops
<1>4. CASE \E c \in Call : CallOnly(c)
  BY <1>4, CallOnlyStutters, ServiceStutter
<1>5. CASE \E c \in Call : DrainFails(c)
  BY <1>5, ServiceDrainFails
<1>6. CASE \E c \in Call : \E how \in {"result", "failed"} : Receive(c, how)
  BY <1>6, ServiceReceive
<1>7. CASE UNCHANGED vars
  BY <1>7, ServiceStutter DEF vars, ControlVars
<1> QED
  BY <1>1, <1>2, <1>3, <1>4, <1>5, <1>6, <1>7, StepKinds

\* It holds in every reachable state.
LEMMA ServiceAlways == Spec => [](ControlInv /\ ServiceInv)
BY ControlInit, ServiceInit, ControlStep, ServiceStep, PTL DEF Spec

(***************************************************************************)
(* A loss found by the read loop is being retried until it is repaired or  *)
(* the attempts are used up, whatever number of them is configured: the    *)
(* test of _reconnect_attempts never turns one away, because a connection  *)
(* that is up has set it to 0.                                             *)
(***************************************************************************)
THEOREM DesktopRetries == Spec => []LossIsRetried
<1>1. ControlInv /\ ServiceInv => LossIsRetried
  BY DEF ControlInv, ControlTypeOK, Coupled, ServiceInv, Retried, LossIsRetried
<1> QED BY <1>1, ServiceAlways, PTL

(***************************************************************************)
(* The client's flag follows the transport's but for a send that failed    *)
(* first and a disconnect() under way.                                     *)
(***************************************************************************)
THEOREM DesktopClientKnows == Spec => []ClientKnows
<1>1. ServiceInv => ClientKnows
  BY DEF ServiceInv
<1> QED BY <1>1, ServiceAlways, PTL

\* A connection that is up is read, and while its socket is live it has its heartbeat.
THEOREM DesktopServed == Spec => []LiveIsServed
<1>1. ServiceInv => LiveIsServed
  BY DEF ServiceInv
<1> QED BY <1>1, ServiceAlways, PTL

-----------------------------------------------------------------------------
(***************************************************************************)
(* The two tables of requests.  An entry leads to a call that has its id   *)
(* and whose future is open, unless the timeout or a cancellation came in  *)
(* between; a call without id has never had a future.                      *)
(***************************************************************************)
EntriesOpen ==
  \A i \in Id : pending[i] # NoCall =>
    /\ key[pending[i]] = i
    /\ \/ cs[pending[i]] \in {"expired", "cancelled"}
       \/ cs[pending[i]] \in {"drain", "wait"} /\ fut[pending[i]] = "wait"

HandlersOpen == \A i \in handlers : cs[i] \in InProgress

KeysGiven ==
  \A c \in Call :
    /\ cs[c] = "idle" => key[c] = NoCall
    /\ key[c] = NoCall => got[c] = NoCall /\ fut[c] = "none" /\ cs[c] \notin InProgress

TablesInv ==
  /\ TablesTypeOK /\ EntriesOpen /\ HandlersOpen /\ KeysGiven
  /\ NoOrphan /\ AnswersMatch

\* The tables are empty at first.
LEMMA TablesInit == Init => TablesInv
BY DesktopAssumption
   DEF Init, TablesInv, TablesTypeOK, EntriesOpen, HandlersOpen, KeysGiven, NoOrphan, AnswersMatch,
       InProgress, Id, Call

\* Their invariant depends on the tables, and on what was sent only for its type.
LEMMA TablesStutter ==
  ASSUME TablesInv, UNCHANGED tables, received' \subseteq received
  PROVE  TablesInv'
BY DEF tables, TablesInv, TablesTypeOK, EntriesOpen, HandlersOpen, KeysGiven, NoOrphan,
       AnswersMatch, Shared

\* A call refused for want of a connection leaves no entry.
LEMMA TablesSendRefused ==
  ASSUME TablesInv, NEW c \in Call, SendRefused(c)
  PROVE  TablesInv'
<1> USE DesktopAssumption DEF TablesInv, SendRefused, Leave
<1>1. TablesTypeOK'
  BY DEF TablesTypeOK, InProgress
<1>2. EntriesOpen'
  BY DEF TablesTypeOK, EntriesOpen, KeysGiven, InProgress
<1>3. HandlersOpen'
  BY DEF TablesTypeOK, HandlersOpen, InProgress, Call, Id
<1>4. KeysGiven'
  BY DEF TablesTypeOK, EntriesOpen, KeysGiven, InProgress
<1>5. NoOrphan'
  BY DEF TablesTypeOK, EntriesOpen, KeysGiven, NoOrphan, Shared, InProgress
<1>6. AnswersMatch'
  BY DEF TablesTypeOK, EntriesOpen, KeysGiven, AnswersMatch, Shared, InProgress
<1> QED BY <1>1, <1>2, <1>3, <1>4, <1>5, <1>6

\* Registering a future takes over the entry of a call with the same id, if there is one.
LEMMA TablesSend ==
  ASSUME TablesInv, NEW c \in Call, Send(c)
  PROVE  TablesInv'
<1> USE DesktopAssumption DEF TablesInv, Send, IdFor, Call, Id
<1>1. TablesTypeOK'
  BY DEF TablesTypeOK, InProgress
<1>2. EntriesOpen'
  BY DEF TablesTypeOK, EntriesOpen, KeysGiven, InProgress
<1>3. HandlersOpen'
  BY DEF TablesTypeOK, HandlersOpen, InProgress, Call, Id
<1>4. KeysGiven'
  BY DEF TablesTypeOK, EntriesOpen, KeysGiven, InProgress
<1>11. IdFor(c) \subseteq Id
  BY DEF TablesTypeOK
<1>12. /\ cs[c] = "idle" /\ got' = got
      /\ fut' = [fut EXCEPT ![c] = "wait"] /\ cs' = [cs EXCEPT ![c] = "drain"]
  OBVIOUS
<1> HIDE DEF Send, IdFor, Call, Id
<1>5. PICK i \in Id : /\ key' = [key EXCEPT ![c] = i]
                      /\ pending' = [pending EXCEPT ![i] = c]
  BY <1>11 DEF Send
<1>6. key[c] = NoCall /\ got[c] = NoCall
  <2>1. KeysGiven /\ cs[c] = "idle"
    BY <1>12 DEF TablesInv
  <2> QED BY <2>1 DEF KeysGiven
<1>7. \A d \in Call : d # c => key'[d] = key[d]
  BY <1>5 DEF TablesTypeOK
<1>8. ASSUME NEW d \in Call, key[d] # NoCall, Shared(d)
      PROVE  Shared(d)'
  BY <1>6, <1>7, <1>8 DEF Shared
<1>9. NoOrphan'
  <2> SUFFICES ASSUME NEW d \in Call, d # c, fut[d] = "wait", cs[d] \in InProgress
               PROVE  pending'[key'[d]] = d \/ Shared(d)'
    BY <1>12, <1>5 DEF NoOrphan, TablesTypeOK
  <2>1. key[d] \in Id /\ key'[d] = key[d]
    BY <1>7 DEF KeysGiven, TablesTypeOK
  <2>2. CASE key[d] = i
    BY <1>5, <2>1, <2>2 DEF Shared, TablesTypeOK
  <2>3. CASE key[d] # i
    <3>1. pending'[key[d]] = pending[key[d]]
      BY <1>5, <2>1, <2>3 DEF TablesTypeOK
    <3>2. pending[key[d]] = d \/ Shared(d)
      BY DEF NoOrphan
    <3>3. key[d] # NoCall
      BY DEF KeysGiven
    <3> QED BY <1>8, <2>1, <3>1, <3>2, <3>3
  <2> QED BY <2>2, <2>3
<1>10. AnswersMatch'
  BY <1>12, <1>6, <1>8 DEF AnswersMatch, KeysGiven, TablesTypeOK
<1> QED BY <1>1, <1>2, <1>3, <1>4, <1>9, <1>10

\* drain() returning changes no entry.
LEMMA TablesDrainDone ==
  ASSUME TablesInv, NEW c \in Call, DrainDone(c)
  PROVE  TablesInv'
<1> USE DesktopAssumption DEF TablesInv, DrainDone
<1>1. TablesTypeOK'
  BY DEF TablesTypeOK, InProgress
<1>2. EntriesOpen'
  BY DEF TablesTypeOK, EntriesOpen, KeysGiven, InProgress
<1>3. HandlersOpen'
  BY DEF TablesTypeOK, HandlersOpen, InProgress, Call, Id
<1>4. KeysGiven'
  BY DEF TablesTypeOK, EntriesOpen, KeysGiven, InProgress
<1>5. NoOrphan'
  BY DEF TablesTypeOK, EntriesOpen, KeysGiven, NoOrphan, Shared, InProgress
<1>6. AnswersMatch'
  BY DEF TablesTypeOK, EntriesOpen, KeysGiven, AnswersMatch, Shared, InProgress
<1> QED BY <1>1, <1>2, <1>3, <1>4, <1>5, <1>6

\* A failed send takes its entry out.
LEMMA TablesDrainFails ==
  ASSUME TablesInv, NEW c \in Call, DrainFails(c)
  PROVE  TablesInv'
<1> USE DesktopAssumption DEF TablesInv, DrainFails, Pop, Leave
<1>1. TablesTypeOK'
  BY DEF TablesTypeOK, InProgress
<1>2. EntriesOpen'
  BY DEF TablesTypeOK, EntriesOpen, KeysGiven, InProgress
<1>3. HandlersOpen'
  BY DEF TablesTypeOK, HandlersOpen, InProgress, Call, Id
<1>4. KeysGiven'
  BY DEF TablesTypeOK, EntriesOpen, KeysGiven, InProgress
<1>5. NoOrphan'
  BY DEF TablesTypeOK, EntriesOpen, KeysGiven, NoOrphan, Shared, InProgress
<1>6. AnswersMatch'
  BY DEF TablesTypeOK, EntriesOpen, KeysGiven, AnswersMatch, Shared, InProgress
<1> QED BY <1>1, <1>2, <1>3, <1>4, <1>5, <1>6

\* A call that returns a result has no entry any more; one that raises pops it.
LEMMA TablesReturn ==
  ASSUME TablesInv, NEW c \in Call, Return(c)
  PROVE  TablesInv'
<1> USE DesktopAssumption DEF TablesInv, Return, Pop, Leave
<1>1. TablesTypeOK'
  BY DEF TablesTypeOK, InProgress
<1>2. EntriesOpen'
  BY DEF TablesTypeOK, EntriesOpen, KeysGiven, InProgress
<1>3. HandlersOpen'
  BY DEF TablesTypeOK, HandlersOpen, InProgress, Call, Id
<1>4. KeysGiven'
  BY DEF TablesTypeOK, EntriesOpen, KeysGiven, InProgress
<1>5. NoOrphan'
  BY DEF TablesTypeOK, EntriesOpen, KeysGiven, NoOrphan, Shared, InProgress
<1>6. AnswersMatch'
  BY DEF TablesTypeOK, EntriesOpen, KeysGiven, AnswersMatch, Shared, InProgress
<1> QED BY <1>1, <1>2, <1>3, <1>4, <1>5, <1>6

\* A timeout leaves the entry with a future that is done.
LEMMA TablesExpire ==
  ASSUME TablesInv, NEW c \in Call, Expire(c)
  PROVE  TablesInv'
<1> USE DesktopAssumption DEF TablesInv, Expire
<1>1. TablesTypeOK'
  BY DEF TablesTypeOK, InProgress
<1>2. EntriesOpen'
  BY DEF TablesTypeOK, EntriesOpen, KeysGiven, InProgress
<1>3. HandlersOpen'
  BY DEF TablesTypeOK, HandlersOpen, InProgress, Call, Id
<1>4. KeysGiven'
  BY DEF TablesTypeOK, EntriesOpen, KeysGiven, InProgress
<1>5. NoOrphan'
  BY DEF TablesTypeOK, EntriesOpen, KeysGiven, NoOrphan, Shared, InProgress
<1>6. AnswersMatch'
  BY DEF TablesTypeOK, EntriesOpen, KeysGiven, AnswersMatch, Shared, InProgress
<1> QED BY <1>1, <1>2, <1>3, <1>4, <1>5, <1>6

\* The clean-up after a timeout pops the entry.
LEMMA TablesTimesOut ==
  ASSUME TablesInv, NEW c \in Call, TimesOut(c)
  PROVE  TablesInv'
<1> USE DesktopAssumption DEF TablesInv, TimesOut, Pop, Leave
<1>1. TablesTypeOK'
  BY DEF TablesTypeOK, InProgress
<1>2. EntriesOpen'
  BY DEF TablesTypeOK, EntriesOpen, KeysGiven, InProgress
<1>3. HandlersOpen'
  BY DEF TablesTypeOK, HandlersOpen, InProgress, Call, Id
<1>4. KeysGiven'
  BY DEF TablesTypeOK, EntriesOpen, KeysGiven, InProgress
<1>5. NoOrphan'
  BY DEF TablesTypeOK, EntriesOpen, KeysGiven, NoOrphan, Shared, InProgress
<1>6. AnswersMatch'
  BY DEF TablesTypeOK, EntriesOpen, KeysGiven, AnswersMatch, Shared, InProgress
<1> QED BY <1>1, <1>2, <1>3, <1>4, <1>5, <1>6

\* A cancelled call leaves its entry behind.
LEMMA TablesCancelled ==
  ASSUME TablesInv, NEW c \in Call, Cancelled(c)
  PROVE  TablesInv'
<1> USE DesktopAssumption DEF TablesInv, Cancelled, Leave
<1>1. TablesTypeOK'
  BY DEF TablesTypeOK, InProgress
<1>2. EntriesOpen'
  BY DEF TablesTypeOK, EntriesOpen, KeysGiven, InProgress
<1>3. HandlersOpen'
  BY DEF TablesTypeOK, HandlersOpen, InProgress, Call, Id
<1>4. KeysGiven'
  BY DEF TablesTypeOK, EntriesOpen, KeysGiven, InProgress
<1>5. NoOrphan'
  BY DEF TablesTypeOK, EntriesOpen, KeysGiven, NoOrphan, Shared, InProgress
<1>6. AnswersMatch'
  BY DEF TablesTypeOK, EntriesOpen, KeysGiven, AnswersMatch, Shared, InProgress
<1> QED BY <1>1, <1>2, <1>3, <1>4, <1>5, <1>6

\* A message settles the call its id leads to.
LEMMA TablesReceive ==
  ASSUME TablesInv, NEW c \in Call, NEW how \in {"result", "failed"}, Receive(c, how)
  PROVE  TablesInv'
<1> USE DesktopAssumption DEF TablesInv, Receive, Settles
<1>1. TablesTypeOK'
  BY DEF TablesTypeOK, InProgress
<1>2. EntriesOpen'
  BY DEF TablesTypeOK, EntriesOpen, KeysGiven, InProgress
<1>3. HandlersOpen'
  BY DEF TablesTypeOK, HandlersOpen, InProgress, Call, Id
<1>4. KeysGiven'
  BY DEF TablesTypeOK, EntriesOpen, KeysGiven, InProgress
<1>5. NoOrphan'
  BY DEF TablesTypeOK, EntriesOpen, KeysGiven, NoOrphan, Shared, InProgress
<1>6. AnswersMatch'
  BY DEF TablesTypeOK, EntriesOpen, KeysGiven, AnswersMatch, Shared, InProgress
<1> QED BY <1>1, <1>2, <1>3, <1>4, <1>5, <1>6

\* disconnect() fails what is pending and empties the table.
LEMMA TablesDisconnectClose ==
  ASSUME TablesInv, NEW t \in Task, DisconnectClose(t) \/ DisconnectGone(t)
  PROVE  TablesInv'
<1>0. FailPending /\ UNCHANGED <<handlers, key, cs, got, received>>
  BY DEF DisconnectClose, DisconnectGone
<1> USE <1>0, DesktopAssumption DEF TablesInv, FailPending
<1>1. TablesTypeOK'
  BY DEF TablesTypeOK, InProgress
<1>2. EntriesOpen'
  BY DEF TablesTypeOK, EntriesOpen, KeysGiven, InProgress
<1>3. HandlersOpen'
  BY DEF TablesTypeOK, HandlersOpen, InProgress, Call, Id
<1>4. KeysGiven'
  BY DEF TablesTypeOK, EntriesOpen, KeysGiven, InProgress
<1>5. NoOrphan'
  BY DEF TablesTypeOK, EntriesOpen, KeysGiven, NoOrphan, Shared, InProgress
<1>6. AnswersMatch'
  BY DEF TablesTypeOK, EntriesOpen, KeysGiven, AnswersMatch, Shared, InProgress
<1> QED BY <1>1, <1>2, <1>3, <1>4, <1>5, <1>6

\* The tables are left alone by every other step; what was sent may be forgotten.
LEMMA TablesOthers ==
  ASSUME TablesTypeOK,
         \/ \E p \in Proc : Connects(p)
         \/ \E t \in Task : Uses(t) /\ ~DisconnectClose(t) /\ ~DisconnectGone(t)
         \/ Loops
         \/ UNCHANGED vars
  PROVE  UNCHANGED tables /\ received' \subseteq received
<1>1. CASE \E p \in Proc : Connects(p)
  BY <1>1 DEF Connects, ConnectKnown, ConnectOpen, ConnectOpens, ConnectFails
<1>2. CASE \E t \in Task : Uses(t) /\ ~DisconnectClose(t) /\ ~DisconnectGone(t)
  BY <1>2 DEF Uses, ConnectCall, DisconnectCall, DisconnectNothing, DisconnectEnd
<1>3. CASE Loops
  BY <1>3 DEF Loops, LoopStart, LoopEnds, ReconnectTest, ReconnectWakes, HeartbeatEnds,
     BackendGoes
<1>4. CASE UNCHANGED vars
  BY <1>4 DEF vars
<1> QED BY <1>1, <1>2, <1>3, <1>4

\* Every step preserves the invariant of the tables.
LEMMA TablesStep == TablesInv /\ [Next]_vars => TablesInv'
<1> SUFFICES ASSUME TablesInv, [Next]_vars PROVE TablesInv'
  OBVIOUS
<1>1. CASE \E c \in Call : CallOnly(c)
  BY <1>1, TablesSendRefused, TablesSend, TablesDrainDone, TablesReturn, TablesExpire,
     TablesTimesOut, TablesCancelled DEF CallOnly
<1>2. CASE \E c \in Call : DrainFails(c)
  BY <1>2, TablesDrainFails
<1>3. CASE \E c \in Call : \E how \in {"result", "failed"} : Receive(c, how)
  BY <1>3, TablesReceive
<1>4. CASE \E t \in Task : DisconnectClose(t) \/ DisconnectGone(t)
  BY <1>4, TablesDisconnectClose
<1>5. CASE \/ \E p \in Proc : Connects(p)
           \/ \E t \in Task : Uses(t) /\ ~DisconnectClose(t) /\ ~DisconnectGone(t)
           \/ Loops
           \/ UNCHANGED vars
  BY <1>5, TablesOthers, TablesStutter DEF TablesInv
<1> QED BY <1>1, <1>2, <1>3, <1>4, <1>5, StepKinds

\* It holds in every reachable state.
LEMMA TablesAlways == Spec => []TablesInv
BY TablesInit, TablesStep, PTL DEF Spec

\* The client keeps its type; _reconnect_attempts never exceeds one.
THEOREM DesktopTyped == Spec => []TypeOK
<1>1. ControlInv /\ TablesInv => TypeOK
  BY DEF ControlInv, TablesInv, TypeOK
<1> QED BY <1>1, ControlAlways, TablesAlways, PTL

(***************************************************************************)
(* No entry of _pending_requests or _stream_handlers outlives its call,    *)
(* but for a cancelled one, for any number of requests and any ids that    *)
(* cancel_inference() reuses.                                              *)
(***************************************************************************)
THEOREM DesktopTables == Spec => []TablesExplained
<1>1. TablesInv => TablesExplained
  BY DEF TablesInv, TablesTypeOK, EntriesOpen, HandlersOpen, TablesExplained, InProgress
<1> QED BY <1>1, TablesAlways, PTL

\* An open call is found by its answer, unless another call has its id.
THEOREM DesktopNoOrphan == Spec => []NoOrphan
<1>1. TablesInv => NoOrphan
  BY DEF TablesInv
<1> QED BY <1>1, TablesAlways, PTL

\* A call is settled by its own answer, unless another call has its id.
THEOREM DesktopAnswersMatch == Spec => []AnswersMatch
<1>1. TablesInv => AnswersMatch
  BY DEF TablesInv
<1> QED BY <1>1, TablesAlways, PTL

\* The connection's side: types, the lock over the awaits, a live connection
\* served (connect, disconnect, _reconnect_loop, _start_heartbeat).
THEOREM DesktopSafe == Spec => []DesktopInv
<1>1. TypeOK /\ LockCoversAwaits /\ LiveIsServed => DesktopInv
  BY DEF DesktopInv
<1> QED BY <1>1, DesktopTyped, DesktopLock, DesktopServed, PTL

\* The callers' side: tables, and who is settled by which answer (send_request,
\* send_stream_request, _handle_message).
THEOREM DesktopCalls == Spec => []CallsInv
<1>1. TablesExplained /\ NoOrphan /\ AnswersMatch => CallsInv
  BY DEF CallsInv
<1> QED BY <1>1, DesktopTables, DesktopNoOrphan, DesktopAnswersMatch, PTL

=============================================================================
