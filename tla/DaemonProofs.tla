---------------------------- MODULE DaemonProofs ----------------------------
(***************************************************************************)
(* Theorems about the AI daemon, for every number of connections, tokens   *)
(* and clients and every rate: its sessions and its rate limiter.          *)
(***************************************************************************)
EXTENDS DaemonSessions, RateLimiter, FiniteSetTheorems, TLAPS

(***************************************************************************)
(* What the invariant of the sessions rests on: a session's lifetime is    *)
(* fixed when it is created, a connection only knows tokens handed out,    *)
(* has a fresh one exactly while it authenticates, and has put it into the *)
(* map before it adopts it.                                                *)
(***************************************************************************)
TokensTracked ==
  /\ \A t \in DOMAIN created : expires[t] = created[t] + Ttl
  /\ \A c \in Conn :
       /\ {conn[c].session, conn[c].fresh} \subseteq DOMAIN created \cup {NoToken}
       /\ conn[c].fresh # NoToken <=> conn[c].pc \in {"created", "inserted"}
       /\ conn[c].pc = "inserted" => conn[c].fresh \in sessions

\* The invariant that is inductive.
SessionIInv == SessionInv /\ TokensTracked /\ HandledWasValid

\* A step of one connection that hands out no token: it keeps the invariant
\* if the connection itself is left in order and no other token leaves the map.
LEMMA ConnStepKeeps ==
  ASSUME SessionIInv, NEW c \in Conn, NEW r \in ConnRecord,
         conn' = [conn EXCEPT ![c] = r], UNCHANGED <<created, expires, now>>,
         {r.session, r.fresh} \subseteq {conn[c].session, conn[c].fresh, NoToken},
         sessions \ {conn[c].session, conn[c].fresh} \subseteq sessions',
         sessions' \subseteq sessions \cup ({conn[c].fresh} \ {NoToken}),
         orphaned \subseteq orphaned', orphaned' \subseteq orphaned \cup ({conn[c].session} \ {NoToken}),
         r.fresh # NoToken <=> r.pc \in {"created", "inserted"},
         r.pc = "inserted" => r.fresh \in sessions',
         r.session # NoToken /\ ~Expired(r.session) => r.session \in sessions',
         r.pc \in {"checked", "handling"} =>
           /\ r.session \in sessions' /\ r.at <= now
           /\ r.at - created[r.session] < Ttl,
         sessions' \cap {conn[c].session, conn[c].fresh} \subseteq orphaned' \cup {r.session, r.fresh}
  PROVE  SessionIInv'
<1>1. /\ conn \in [Conn -> ConnRecord] /\ NoToken \notin Token
      /\ sessions \subseteq DOMAIN created /\ DOMAIN created \subseteq Token
      /\ orphaned \subseteq DOMAIN created
  BY SessionAssumption DEF SessionIInv, SessionInv, TypeOK
<1>2. conn'[c] = r /\ \A d \in Conn \ {c} : conn'[d] = conn[d]
  BY <1>1
<1>3. \A d \in Conn : {conn[d].session, conn[d].fresh} \subseteq DOMAIN created \cup {NoToken}
  BY DEF SessionIInv, TokensTracked
<1>4. TypeOK'
  <2>1. conn' \in [Conn -> ConnRecord]
    BY <1>1
  <2>2. sessions' \subseteq DOMAIN created /\ orphaned' \subseteq DOMAIN created
    BY <1>1, <1>3
  <2> QED  BY <2>1, <2>2 DEF TypeOK, SessionIInv, SessionInv
<1>5. \A d \in Conn \ {c} :
        {conn[c].session, conn[c].fresh} \cap {conn[d].session, conn[d].fresh} \subseteq {NoToken}
  BY DEF SessionIInv, SessionInv, OneHolder
<1>6. OneHolder'
  <2>1. \A d, e \in Conn \ {c} : d # e =>
          {conn[d].session, conn[d].fresh} \cap {conn[e].session, conn[e].fresh} \subseteq {NoToken}
    BY DEF SessionIInv, SessionInv, OneHolder
  <2>2. \A d \in Conn \ {c} :
          {r.session, r.fresh} \cap {conn[d].session, conn[d].fresh} \subseteq {NoToken}
    BY <1>5
  <2> QED  BY <1>2, <2>1, <2>2 DEF OneHolder
<1>7. HeldSessionUsable'
  <2>1. ASSUME NEW d \in Conn \ {c}, conn[d].session # NoToken, ~Expired(conn[d].session)
        PROVE  conn[d].session \in sessions'
    <3>1. conn[d].session \in sessions
      BY <2>1 DEF SessionIInv, SessionInv, HeldSessionUsable, Authenticated
    <3> QED  BY <1>5, <2>1, <3>1
  <2> QED  BY <1>2, <2>1 DEF HeldSessionUsable, Authenticated, Expired
<1>8. LeftoversExplained'
  <2> SUFFICES ASSUME NEW t \in sessions', t \notin orphaned'
               PROVE  \E d \in Conn : t \in {conn'[d].session, conn'[d].fresh}
    BY DEF LeftoversExplained
  <2>1. CASE t \in {conn[c].session, conn[c].fresh}
    BY <1>2, <2>1
  <2>2. CASE t \notin {conn[c].session, conn[c].fresh}
    <3>1. t \in sessions /\ t \notin orphaned
      BY <2>2
    <3> QED  BY <1>2, <2>2, <3>1 DEF SessionIInv, SessionInv, LeftoversExplained
  <2> QED  BY <2>1, <2>2
<1>9. TokensTracked'
  <2>1. \A d \in Conn \ {c} : conn[d].pc = "inserted" => conn[d].fresh \in sessions'
    <3> SUFFICES ASSUME NEW d \in Conn \ {c}, conn[d].pc = "inserted"
                 PROVE  conn[d].fresh \in sessions'
      OBVIOUS
    <3>1. conn[d].fresh \in sessions /\ conn[d].fresh # NoToken
      BY DEF SessionIInv, TokensTracked
    <3> QED  BY <1>5, <3>1
  <2>2. {r.session, r.fresh} \subseteq DOMAIN created \cup {NoToken}
    BY <1>3
  <2> QED  BY <1>2, <2>1, <2>2 DEF SessionIInv, TokensTracked
<1>10. HandledWasValid'
  <2>1. ASSUME NEW d \in Conn \ {c}, conn[d].pc \in {"checked", "handling"}
        PROVE  /\ conn[d].session \in sessions' /\ conn[d].at <= now
               /\ conn[d].at - created[conn[d].session] < Ttl
    <3>1. /\ conn[d].session \in sessions /\ conn[d].session # NoToken /\ conn[d].at <= now
          /\ conn[d].at - created[conn[d].session] < Ttl
      BY <1>1, <2>1 DEF SessionIInv, HandledWasValid
    <3> QED  BY <1>5, <2>1, <3>1
  <2> QED  BY <1>2, <2>1 DEF HandledWasValid
<1> QED
  BY <1>4, <1>6, <1>7, <1>8, <1>9, <1>10 DEF SessionIInv, SessionInv

\* authenticate hands out a token nobody has had.
LEMMA AuthenticateKeeps ==
  ASSUME SessionIInv, NEW c \in Conn, Authenticate(c)
  PROVE  SessionIInv'
<1>1. PICK t \in Token \ DOMAIN created :
        /\ created' = [u \in DOMAIN created \cup {t} |-> IF u = t THEN now ELSE created[u]]
        /\ expires' = [u \in DOMAIN expires \cup {t} |-> IF u = t THEN now + Ttl ELSE expires[u]]
        /\ conn' = [conn EXCEPT ![c].pc = "created", ![c].fresh = t]
  BY DEF Authenticate
<1>2. /\ conn \in [Conn -> ConnRecord] /\ NoToken \notin Token /\ t # NoToken
      /\ sessions \subseteq DOMAIN created /\ DOMAIN created \subseteq Token
      /\ orphaned \subseteq DOMAIN created /\ DOMAIN expires = DOMAIN created
      /\ now \in 0..MaxTime /\ MaxTime \in Nat /\ Ttl \in Nat
      /\ created \in [DOMAIN created -> 0..MaxTime]
      /\ expires \in [DOMAIN created -> 0..(MaxTime + Ttl)]
  BY SessionAssumption DEF SessionIInv, SessionInv, TypeOK
<1>3. conn[c].pc = "idle" /\ UNCHANGED <<sessions, now, orphaned>>
  BY DEF Authenticate
<1>4. conn' \in [Conn -> ConnRecord]
  BY <1>1, <1>2, ZenonT(60) DEF ConnRecord
<1>5. /\ conn'[c].pc = "created" /\ conn'[c].session = conn[c].session /\ conn'[c].fresh = t
      /\ \A d \in Conn \ {c} : conn'[d] = conn[d]
  BY <1>1, <1>2, ZenonT(60) DEF ConnRecord
<1>6. /\ DOMAIN created' = DOMAIN created \cup {t} /\ created'[t] = now
      /\ \A u \in DOMAIN created : created'[u] = created[u]
  BY <1>1
<1>7. /\ DOMAIN expires' = DOMAIN created \cup {t} /\ expires'[t] = now + Ttl
      /\ \A u \in DOMAIN created : expires'[u] = expires[u]
  BY <1>1, <1>2
<1>8. TypeOK'
  <2>1. created' \in [DOMAIN created \cup {t} -> 0..MaxTime]
    BY <1>1, <1>2
  <2>2. expires' \in [DOMAIN created \cup {t} -> 0..(MaxTime + Ttl)]
    <3>1. now + Ttl \in 0..(MaxTime + Ttl)
      BY <1>2
    <3> QED  BY <1>1, <1>2, <3>1
  <2> QED  BY <1>2, <1>3, <1>4, <1>6, <2>1, <2>2 DEF TypeOK
<1>9. \A d \in Conn : /\ {conn[d].session, conn[d].fresh} \subseteq DOMAIN created \cup {NoToken}
                      /\ conn[d].session # t /\ conn[d].fresh # t
  BY <1>2 DEF SessionIInv, TokensTracked
<1>10. conn[c].fresh = NoToken
  BY <1>3 DEF SessionIInv, TokensTracked
<1>11. OneHolder'
  <2>1. \A d, e \in Conn : d # e =>
          {conn[d].session, conn[d].fresh} \cap {conn[e].session, conn[e].fresh} \subseteq {NoToken}
    BY DEF SessionIInv, SessionInv, OneHolder
  <2>2. \A d \in Conn \ {c} :
          {conn[c].session, t} \cap {conn[d].session, conn[d].fresh} \subseteq {NoToken}
    BY <1>9, <2>1
  <2> QED  BY <1>5, <2>1, <2>2 DEF OneHolder
<1>12. HeldSessionUsable'
  <2>1. \A d \in Conn : conn'[d].session = conn[d].session
    BY <1>5
  <2>2. \A d \in Conn : Authenticated(d) => expires'[conn[d].session] = expires[conn[d].session]
    BY <1>7, <1>9 DEF Authenticated
  <2> QED  BY <1>3, <2>1, <2>2 DEF HeldSessionUsable, Authenticated, Expired, SessionIInv, SessionInv
<1>13. LeftoversExplained'
  <2> SUFFICES ASSUME NEW u \in sessions, u \notin orphaned
               PROVE  \E d \in Conn : u \in {conn'[d].session, conn'[d].fresh}
    BY <1>3 DEF LeftoversExplained
  <2>1. PICK d \in Conn : u \in {conn[d].session, conn[d].fresh}
    BY DEF SessionIInv, SessionInv, LeftoversExplained
  <2>2. u # NoToken
    BY <1>2
  <2> QED  BY <1>5, <1>10, <2>1, <2>2
<1>14. TokensTracked'
  <2>1. \A u \in DOMAIN created' : expires'[u] = created'[u] + Ttl
    BY <1>6, <1>7 DEF SessionIInv, TokensTracked
  <2>2. ASSUME NEW d \in Conn
        PROVE  /\ {conn'[d].session, conn'[d].fresh} \subseteq DOMAIN created' \cup {NoToken}
               /\ conn'[d].fresh # NoToken <=> conn'[d].pc \in {"created", "inserted"}
               /\ conn'[d].pc = "inserted" => conn'[d].fresh \in sessions'
    <3>1. CASE d = c
      BY <1>2, <1>5, <1>6, <1>9, <3>1
    <3>2. CASE d # c
      BY <1>3, <1>5, <1>6, <3>2 DEF SessionIInv, TokensTracked
    <3> QED  BY <3>1, <3>2
  <2> QED  BY <2>1, <2>2 DEF TokensTracked
<1>15. HandledWasValid'
  <2> SUFFICES ASSUME NEW d \in Conn, conn'[d].pc \in {"checked", "handling"}
               PROVE  /\ conn'[d].session \in sessions' /\ conn'[d].at <= now'
                      /\ conn'[d].at - created'[conn'[d].session] < Ttl
    BY DEF HandledWasValid
  <2>1. d # c /\ conn'[d] = conn[d]
    BY <1>5
  <2>2. /\ conn[d].session \in sessions /\ conn[d].at <= now
        /\ conn[d].at - created[conn[d].session] < Ttl
    BY <2>1 DEF SessionIInv, HandledWasValid
  <2> QED  BY <1>2, <1>3, <1>6, <2>1, <2>2
<1> QED
  BY <1>8, <1>11, <1>12, <1>13, <1>14, <1>15 DEF SessionIInv, SessionInv

\* A connection that only moves on between its awaits.
LEMMA MoveKeeps ==
  ASSUME SessionIInv, NEW c \in Conn, NEW r \in ConnRecord,
         conn' = [conn EXCEPT ![c] = r], UNCHANGED <<sessions, created, expires, now, orphaned>>,
         r.session = conn[c].session, r.fresh = conn[c].fresh,
         {conn[c].pc, r.pc} \cap {"created", "inserted"} = {},
         r.pc \in {"checked", "handling"} =>
           /\ r.session \in sessions /\ r.at <= now
           /\ r.at - created[r.session] < Ttl
  PROVE  SessionIInv'
<1>1. conn[c].fresh = NoToken
  BY DEF SessionIInv, TokensTracked
<1>2. r.session # NoToken /\ ~Expired(r.session) => r.session \in sessions
  BY DEF SessionIInv, SessionInv, HeldSessionUsable, Authenticated
<1> QED
  BY <1>1, <1>2, ConnStepKeeps

\* The moves that check no session: whatever is in hand was in hand before.
LEMMA PassKeeps ==
  ASSUME SessionIInv, NEW c \in Conn,
         Connect(c) \/ AuthenticateFails(c) \/ Dispatch(c) \/ Limited(c) \/ Handled(c) \/ Answer(c)
  PROVE  SessionIInv'
<1> DEFINE r == conn'[c]
<1>1. conn \in [Conn -> ConnRecord] /\ MaxTime \in Nat
  BY SessionAssumption DEF SessionIInv, SessionInv, TypeOK
<1>2. /\ r \in ConnRecord /\ conn' = [conn EXCEPT ![c] = r]
      /\ r.session = conn[c].session /\ r.fresh = conn[c].fresh
      /\ {conn[c].pc, r.pc} \cap {"created", "inserted"} = {}
      /\ r.pc = "handling" => conn[c].pc = "checked" /\ r.at = conn[c].at
      /\ r.pc # "checked"
  <2>1. CASE Connect(c) \/ AuthenticateFails(c) \/ Answer(c)
    BY <1>1, <2>1 DEF ConnRecord, Connect, AuthenticateFails, Answer
  <2>2. CASE Dispatch(c)
    BY <1>1, <2>2 DEF ConnRecord, Dispatch
  <2>3. CASE Limited(c) \/ Handled(c)
    BY <1>1, <2>3 DEF ConnRecord, Limited, Handled
  <2> QED  BY <2>1, <2>2, <2>3
<1>3. UNCHANGED <<sessions, created, expires, now, orphaned>>
  BY DEF Connect, AuthenticateFails, Dispatch, Limited, Handled, Answer
<1>4. conn[c].pc = "checked" =>
        /\ conn[c].session \in sessions /\ conn[c].at <= now
        /\ conn[c].at - created[conn[c].session] < Ttl
  BY DEF SessionIInv, HandledWasValid
<1> HIDE DEF r
<1> QED
  BY <1>2, <1>3, <1>4, MoveKeeps

\* check_permission looks at the session there and then.
LEMMA CheckKeeps ==
  ASSUME SessionIInv, NEW c \in Conn, NEW m \in Message, Check(c, m)
  PROVE  SessionIInv'
<1> DEFINE r == [conn[c] EXCEPT !.pc = "checked", !.at = now]
           s == conn[c].session
<1>1. conn \in [Conn -> ConnRecord] /\ MaxTime \in Nat /\ Ttl \in Nat /\ now \in 0..MaxTime
  BY SessionAssumption DEF SessionIInv, SessionInv, TypeOK
<1>2. r \in ConnRecord /\ conn' = [conn EXCEPT ![c] = r]
  BY <1>1 DEF ConnRecord, Check
<1>3. /\ r.pc = "checked" /\ r.session = s /\ r.fresh = conn[c].fresh
      /\ r.at = now /\ conn[c].pc = "idle"
  BY <1>1 DEF ConnRecord, Check
<1>4. /\ s \in sessions /\ s \in DOMAIN created /\ ~(now >= expires[s])
      /\ UNCHANGED <<sessions, created, expires, now, orphaned>>
  BY DEF Check, Permitted, Expired, SessionIInv, SessionInv, TypeOK
<1>5. created[s] \in 0..MaxTime /\ expires[s] = created[s] + Ttl
  BY <1>4 DEF SessionIInv, SessionInv, TypeOK, TokensTracked
<1>6. now - created[s] < Ttl
  BY <1>1, <1>4, <1>5
<1> HIDE DEF r, s
<1>7. now <= now
  BY <1>1
<1> QED
  BY <1>2, <1>3, <1>4, <1>6, <1>7, MoveKeeps DEF s

\* sessions.insert of the fresh token.
LEMMA InsertKeeps ==
  ASSUME SessionIInv, NEW c \in Conn, Insert(c)
  PROVE  SessionIInv'
<1> DEFINE r == [conn[c] EXCEPT !.pc = "inserted"]
<1>1. conn \in [Conn -> ConnRecord]
  BY DEF SessionIInv, SessionInv, TypeOK
<1>2. r \in ConnRecord /\ conn' = [conn EXCEPT ![c] = r]
  BY <1>1 DEF ConnRecord, Insert
<1>3. /\ r.pc = "inserted" /\ r.session = conn[c].session /\ r.fresh = conn[c].fresh
      /\ conn[c].fresh # NoToken
      /\ r.session # NoToken /\ ~Expired(r.session) => r.session \in sessions
  BY <1>1 DEF ConnRecord, SessionIInv, SessionInv, HeldSessionUsable, TokensTracked, Authenticated, Insert
<1>4. sessions' = sessions \cup {conn[c].fresh} /\ UNCHANGED <<created, expires, now, orphaned>>
  BY DEF Insert
<1> HIDE DEF r
<1> QED
  BY <1>2, <1>3, <1>4, ConnStepKeeps

\* The connection adopts the fresh token and orphans the one it had.
LEMMA AdoptKeeps ==
  ASSUME SessionIInv, NEW c \in Conn, Adopt(c)
  PROVE  SessionIInv'
<1> DEFINE r == [pc |-> "answering", session |-> conn[c].fresh, fresh |-> NoToken, at |-> 0]
<1>1. conn \in [Conn -> ConnRecord]
  BY DEF SessionIInv, SessionInv, TypeOK
<1>2. r \in ConnRecord /\ conn' = [conn EXCEPT ![c] = r]
  BY <1>1, SessionAssumption DEF ConnRecord, Adopt
<1>3. /\ r.pc = "answering" /\ r.session = conn[c].fresh /\ r.fresh = NoToken
      /\ conn[c].fresh # NoToken /\ conn[c].fresh \in sessions
  BY DEF SessionIInv, TokensTracked, Adopt
<1>4. /\ sessions' = IF Expired(conn[c].fresh) THEN sessions \ {conn[c].fresh} ELSE sessions
      /\ orphaned' = orphaned \cup ({conn[c].session} \ {NoToken})
      /\ UNCHANGED <<created, expires, now>>
  BY DEF Adopt
<1>5. NoToken \notin sessions
  BY SessionAssumption DEF SessionIInv, SessionInv, TypeOK
<1> HIDE DEF r
<1> QED
  BY <1>2, <1>3, <1>4, <1>5, ConnStepKeeps

\* The end of a connection, with its session destroyed or orphaned.
LEMMA CloseKeeps ==
  ASSUME SessionIInv, NEW c \in Conn, Disconnect(c) \/ AnswerFails(c)
  PROVE  SessionIInv'
<1>1. Closed \in ConnRecord /\ conn' = [conn EXCEPT ![c] = Closed]
  BY SessionAssumption DEF ConnRecord, Closed, Disconnect, AnswerFails
<1>2. /\ Closed.pc = "closed" /\ Closed.session = NoToken /\ Closed.fresh = NoToken
      /\ conn[c].fresh = NoToken /\ NoToken \notin sessions
  BY SessionAssumption DEF Closed, SessionIInv, SessionInv, TypeOK, TokensTracked, Disconnect, AnswerFails
<1>3. /\ UNCHANGED <<created, expires, now>>
      /\ \/ sessions' = sessions \ {conn[c].session} /\ orphaned' = orphaned
         \/ sessions' = sessions /\ orphaned' = orphaned \cup ({conn[c].session} \ {NoToken})
  BY DEF Disconnect, AnswerFails
<1> QED
  BY <1>1, <1>2, <1>3, ConnStepKeeps

\* A refused message may remove the connection's own expired session.
LEMMA RefuseKeeps ==
  ASSUME SessionIInv, NEW c \in Conn, NEW m \in Message, Refuse(c, m)
  PROVE  SessionIInv'
<1> DEFINE r == [conn[c] EXCEPT !.pc = "answering"]
<1>1. conn \in [Conn -> ConnRecord]
  BY DEF SessionIInv, SessionInv, TypeOK
<1>2. r \in ConnRecord /\ conn' = [conn EXCEPT ![c] = r]
  BY <1>1 DEF ConnRecord, Refuse
<1>3. /\ r.pc = "answering" /\ r.session = conn[c].session /\ r.fresh = conn[c].fresh
      /\ conn[c].fresh = NoToken
      /\ r.session # NoToken /\ ~Expired(r.session) => r.session \in sessions
  BY <1>1 DEF ConnRecord, SessionIInv, SessionInv, HeldSessionUsable, TokensTracked, Authenticated, Refuse
<1>4. /\ sessions' = IF Expired(conn[c].session) THEN sessions \ {conn[c].session} ELSE sessions
      /\ UNCHANGED <<created, expires, now, orphaned>>
  BY DEF Refuse
<1> HIDE DEF r
<1> QED
  BY <1>2, <1>3, <1>4, ConnStepKeeps

\* Time only makes sessions expire.
LEMMA TickKeeps ==
  ASSUME SessionIInv, Tick
  PROVE  SessionIInv'
<1>1. /\ now' = now + 1 /\ now' \in 0..MaxTime /\ now \in 0..MaxTime
      /\ UNCHANGED <<sessions, created, expires, conn, orphaned>>
      /\ expires \in [DOMAIN created -> 0..(MaxTime + Ttl)] /\ Ttl \in Nat /\ MaxTime \in Nat
  BY SessionAssumption DEF Tick, SessionIInv, SessionInv, TypeOK
<1>2. TypeOK' /\ OneHolder' /\ LeftoversExplained' /\ TokensTracked'
  BY <1>1 DEF TypeOK, OneHolder, LeftoversExplained, TokensTracked, SessionIInv, SessionInv
<1>3. HeldSessionUsable'
  <2> SUFFICES ASSUME NEW c \in Conn, conn[c].session # NoToken, ~(now' >= expires[conn[c].session])
               PROVE  conn[c].session \in sessions
    BY <1>1 DEF HeldSessionUsable, Authenticated, Expired
  <2>1. conn[c].session \in DOMAIN created
    BY DEF SessionIInv, TokensTracked
  <2>2. expires[conn[c].session] \in 0..(MaxTime + Ttl)
    BY <1>1, <2>1
  <2>3. ~(now >= expires[conn[c].session])
    BY <1>1, <2>2
  <2> QED  BY <2>3 DEF HeldSessionUsable, Authenticated, Expired, SessionIInv, SessionInv
<1>4. HandledWasValid'
  <2> SUFFICES ASSUME NEW c \in Conn, conn[c].pc \in {"checked", "handling"}
               PROVE  /\ conn[c].session \in sessions /\ conn[c].at <= now'
                      /\ conn[c].at - created[conn[c].session] < Ttl
    BY <1>1 DEF HandledWasValid
  <2>1. conn[c].at \in 0..MaxTime
    BY DEF SessionIInv, SessionInv, TypeOK, ConnRecord
  <2>2. /\ conn[c].session \in sessions /\ conn[c].at <= now
        /\ conn[c].at - created[conn[c].session] < Ttl
    BY DEF SessionIInv, HandledWasValid
  <2> QED  BY <1>1, <2>1, <2>2
<1> QED
  BY <1>2, <1>3, <1>4 DEF SessionIInv, SessionInv

\* Every step of the daemon keeps the inductive invariant.
LEMMA SessionStep == SessionIInv /\ [Next]_vars => SessionIInv'
<1> SUFFICES ASSUME SessionIInv, [Next]_vars PROVE SessionIInv'
  OBVIOUS
<1>1. ASSUME UNCHANGED vars PROVE SessionIInv'
  BY <1>1 DEF vars, SessionIInv, SessionInv, TypeOK, OneHolder, HeldSessionUsable,
              LeftoversExplained, TokensTracked, HandledWasValid, Authenticated, Expired
<1>2. ASSUME NEW c \in Conn, NEW m \in Message, Unauthenticated(c, m) PROVE SessionIInv'
  BY <1>1, <1>2 DEF Unauthenticated
<1> QED
  BY <1>1, <1>2, PassKeeps, CheckKeeps, AuthenticateKeeps, InsertKeeps, AdoptKeeps, CloseKeeps,
     RefuseKeeps, TickKeeps
     DEF Next, TaskStep

(***************************************************************************)
(* The inductive invariant holds throughout.                               *)
(***************************************************************************)
LEMMA SessionInductive == Spec => []SessionIInv
<1>1. Init => SessionIInv
  <2> SUFFICES ASSUME Init PROVE SessionIInv
    OBVIOUS
  <2>1. /\ DOMAIN created = {} /\ created \in [{} -> 0..MaxTime] /\ sessions = {}
        /\ expires \in [{} -> 0..(MaxTime + Ttl)] /\ orphaned = {} /\ now \in 0..MaxTime
    BY SessionAssumption DEF Init
  <2>2. /\ conn \in [Conn -> ConnRecord]
        /\ \A c \in Conn : conn[c].pc = "closed" /\ conn[c].session = NoToken /\ conn[c].fresh = NoToken
    BY SessionAssumption DEF Init, Closed, ConnRecord
  <2> QED
    BY <2>1, <2>2 DEF SessionIInv, SessionInv, TypeOK, OneHolder, HeldSessionUsable,
                      LeftoversExplained, TokensTracked, HandledWasValid, Authenticated
<1> QED
  BY <1>1, SessionStep, PTL DEF Spec

(***************************************************************************)
(* Sessions are private and lasting for any number of TCP and Unix         *)
(* connections: authenticate gives no token to two of them, and no other   *)
(* connection's disconnect, expiry or re-authentication takes a held       *)
(* session out of the map.                                                 *)
(***************************************************************************)
THEOREM SessionSafe == Spec => []SessionInv
<1>1. SessionIInv => SessionInv
  BY DEF SessionIInv
<1> QED
  BY <1>1, SessionInductive, PTL

(***************************************************************************)
(* process_message hands no message to a handler whose session was older   *)
(* than its time to live when check_permission saw it, however active the  *)
(* connection is, and the session is still in the map when the handler     *)
(* ends, for any number of connections that meanwhile expire, disconnect   *)
(* or authenticate again.                                                  *)
(***************************************************************************)
THEOREM HandledSafe == Spec => []HandledWasValid
<1>1. SessionIInv => HandledWasValid
  BY DEF SessionIInv
<1> QED
  BY <1>1, SessionInductive, PTL

-----------------------------------------------------------------------------
(***************************************************************************)
(* What the limiter's invariants rest on.  A client that is tracked holds  *)
(* at least what was refilled since it was denied; what it was granted and *)
(* what it still holds fit into the burst and the refill; a client that is *)
(* not tracked could start again with a full bucket.                       *)
(***************************************************************************)
DebtPaid ==
  \A c \in DOMAIN bucket : denied[c] # -1 =>
    /\ denied[c] <= bucket[c].last
    /\ bucket[c].tokens >= Smaller((bucket[c].last - denied[c]) * Rate, Full)

Spent(c) == allowed[c] * Scale

Allowance(c, t) == Full + (t - since[c]) * Rate + discarded[c] * GivenAway

TrackedFit ==
  \A c \in DOMAIN bucket :
    since[c] # -1 /\ Spent(c) + bucket[c].tokens <= Allowance(c, bucket[c].last)

UntrackedFit ==
  \A c \in Client \ DOMAIN bucket :
    /\ since[c] = -1 => allowed[c] = 0 /\ discarded[c] = 0
    /\ since[c] # -1 => Spent(c) + Full <= Allowance(c, clock)

\* The invariant that is inductive.
LimiterIInv ==
  /\ LimiterTypeOK /\ ActiveCounted /\ IsFiniteSet(DOMAIN bucket)
  /\ DebtPaid /\ TrackedFit /\ UntrackedFit

\* The rates are positive integers, and a full bucket holds a token.
LEMMA RateFacts ==
  /\ Scale \in Nat /\ Rate \in Nat /\ Burst \in Nat /\ Scale > 0 /\ Rate > 0 /\ Burst > 0
  /\ Full \in Nat /\ Full >= Scale /\ GivenAway \in Int /\ MaxClock \in Nat
<1>1. Scale \in Nat /\ Rate \in Nat /\ Burst \in Nat /\ Scale > 0 /\ Rate > 0 /\ Burst > 0 /\ MaxClock \in Nat
  BY RateAssumption
<1>2. Burst * Scale \in Nat /\ Burst * Scale >= Scale
  BY <1>1
<1>3. (Burst * 19 + 19) \div 20 \in Int
  BY <1>1
<1>4. ((Burst * 19 + 19) \div 20) * Scale \in Int
  BY <1>1, <1>3
<1> QED
  BY <1>1, <1>2, <1>4 DEF Full, GivenAway

\* A refill takes time in proportion, and no time no tokens.
LEMMA RefillAdds ==
  ASSUME NEW a \in Int, NEW b \in Int, NEW c \in Int, a <= b, b <= c
  PROVE  /\ (b - a) * Rate \in Nat /\ (c - a) * Rate = (b - a) * Rate + (c - b) * Rate
         /\ (b - a) * Rate <= (c - a) * Rate /\ (a - a) * Rate = 0
  BY RateFacts

\* TokenBucket::refill yields a bucket that is up to date and never emptier.
LEMMA RefillIn ==
  ASSUME NEW b \in Bucket, b.last <= clock, clock \in 0..MaxClock
  PROVE  /\ Refill(b).last = clock /\ Refill(b).tokens \in 0..Full
         /\ Refill(b).tokens = Smaller(b.tokens + (clock - b.last) * Rate, Full)
         /\ b.tokens \in 0..Full /\ b.last \in 0..MaxClock /\ (clock - b.last) * Rate \in Nat
<1>1. b.tokens \in 0..Full /\ b.last \in 0..MaxClock
  BY DEF Bucket
<1>2. (clock - b.last) * Rate \in Nat
  BY <1>1, RateFacts, RefillAdds
<1> QED
  BY <1>1, <1>2, RateFacts DEF Refill, Smaller

\* The refilled bucket check_rate_limit decides on.
LEMMA BucketFacts ==
  ASSUME LimiterIInv, NEW c \in Client
  PROVE  /\ Refill(BucketOf(c)).last = clock /\ Refill(BucketOf(c)).tokens \in 0..Full
         /\ Refill(BucketOf(c)).tokens < Scale => c \in DOMAIN bucket
         /\ since[c] = -1 =>
              allowed[c] = 0 /\ discarded[c] = 0 /\ Refill(BucketOf(c)).tokens <= Full
         /\ since[c] # -1 => Spent(c) + Refill(BucketOf(c)).tokens <= Allowance(c, clock)
         /\ c \in DOMAIN bucket /\ denied[c] # -1 =>
              /\ denied[c] <= clock
              /\ Refill(BucketOf(c)).tokens >= Smaller((clock - denied[c]) * Rate, Full)
<1>1. /\ clock \in 0..MaxClock /\ since[c] \in -1..MaxClock /\ denied[c] \in -1..MaxClock
      /\ allowed[c] \in Nat /\ discarded[c] \in Nat /\ clock \in Int /\ since[c] \in Int
      /\ denied[c] \in Int
  BY RateFacts DEF LimiterIInv, LimiterTypeOK
<1>2. Spent(c) \in Int /\ discarded[c] * GivenAway \in Int
  BY <1>1, RateFacts DEF Spent
<1>3. CASE c \in DOMAIN bucket
  <2> DEFINE b == bucket[c]
  <2>1. b \in Bucket /\ b.last <= clock /\ BucketOf(c) = b
    BY <1>3 DEF LimiterIInv, LimiterTypeOK, BucketOf
  <2>2. /\ Refill(b).last = clock /\ Refill(b).tokens \in 0..Full
        /\ Refill(b).tokens = Smaller(b.tokens + (clock - b.last) * Rate, Full)
        /\ b.tokens \in 0..Full /\ b.last \in 0..MaxClock /\ (clock - b.last) * Rate \in Nat
    BY <1>1, <2>1, RefillIn
  <2>3. since[c] # -1 /\ Spent(c) + b.tokens <= Allowance(c, b.last)
    BY <1>3 DEF LimiterIInv, TrackedFit
  <2>4. (clock - since[c]) * Rate = (b.last - since[c]) * Rate + (clock - b.last) * Rate
    BY <1>1, <2>2, RateFacts
  <2>5. Allowance(c, clock) = Allowance(c, b.last) + (clock - b.last) * Rate
    <3>1. (b.last - since[c]) * Rate \in Int
      BY <1>1, <2>2, RateFacts
    <3> QED  BY <1>2, <2>2, <2>4, <3>1, RateFacts DEF Allowance
  <2>6. Allowance(c, b.last) \in Int
    BY <1>1, <1>2, <2>2, RateFacts DEF Allowance
  <2>7. Spent(c) + Refill(b).tokens <= Allowance(c, clock)
    BY <1>2, <2>2, <2>3, <2>5, <2>6, RateFacts DEF Smaller
  <2>8. ASSUME denied[c] # -1
        PROVE  /\ denied[c] <= clock
               /\ Refill(b).tokens >= Smaller((clock - denied[c]) * Rate, Full)
    <3>1. denied[c] <= b.last /\ b.tokens >= Smaller((b.last - denied[c]) * Rate, Full)
      BY <1>3, <2>8 DEF LimiterIInv, DebtPaid
    <3>2. /\ (clock - denied[c]) * Rate = (b.last - denied[c]) * Rate + (clock - b.last) * Rate
          /\ (b.last - denied[c]) * Rate \in Nat
      BY <1>1, <2>1, <2>2, <3>1, RateFacts, RefillAdds
    <3> HIDE DEF b
    <3> QED  BY <1>1, <2>1, <2>2, <3>1, <3>2, RateFacts DEF Smaller
  <2> HIDE DEF b
  <2> QED  BY <1>3, <2>1, <2>2, <2>3, <2>7, <2>8
<1>4. CASE c \notin DOMAIN bucket
  <2> DEFINE b == [tokens |-> Full, last |-> clock]
  <2>1. b \in Bucket /\ b.last = clock /\ b.tokens = Full /\ BucketOf(c) = b
    BY <1>1, <1>4, RateFacts DEF BucketOf, Bucket
  <2>2. (clock - clock) * Rate = 0
    BY <1>1, RateFacts
  <2> HIDE DEF b
  <2>3. Refill(b).last = clock /\ Refill(b).tokens = Full
    BY <2>1, <2>2, RateFacts DEF Refill, Smaller
  <2>4. /\ since[c] = -1 => allowed[c] = 0 /\ discarded[c] = 0
        /\ since[c] # -1 => Spent(c) + Full <= Allowance(c, clock)
    BY <1>4 DEF LimiterIInv, UntrackedFit
  <2> QED  BY <1>4, <2>1, <2>3, <2>4, RateFacts
<1> QED
  BY <1>3, <1>4

\* Storing a client's bucket counts the client if it is new.
LEMMA PutCounts ==
  ASSUME LimiterIInv, NEW c \in Client, NEW b, Put(c, b), CountClient(c)
  PROVE  /\ DOMAIN bucket' = DOMAIN bucket \cup {c} /\ bucket'[c] = b
         /\ \A d \in DOMAIN bucket \ {c} : bucket'[d] = bucket[d]
         /\ IsFiniteSet(DOMAIN bucket') /\ active' = Cardinality(DOMAIN bucket') /\ active' \in Nat
<1>1. /\ DOMAIN bucket' = DOMAIN bucket \cup {c} /\ bucket'[c] = b
      /\ \A d \in DOMAIN bucket \ {c} : bucket'[d] = bucket[d]
  BY DEF Put
<1>2. IsFiniteSet(DOMAIN bucket) /\ active = Cardinality(DOMAIN bucket) /\ active \in Nat
  BY DEF LimiterIInv, ActiveCounted, LimiterTypeOK
<1>3. /\ IsFiniteSet(DOMAIN bucket \cup {c})
      /\ Cardinality(DOMAIN bucket \cup {c}) =
           IF c \in DOMAIN bucket THEN Cardinality(DOMAIN bucket) ELSE Cardinality(DOMAIN bucket) + 1
  BY <1>2, FS_AddElement
<1> QED
  BY <1>1, <1>2, <1>3 DEF CountClient

\* A granted request pays for itself.
LEMMA AllowKeeps ==
  ASSUME LimiterIInv, NEW c \in Client, Allow(c)
  PROVE  LimiterIInv'
<1> DEFINE b == Refill(BucketOf(c))
           n == [b EXCEPT !.tokens = @ - Scale]
<1>1. /\ b.tokens >= Scale /\ Put(c, n) /\ CountClient(c)
      /\ allowed' = [allowed EXCEPT ![c] = @ + 1]
      /\ since' = [since EXCEPT ![c] = IF @ = -1 THEN clock ELSE @]
      /\ denied' = [denied EXCEPT ![c] = -1]
      /\ UNCHANGED <<clock, discarded>>
  BY DEF Allow
<1>2. /\ b.last = clock /\ b.tokens \in 0..Full
      /\ since[c] = -1 => allowed[c] = 0 /\ discarded[c] = 0 /\ b.tokens <= Full
      /\ since[c] # -1 => Spent(c) + b.tokens <= Allowance(c, clock)
  BY BucketFacts
<1>3. n.last = clock /\ n.tokens = b.tokens - Scale /\ n \in Bucket
  <2>1. clock \in 0..MaxClock /\ b.tokens - Scale \in 0..Full
    BY <1>1, <1>2, RateFacts DEF LimiterIInv, LimiterTypeOK
  <2>2. b = [tokens |-> b.tokens, last |-> b.last]
    BY DEF Refill
  <2>3. n = [tokens |-> b.tokens - Scale, last |-> b.last]
    BY <2>2
  <2> QED  BY <1>2, <2>1, <2>3 DEF Bucket
<1> HIDE DEF b, n
<1>4. /\ DOMAIN bucket' = DOMAIN bucket \cup {c} /\ bucket'[c] = n
      /\ \A d \in DOMAIN bucket \ {c} : bucket'[d] = bucket[d]
      /\ IsFiniteSet(DOMAIN bucket') /\ active' = Cardinality(DOMAIN bucket') /\ active' \in Nat
  BY <1>1, PutCounts
<1>5. /\ clock \in 0..MaxClock /\ allowed \in [Client -> Nat] /\ discarded \in [Client -> Nat]
      /\ since \in [Client -> -1..MaxClock] /\ denied \in [Client -> -1..MaxClock]
      /\ DOMAIN bucket \subseteq Client
      /\ \A d \in DOMAIN bucket : bucket[d] \in Bucket /\ bucket[d].last <= clock
  BY DEF LimiterIInv, LimiterTypeOK
<1>6. /\ since'[c] # -1 /\ since'[c] = (IF since[c] = -1 THEN clock ELSE since[c])
      /\ allowed'[c] = allowed[c] + 1 /\ denied'[c] = -1
      /\ since' \in [Client -> -1..MaxClock] /\ allowed' \in [Client -> Nat]
      /\ denied' \in [Client -> -1..MaxClock]
      /\ \A d \in Client \ {c} : /\ since'[d] = since[d] /\ allowed'[d] = allowed[d]
                                 /\ denied'[d] = denied[d]
  BY <1>1, <1>5, RateFacts
<1>7. LimiterTypeOK' /\ ActiveCounted'
  BY <1>1, <1>3, <1>4, <1>5, <1>6 DEF LimiterTypeOK, ActiveCounted
<1>8. DebtPaid'
  BY <1>4, <1>5, <1>6 DEF DebtPaid, LimiterIInv
<1>9. Spent(c)' + n.tokens <= Allowance(c, clock)'
  <2>1. (allowed[c] + 1) * Scale = allowed[c] * Scale + Scale /\ allowed[c] * Scale \in Nat
    BY <1>5, RateFacts
  <2>2. CASE since[c] = -1
    <3>1. Allowance(c, clock)' = Full
      <4>1. (clock - clock) * Rate = 0 /\ 0 * GivenAway = 0
        BY <1>5, RateFacts
      <4> QED  BY <1>1, <1>2, <1>6, <2>2, <4>1, RateFacts DEF Allowance, Full, GivenAway
    <3>2. Spent(c)' = Scale
      BY <1>2, <1>6, <2>2, RateFacts DEF Spent
    <3> QED  BY <1>2, <1>3, <2>2, <3>1, <3>2, RateFacts
  <2>3. CASE since[c] # -1
    <3>1. Allowance(c, clock)' = Allowance(c, clock) /\ Allowance(c, clock) \in Int
      BY <1>1, <1>5, <1>6, <2>3, RateFacts DEF Allowance, Full, GivenAway
    <3>2. Spent(c)' = Spent(c) + Scale /\ Spent(c) \in Int
      BY <1>6, <2>1 DEF Spent
    <3> QED  BY <1>2, <1>3, <2>3, <3>1, <3>2, RateFacts
  <2> QED  BY <2>2, <2>3
<1>10. TrackedFit'
  <2>1. bucket'[c].last = clock /\ bucket'[c].tokens = n.tokens /\ clock' = clock
    BY <1>1, <1>3, <1>4
  <2> QED
    BY <1>1, <1>4, <1>5, <1>6, <1>9, <2>1 DEF TrackedFit, LimiterIInv, Allowance, Spent, Full, GivenAway
<1>11. UntrackedFit'
  BY <1>1, <1>4, <1>6 DEF UntrackedFit, LimiterIInv, Allowance, Spent, Full, GivenAway
<1> QED
  BY <1>4, <1>7, <1>8, <1>10, <1>11 DEF LimiterIInv

\* A denied request stores the refill, so that no time is lost.
LEMMA DenyKeeps ==
  ASSUME LimiterIInv, NEW c \in Client, Deny(c)
  PROVE  LimiterIInv'
<1> DEFINE b == Refill(BucketOf(c))
<1>1. /\ b.tokens < Scale /\ Put(c, b) /\ CountClient(c)
      /\ denied' = [denied EXCEPT ![c] = IF @ = -1 THEN clock ELSE @]
      /\ UNCHANGED <<clock, since, allowed, discarded>>
  BY DEF Deny
<1>2. /\ b.last = clock /\ b.tokens \in 0..Full /\ c \in DOMAIN bucket
      /\ since[c] # -1 => Spent(c) + b.tokens <= Allowance(c, clock)
      /\ denied[c] # -1 => /\ denied[c] <= clock
                           /\ b.tokens >= Smaller((clock - denied[c]) * Rate, Full)
  BY <1>1, BucketFacts
<1>3. /\ clock \in 0..MaxClock /\ allowed \in [Client -> Nat] /\ discarded \in [Client -> Nat]
      /\ since \in [Client -> -1..MaxClock] /\ denied \in [Client -> -1..MaxClock]
      /\ DOMAIN bucket \subseteq Client
      /\ \A d \in DOMAIN bucket : bucket[d] \in Bucket /\ bucket[d].last <= clock
  BY DEF LimiterIInv, LimiterTypeOK
<1>4. b \in Bucket
  BY <1>2, <1>3 DEF Refill, Bucket
<1> HIDE DEF b
<1>5. /\ DOMAIN bucket' = DOMAIN bucket /\ bucket'[c] = b
      /\ \A d \in DOMAIN bucket \ {c} : bucket'[d] = bucket[d]
      /\ IsFiniteSet(DOMAIN bucket') /\ active' = Cardinality(DOMAIN bucket') /\ active' \in Nat
  BY <1>1, <1>2, PutCounts
<1>6. /\ denied'[c] = (IF denied[c] = -1 THEN clock ELSE denied[c])
      /\ denied' \in [Client -> -1..MaxClock]
      /\ \A d \in Client \ {c} : denied'[d] = denied[d]
  BY <1>1, <1>3, RateFacts
<1>7. LimiterTypeOK' /\ ActiveCounted'
  BY <1>1, <1>2, <1>3, <1>4, <1>5, <1>6, RateFacts DEF LimiterTypeOK, ActiveCounted
<1>8. DebtPaid'
  <2>1. /\ denied'[c] <= bucket'[c].last
        /\ bucket'[c].tokens >= Smaller((bucket'[c].last - denied'[c]) * Rate, Full)
    <3>1. CASE denied[c] = -1
      <4>1. (clock - clock) * Rate = 0
        BY <1>3, RateFacts
      <4>2. Smaller((clock - clock) * Rate, Full) = 0
        BY <4>1, RateFacts DEF Smaller
      <4> QED  BY <1>2, <1>3, <1>5, <1>6, <3>1, <4>2, RateFacts
    <3>2. CASE denied[c] # -1
      BY <1>2, <1>5, <1>6, <3>2
    <3> QED  BY <3>1, <3>2
  <2>2. \A d \in DOMAIN bucket \ {c} : denied'[d] # -1 =>
          /\ denied'[d] <= bucket'[d].last
          /\ bucket'[d].tokens >= Smaller((bucket'[d].last - denied'[d]) * Rate, Full)
    BY <1>3, <1>5, <1>6 DEF DebtPaid, LimiterIInv
  <2> QED  BY <1>5, <2>1, <2>2 DEF DebtPaid, Smaller, Full
<1>9. TrackedFit' /\ UntrackedFit'
  <2>1. since[c] # -1
    BY <1>2 DEF LimiterIInv, TrackedFit
  <2> QED
    BY <1>1, <1>2, <1>3, <1>5, <2>1
       DEF TrackedFit, UntrackedFit, LimiterIInv, Allowance, Spent, Full, GivenAway
<1> QED
  BY <1>5, <1>7, <1>8, <1>9 DEF LimiterIInv

\* A bucket that cleanup_stale discards lacked no more than GivenAway.
LEMMA StaleNearlyFull ==
  ASSUME LimiterIInv, NEW c \in Stale
  PROVE  Refill(bucket[c]).tokens + GivenAway >= Full
<1> DEFINE t == Refill(bucket[c]).tokens
           k == t \div Scale
           q == (Burst * 19 + 19) \div 20
<1>1. c \in DOMAIN bucket /\ k * 20 >= Burst * 19
  BY DEF Stale, Remaining
<1>2. t \in Nat
  <2>1. bucket[c] \in Bucket /\ bucket[c].last <= clock /\ clock \in 0..MaxClock
    BY <1>1 DEF LimiterIInv, LimiterTypeOK
  <2>2. t \in 0..Full
    BY <2>1, RefillIn
  <2> QED  BY <2>2, RateFacts
<1> HIDE DEF t
<1>3. k \in Nat /\ k * Scale <= t
  BY <1>2, RateFacts
<1>4. q \in Int /\ q * 20 <= Burst * 19 + 19
  BY RateFacts
<1> HIDE DEF k, q
<1>5. q <= k
  BY <1>1, <1>3, <1>4, RateFacts
<1>6. q * Scale <= k * Scale /\ q * Scale \in Int /\ k * Scale \in Int
  BY <1>3, <1>4, <1>5, RateFacts
<1>7. GivenAway = Full - q * Scale
  BY DEF GivenAway, q
<1> QED
  BY <1>2, <1>3, <1>6, <1>7, RateFacts DEF t

\* Discarding nearly full buckets gives away no more than is accounted for.
LEMMA CleanupKeeps ==
  ASSUME LimiterIInv, CleanupStale
  PROVE  LimiterIInv'
<1>1. /\ bucket' = [c \in DOMAIN bucket \ Stale |-> bucket[c]]
      /\ active' = active - Cardinality(Stale)
      /\ discarded' = [c \in Client |-> IF c \in Stale THEN discarded[c] + 1 ELSE discarded[c]]
      /\ UNCHANGED <<clock, since, allowed, denied>>
  BY DEF CleanupStale, Discard
<1>2. /\ clock \in 0..MaxClock /\ allowed \in [Client -> Nat] /\ discarded \in [Client -> Nat]
      /\ since \in [Client -> -1..MaxClock] /\ denied \in [Client -> -1..MaxClock]
      /\ DOMAIN bucket \subseteq Client /\ Stale \subseteq DOMAIN bucket
      /\ \A d \in DOMAIN bucket : bucket[d] \in Bucket /\ bucket[d].last <= clock
  BY DEF LimiterIInv, LimiterTypeOK, Stale
<1>3. /\ DOMAIN bucket' = DOMAIN bucket \ Stale
      /\ \A d \in DOMAIN bucket' : bucket'[d] = bucket[d]
  BY <1>1
<1>4. /\ IsFiniteSet(DOMAIN bucket') /\ active' = Cardinality(DOMAIN bucket') /\ active' \in Nat
  <2> DEFINE D == DOMAIN bucket
             S == Stale
  <2>1. IsFiniteSet(D) /\ active = Cardinality(D) /\ S \subseteq D
    BY <1>2 DEF LimiterIInv, ActiveCounted
  <2> HIDE DEF D, S
  <2>2. IsFiniteSet(S) /\ IsFiniteSet(D \ S)
    BY <2>1, FS_Subset
  <2>3. D = S \cup (D \ S) /\ S \cap (D \ S) = {}
    BY <2>1
  <2>4. Cardinality(D) = Cardinality(S) + Cardinality(D \ S) - Cardinality(S \cap (D \ S))
    BY <2>2, <2>3, FS_Union
  <2>5. Cardinality({}) = 0 /\ Cardinality(S) \in Nat /\ Cardinality(D \ S) \in Nat
    BY <2>2, FS_EmptySet, FS_CardinalityType
  <2>6. active - Cardinality(S) = Cardinality(D \ S)
    BY <2>1, <2>3, <2>4, <2>5
  <2> QED  BY <1>1, <1>3, <2>2, <2>5, <2>6 DEF D, S
<1>5. /\ discarded' \in [Client -> Nat]
      /\ \A c \in Client \ Stale : discarded'[c] = discarded[c]
      /\ \A c \in Stale : discarded'[c] = discarded[c] + 1
  BY <1>1, <1>2
<1>6. LimiterTypeOK' /\ ActiveCounted'
  BY <1>1, <1>2, <1>3, <1>4, <1>5 DEF LimiterTypeOK, ActiveCounted
<1>7. DebtPaid'
  BY <1>1, <1>3 DEF DebtPaid, LimiterIInv, Smaller, Full
<1>8. TrackedFit'
  BY <1>1, <1>2, <1>3, <1>5 DEF TrackedFit, LimiterIInv, Allowance, Spent, Full, GivenAway
<1>9. ASSUME NEW c \in Stale
      PROVE  since[c] # -1 /\ Spent(c)' + Full <= Allowance(c, clock)'
  <2>1. c \in DOMAIN bucket /\ c \in Client /\ BucketOf(c) = bucket[c]
    BY <1>2 DEF BucketOf
  <2>2. since[c] # -1
    BY <2>1 DEF LimiterIInv, TrackedFit
  <2>3. Spent(c) + Refill(bucket[c]).tokens <= Allowance(c, clock) /\ Refill(bucket[c]).tokens \in 0..Full
    BY <2>1, <2>2, BucketFacts
  <2>4. Refill(bucket[c]).tokens + GivenAway >= Full
    BY StaleNearlyFull
  <2>5. (discarded[c] + 1) * GivenAway = discarded[c] * GivenAway + GivenAway
        /\ discarded[c] * GivenAway \in Int
    BY <1>2, <2>1, RateFacts
  <2>6. Allowance(c, clock)' = Allowance(c, clock) + GivenAway /\ Allowance(c, clock) \in Int
    <3>1. (clock - since[c]) * Rate \in Int
      BY <1>2, <2>1, RateFacts
    <3>2. Full' = Full /\ GivenAway' = GivenAway
      BY DEF Full, GivenAway
    <3>3. Allowance(c, clock)' = Full + (clock - since[c]) * Rate + (discarded[c] + 1) * GivenAway
      BY <1>1, <1>5, <3>2 DEF Allowance
    <3> QED  BY <2>5, <3>1, <3>3, RateFacts DEF Allowance
  <2>7. Spent(c)' = Spent(c) /\ Spent(c) \in Int
    BY <1>1, <1>2, <2>1, RateFacts DEF Spent
  <2> QED  BY <2>2, <2>3, <2>4, <2>6, <2>7, RateFacts
<1>10. UntrackedFit'
  <2>1. ASSUME NEW c \in Client \ DOMAIN bucket
        PROVE  /\ since'[c] = -1 => allowed'[c] = 0 /\ discarded'[c] = 0
               /\ since'[c] # -1 => Spent(c)' + Full' <= Allowance(c, clock)'
    BY <1>1, <1>2, <1>5 DEF UntrackedFit, LimiterIInv, Allowance, Spent, Full, GivenAway
  <2>2. Full' = Full
    BY DEF Full
  <2>3. \A c \in Client \ DOMAIN bucket' : c \in Client \ DOMAIN bucket \/ c \in Stale
    BY <1>3
  <2> QED  BY <1>1, <1>9, <2>1, <2>2, <2>3 DEF UntrackedFit
<1> QED
  BY <1>4, <1>6, <1>7, <1>8, <1>10 DEF LimiterIInv

\* Time only adds to what a client may be granted.
LEMMA AdvanceKeeps ==
  ASSUME LimiterIInv, Advance
  PROVE  LimiterIInv'
<1>1. /\ clock' = clock + 1 /\ clock' \in 0..MaxClock /\ clock \in 0..MaxClock
      /\ UNCHANGED <<bucket, active, since, allowed, discarded, denied>>
  BY RateFacts DEF Advance, LimiterIInv, LimiterTypeOK
<1>2. LimiterTypeOK'
  <2>1. \A c \in DOMAIN bucket : bucket[c] \in Bucket /\ bucket[c].last \in 0..MaxClock /\ bucket[c].last <= clock
    BY DEF LimiterIInv, LimiterTypeOK, Bucket
  <2>2. \A c \in DOMAIN bucket : bucket[c].last <= clock + 1
    BY <1>1, <2>1, RateFacts
  <2> QED  BY <1>1, <2>1, <2>2 DEF LimiterIInv, LimiterTypeOK, Bucket, Full
<1>3. ActiveCounted' /\ DebtPaid' /\ TrackedFit' /\ IsFiniteSet(DOMAIN bucket')
  BY <1>1 DEF LimiterIInv, ActiveCounted, DebtPaid, TrackedFit, Allowance, Spent, Full, GivenAway, Smaller
<1>4. UntrackedFit'
  <2> SUFFICES ASSUME NEW c \in Client \ DOMAIN bucket, since[c] # -1
               PROVE  Spent(c)' + Full' <= Allowance(c, clock)'
    BY <1>1 DEF UntrackedFit, LimiterIInv
  <2>1. /\ allowed[c] \in Nat /\ discarded[c] \in Nat /\ since[c] \in -1..MaxClock
        /\ Spent(c) + Full <= Allowance(c, clock)
    BY DEF LimiterIInv, LimiterTypeOK, UntrackedFit
  <2>2. /\ allowed[c] * Scale \in Int /\ discarded[c] * GivenAway \in Int
        /\ (clock - since[c]) * Rate \in Int /\ (clock + 1 - since[c]) * Rate \in Int
        /\ (clock - since[c]) * Rate <= (clock + 1 - since[c]) * Rate
    BY <1>1, <2>1, RateFacts
  <2>3. Spent(c)' = Spent(c) /\ Full' = Full /\ GivenAway' = GivenAway
    BY <1>1 DEF Spent, Full, GivenAway
  <2>4. Allowance(c, clock)' = Full + (clock + 1 - since[c]) * Rate + discarded[c] * GivenAway
    <3>1. Allowance(c, clock)' = Full' + (clock' - since'[c]) * Rate + discarded'[c] * GivenAway'
      BY DEF Allowance
    <3>2. (clock' - since'[c]) * Rate = (clock + 1 - since[c]) * Rate
      BY <1>1, <2>1
    <3> QED  BY <1>1, <2>3, <3>1, <3>2
  <2> QED  BY <2>1, <2>2, <2>3, <2>4, RateFacts DEF Spent, Allowance
<1> QED
  BY <1>2, <1>3, <1>4 DEF LimiterIInv

\* The inductive invariant holds throughout.
LEMMA LimiterInductive == LimiterSpec => []LimiterIInv
<1>1. LimiterInit => LimiterIInv
  <2> SUFFICES ASSUME LimiterInit PROVE LimiterIInv
    OBVIOUS
  <2>1. DOMAIN bucket = {} /\ active = 0 /\ Cardinality({}) = 0 /\ IsFiniteSet({})
    BY FS_EmptySet DEF LimiterInit
  <2>2. /\ clock \in 0..MaxClock /\ allowed \in [Client -> Nat] /\ discarded \in [Client -> Nat]
        /\ since \in [Client -> -1..MaxClock] /\ denied \in [Client -> -1..MaxClock]
        /\ \A c \in Client : since[c] = -1 /\ allowed[c] = 0 /\ discarded[c] = 0
    BY RateFacts DEF LimiterInit
  <2> QED
    BY <2>1, <2>2 DEF LimiterIInv, LimiterTypeOK, ActiveCounted, DebtPaid, TrackedFit, UntrackedFit
<1>2. LimiterIInv /\ [LimiterNext]_limiterVars => LimiterIInv'
  <2> SUFFICES ASSUME LimiterIInv, [LimiterNext]_limiterVars PROVE LimiterIInv'
    OBVIOUS
  <2>1. CASE UNCHANGED limiterVars
    BY <2>1 DEF limiterVars, LimiterIInv, LimiterTypeOK, ActiveCounted, DebtPaid, TrackedFit,
                UntrackedFit, Allowance, Spent, Full, GivenAway, Smaller, Bucket
  <2> QED
    BY <2>1, AllowKeeps, DenyKeeps, CleanupKeeps, AdvanceKeeps DEF LimiterNext
<1> QED
  BY <1>1, <1>2, PTL DEF LimiterSpec

(***************************************************************************)
(* The figures of the rate limiter are honest for every rate and burst: no *)
(* bucket holds more than the burst, active_clients is exact after any mix *)
(* of requests and cleanups, and a denied client that waits retry_after is *)
(* not denied again, however often it asked in between.                    *)
(***************************************************************************)
THEOREM LimiterSafe == LimiterSpec => []LimiterInv
<1>1. LimiterIInv => LimiterInv
  <2> SUFFICES ASSUME LimiterIInv PROVE RetryAfterSuffices
    BY DEF LimiterIInv, LimiterInv
  <2> SUFFICES ASSUME NEW c \in DOMAIN bucket, denied[c] # -1, (clock - denied[c]) * Rate >= Scale
               PROVE  Refill(bucket[c]).tokens >= Scale
    BY DEF RetryAfterSuffices
  <2>1. c \in Client /\ BucketOf(c) = bucket[c] /\ clock \in 0..MaxClock /\ denied[c] \in -1..MaxClock
    BY DEF LimiterIInv, LimiterTypeOK, BucketOf
  <2>2. /\ Refill(bucket[c]).tokens >= Smaller((clock - denied[c]) * Rate, Full)
        /\ Refill(bucket[c]).tokens \in 0..Full
    BY <2>1, BucketFacts
  <2>3. (clock - denied[c]) * Rate \in Int
    BY <2>1, RateFacts
  <2> QED  BY <2>2, <2>3, RateFacts DEF Smaller
<1> QED
  BY <1>1, LimiterInductive, PTL

(***************************************************************************)
(* check_rate_limit grants no client more than the burst and the refill,   *)
(* but for what each cleanup_stale gives away, for every rate and burst.   *)
(***************************************************************************)
THEOREM GrantsSafe == LimiterSpec => []GrantsBounded
<1>1. LimiterIInv => GrantsBounded
  <2> SUFFICES ASSUME LimiterIInv, NEW c \in Client, since[c] # -1
               PROVE  allowed[c] * Scale <= Full + (clock - since[c]) * Rate + discarded[c] * GivenAway
    BY DEF GrantsBounded
  <2>1. /\ Spent(c) + Refill(BucketOf(c)).tokens <= Allowance(c, clock)
        /\ Refill(BucketOf(c)).tokens \in 0..Full
    BY BucketFacts
  <2>2. /\ allowed[c] \in Nat /\ discarded[c] \in Nat /\ since[c] \in -1..MaxClock
        /\ clock \in 0..MaxClock
    BY DEF LimiterIInv, LimiterTypeOK
  <2>3. /\ allowed[c] * Scale \in Int /\ discarded[c] * GivenAway \in Int
        /\ (clock - since[c]) * Rate \in Int
    BY <2>2, RateFacts
  <2> QED  BY <2>1, <2>3, RateFacts DEF Spent, Allowance
<1> QED
  BY <1>1, LimiterInductive, PTL

=============================================================================
