--------------------------- MODULE DaemonSessions ---------------------------
(***************************************************************************)
(* system-services/ai-daemon/src/auth.rs and ipc.rs: the sessions of the   *)
(* AI daemon and the connections that hold them, authentication enabled.   *)
(*                                                                         *)
(* A connection is one task that handles its messages one after another.   *)
(* It gives way to the others wherever it awaits: between the creation of  *)
(* a session and its insertion (the audit log), before the validation that *)
(* follows, between the check of a message's session and its handler (the  *)
(* application state, the limiter), while a handler runs and while the     *)
(* answer is written.  The session map is behind a lock, so every access   *)
(* to it is one step.                                                      *)
(*                                                                         *)
(* Session tokens are random UUIDs: a token is handed out once.  Which     *)
(* permissions a session has is configuration; Granted are the messages    *)
(* that they allow.  Rate limiting is module RateLimiter, here a choice.   *)
(***************************************************************************)
EXTENDS Naturals, FiniteSets

CONSTANTS
  Tcp,         \* connections served by handle_client_tcp
  Unix,        \* connections served by handle_client_unix
  Token,       \* session tokens
  Message,     \* message types other than Auth
  Granted,     \* those the permissions of a session allow
  Ttl,         \* session_ttl
  MaxTime,     \* bound: ticks of the clock
  NoToken      \* None

Conn == Tcp \cup Unix

ASSUME SessionAssumption ==
  /\ Granted \subseteq Message
  /\ NoToken \notin Token
  /\ Ttl \in Nat \ {0}
  /\ MaxTime \in Nat

VARIABLES
  sessions,    \* the tokens in SessionManager.sessions
  created,     \* created_at of every token handed out so far
  expires,     \* expires_at, likewise
  conn,        \* per connection: its ClientState and where its task is
  now,         \* Instant::now()
  orphaned     \* auxiliary: tokens a connection forgot without destroying

vars == <<sessions, created, expires, conn, now, orphaned>>

ConnRecord ==
  [pc: {"closed", "idle", "created", "inserted", "checked", "handling", "answering"},
   session: Token \cup {NoToken}, fresh: Token \cup {NoToken},
   at: 0..MaxTime]   \* auxiliary: when the message in hand was checked

Closed == [pc |-> "closed", session |-> NoToken, fresh |-> NoToken, at |-> 0]

Init ==
  /\ sessions = {}
  /\ created = [t \in {} |-> 0]
  /\ expires = [t \in {} |-> 0]
  /\ conn = [c \in Conn |-> Closed]
  /\ now = 0
  /\ orphaned = {}

Expired(t) == now >= expires[t]

\* ClientState.authenticated is set together with session_token.
Authenticated(c) == conn[c].session # NoToken

Connect(c) ==
  /\ conn[c].pc = "closed"
  /\ conn' = [conn EXCEPT ![c].pc = "idle"]
  /\ UNCHANGED <<sessions, created, expires, now, orphaned>>

-----------------------------------------------------------------------------
(* The Auth message *)

\* Faulty variant: the token is derived from the client_id, which is
\* "unix-client" for every connection of the Unix socket.
AuthenticateByName(c) ==
  /\ conn[c].pc = "idle"
  /\ \E t \in Token :
       /\ \/ t \notin DOMAIN created
          \/ c \in Unix /\ \E d \in Unix \ {c} : conn[d].session = t
       /\ created' = [u \in DOMAIN created \cup {t} |-> IF u = t THEN now ELSE created[u]]
       /\ expires' = [u \in DOMAIN expires \cup {t} |-> IF u = t THEN now + Ttl ELSE expires[u]]
       /\ conn' = [conn EXCEPT ![c].pc = "created", ![c].fresh = t]
  /\ UNCHANGED <<sessions, now, orphaned>>

\* authenticate, the bearer token is right: Session::new; the audit log is
\* awaited before the session gets into the map.
Authenticate(c) ==
  /\ conn[c].pc = "idle"
  /\ \E t \in Token \ DOMAIN created :
       /\ created' = [u \in DOMAIN created \cup {t} |-> IF u = t THEN now ELSE created[u]]
       /\ expires' = [u \in DOMAIN expires \cup {t} |-> IF u = t THEN now + Ttl ELSE expires[u]]
       /\ conn' = [conn EXCEPT ![c].pc = "created", ![c].fresh = t]
  /\ UNCHANGED <<sessions, now, orphaned>>

\* authenticate, the bearer token is wrong: InvalidToken.  A connection that
\* is authenticated stays so.
AuthenticateFails(c) ==
  /\ conn[c].pc = "idle"
  /\ conn' = [conn EXCEPT ![c].pc = "answering"]
  /\ UNCHANGED <<sessions, created, expires, now, orphaned>>

\* Faulty variant: the session is entered under the connection's old token.
InsertHeld(c) ==
  /\ conn[c].pc = "created"
  /\ sessions' = sessions \cup {conn[c].session}
  /\ conn' = [conn EXCEPT ![c].pc = "inserted"]
  /\ UNCHANGED <<created, expires, now, orphaned>>

\* sessions.insert, after the audit log has been written.
Insert(c) ==
  /\ conn[c].pc = "created"
  /\ sessions' = sessions \cup {conn[c].fresh}
  /\ conn' = [conn EXCEPT ![c].pc = "inserted"]
  /\ UNCHANGED <<created, expires, now, orphaned>>

\* handle_auth validates the new session, which may have expired by now and
\* is removed then; the answer is success either way.  The connection's task
\* stores the token over the one it had.
Adopt(c) ==
  /\ conn[c].pc = "inserted"
  /\ sessions' = IF Expired(conn[c].fresh) THEN sessions \ {conn[c].fresh} ELSE sessions
  /\ orphaned' = orphaned \cup ({conn[c].session} \ {NoToken})
  /\ conn' = [conn EXCEPT ![c] =
                [pc |-> "answering", session |-> conn[c].fresh, fresh |-> NoToken, at |-> 0]]
  /\ UNCHANGED <<created, expires, now>>

-----------------------------------------------------------------------------
(* Every other message: process_message *)

\* Not authenticated: 401, whether or not it can be written.
Unauthenticated(c, m) ==
  /\ conn[c].pc = "idle"
  /\ ~Authenticated(c)
  /\ UNCHANGED vars

\* check_permission would let the message of the connection pass.
Permitted(c, m) ==
  /\ conn[c].session \in sessions
  /\ ~Expired(conn[c].session)
  /\ m \in Granted

\* Faulty variant: touch prolongs the session.
CheckTouching(c, m) ==
  /\ conn[c].pc = "idle"
  /\ Authenticated(c)
  /\ Permitted(c, m)
  /\ expires' = [expires EXCEPT ![conn[c].session] = now + Ttl]
  /\ conn' = [conn EXCEPT ![c].pc = "checked", ![c].at = now]
  /\ UNCHANGED <<sessions, created, now, orphaned>>

\* check_permission: the session is valid now.  The application state and
\* the limiter are awaited before anything is done about the message, for as
\* long as another connection's ModelLoad holds the state.
Check(c, m) ==
  /\ conn[c].pc = "idle"
  /\ Authenticated(c)
  /\ Permitted(c, m)
  /\ conn' = [conn EXCEPT ![c].pc = "checked", ![c].at = now]
  /\ UNCHANGED <<sessions, created, expires, now, orphaned>>

\* check_permission: 403 (permission denied, session not found) or 401
\* (expired, the session is removed).
Refuse(c, m) ==
  /\ conn[c].pc = "idle"
  /\ Authenticated(c)
  /\ ~Permitted(c, m)
  /\ sessions' = IF Expired(conn[c].session) THEN sessions \ {conn[c].session} ELSE sessions
  /\ conn' = [conn EXCEPT ![c].pc = "answering"]
  /\ UNCHANGED <<created, expires, now, orphaned>>

\* The limiter lets the message through.  The session is not looked at again.
Dispatch(c) ==
  /\ conn[c].pc = "checked"
  /\ conn' = [conn EXCEPT ![c].pc = "handling"]
  /\ UNCHANGED <<sessions, created, expires, now, orphaned>>

\* The limiter does not: 429.
Limited(c) ==
  /\ conn[c].pc = "checked"
  /\ conn' = [conn EXCEPT ![c].pc = "answering", ![c].at = 0]
  /\ UNCHANGED <<sessions, created, expires, now, orphaned>>

Handled(c) ==
  /\ conn[c].pc = "handling"
  /\ conn' = [conn EXCEPT ![c].pc = "answering", ![c].at = 0]
  /\ UNCHANGED <<sessions, created, expires, now, orphaned>>

-----------------------------------------------------------------------------
(* Answers and disconnection *)

\* A Unix connection ignores write errors.
Answer(c) ==
  /\ conn[c].pc = "answering"
  /\ conn' = [conn EXCEPT ![c].pc = "idle"]
  /\ UNCHANGED <<sessions, created, expires, now, orphaned>>

\* The TCP handler returns on a write error, past its cleanup.
AnswerFails(c) ==
  /\ c \in Tcp
  /\ conn[c].pc = "answering"
  /\ orphaned' = orphaned \cup ({conn[c].session} \ {NoToken})
  /\ conn' = [conn EXCEPT ![c] = Closed]
  /\ UNCHANGED <<sessions, created, expires, now>>

\* Faulty variant: the sessions of the client_id are destroyed, those of
\* all connections of the Unix socket.
DisconnectByName(c) ==
  /\ conn[c].pc = "idle"
  /\ sessions' = sessions \ {conn[d].session : d \in (IF c \in Unix THEN Unix ELSE {c})}
  /\ conn' = [conn EXCEPT ![c] = Closed]
  /\ UNCHANGED <<created, expires, now, orphaned>>

\* Faulty variant: the session is left in the map.
DisconnectOnly(c) ==
  /\ conn[c].pc = "idle"
  /\ conn' = [conn EXCEPT ![c] = Closed]
  /\ UNCHANGED <<sessions, created, expires, now, orphaned>>

\* End of stream, a read error or invalid UTF-8: destroy_session.
Disconnect(c) ==
  /\ conn[c].pc = "idle"
  /\ sessions' = sessions \ {conn[c].session}
  /\ conn' = [conn EXCEPT ![c] = Closed]
  /\ UNCHANGED <<created, expires, now, orphaned>>

Tick ==
  /\ now < MaxTime
  /\ now' = now + 1
  /\ UNCHANGED <<sessions, created, expires, conn, orphaned>>

TaskStep(c) ==
  \/ Insert(c) \/ Adopt(c)
  \/ Dispatch(c) \/ Limited(c) \/ Handled(c)
  \/ Answer(c) \/ AnswerFails(c)

Next ==
  \/ \E c \in Conn :
       \/ Connect(c) \/ Authenticate(c) \/ AuthenticateFails(c)
       \/ \E m \in Message : Unauthenticated(c, m) \/ Check(c, m) \/ Refuse(c, m)
       \/ TaskStep(c) \/ Disconnect(c)
  \/ Tick

Spec == Init /\ [][Next]_vars

-----------------------------------------------------------------------------

\* Type invariant.
TypeOK ==
  /\ DOMAIN created \subseteq Token
  /\ created \in [DOMAIN created -> 0..MaxTime]
  /\ expires \in [DOMAIN created -> 0..(MaxTime + Ttl)]
  /\ sessions \subseteq DOMAIN created
  /\ conn \in [Conn -> ConnRecord]
  /\ now \in 0..MaxTime
  /\ orphaned \subseteq DOMAIN created

(***************************************************************************)
(* A session belongs to one connection: no token is held, or about to be   *)
(* held, by two tasks, though connections of the Unix socket share one     *)
(* client_id (authenticate, ClientState).                                  *)
(***************************************************************************)
OneHolder ==
  \A c, d \in Conn :
    c # d => {conn[c].session, conn[c].fresh} \cap {conn[d].session, conn[d].fresh} \subseteq {NoToken}

(***************************************************************************)
(* A token that a connection was given works until it expires: no other    *)
(* connection's disconnect, expiry or re-authentication takes it away.     *)
(***************************************************************************)
HeldSessionUsable ==
  \A c \in Conn :
    Authenticated(c) /\ ~Expired(conn[c].session) => conn[c].session \in sessions

(***************************************************************************)
(* A message that is handled passed check_permission when its connection   *)
(* had authenticated less than session_ttl before, however active it has   *)
(* been since: validate_session updates last_activity and not expires_at.  *)
(* From the check to the end of the handler the session stays in the map,  *)
(* across the awaits in between and whatever the other connections do.  It *)
(* may expire there: nothing looks at it a second time.                    *)
(***************************************************************************)
HandledWasValid ==
  \A c \in Conn : conn[c].pc \in {"checked", "handling"} =>
    /\ conn[c].session \in sessions
    /\ conn[c].at <= now
    /\ conn[c].at - created[conn[c].session] < Ttl

(***************************************************************************)
(* The only sessions in the map that no task will look after are those a   *)
(* re-authentication replaced or a failed write left behind.               *)
(***************************************************************************)
LeftoversExplained ==
  \A t \in sessions :
    t \in orphaned \/ \E c \in Conn : t \in {conn[c].session, conn[c].fresh}

(***************************************************************************)
(* Sessions are private and lasting: no two connections ever hold one      *)
(* token, across every await between its creation and its use, and nobody  *)
(* else's disconnect or expiry takes a held session out of the map; only a *)
(* re-authentication or a failed write leaves one that nobody looks after. *)
(***************************************************************************)
SessionInv == TypeOK /\ OneHolder /\ HeldSessionUsable /\ LeftoversExplained

=============================================================================
