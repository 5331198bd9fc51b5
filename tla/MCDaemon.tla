------------------------------ MODULE MCDaemon ------------------------------
(***************************************************************************)
(* The AI daemon for TLC: its sessions and its rate limiter.  A denied     *)
(* request is a choice of DaemonSessions and the limiter knows clients by  *)
(* a key only, so that neither reads what the other keeps: it is enough to *)
(* run each while the other is as it was made.                             *)
(***************************************************************************)
EXTENDS DaemonSessions, RateLimiter

DaemonInit == Init /\ LimiterInit

Connections == LimiterInit /\ Next /\ UNCHANGED limiterVars

Requests == Init /\ LimiterNext /\ UNCHANGED vars

DaemonSpec == DaemonInit /\ [][Connections \/ Requests]_<<vars, limiterVars>>

=============================================================================
