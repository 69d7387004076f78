--------------------------- MODULE MCAuthSessions ---------------------------
(* AuthSessions for TLC: two sessions, chains of two tokens. *)
EXTENDS AuthSessions
=============================================================================
