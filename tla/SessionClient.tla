---------------------------- MODULE SessionClient ----------------------------
(***************************************************************************)
(* What the two clients of SessionFamily have in common: requests that     *)
(* need a session, refreshes, and sessions these put at risk.  A refresh   *)
(* token that was traded while its answer is lost, or while somebody else  *)
(* trades it too, is taken for a stolen one when it is used again, and the *)
(* server then ends the session (auth.service.ts:138-175).  A request the  *)
(* client gives up may have reached the server, or reach it late.          *)
(***************************************************************************)
EXTENDS SessionFamily

CONSTANT Caller   \* requests that need a signed-in session

VARIABLES
    exposed,  \* sessions a refresh of which was lost, or not alone
    stray     \* refresh requests the client gave up and the server may still get

\* Of a session that has ended exposure does not matter any more ...
Expose(S) == exposed' = {s \in exposed \cup S : family'[s] = "open"}

\* ... nor do late requests.
Kept(T, S) == stray' = {t \in T : family'[t[1]] = "open"} /\ Expose(S)

\* What a refresh request does to its session, whoever waits for the answer.
Trade(t) ==
    LET s == t[1]
    IN  \/ t[2] = current[s] /\ t[2] < MaxChain /\ Rotate(s)
        \/ (t[2] # current[s] \/ family[s] # "open") /\ Revoke({s})
=============================================================================
