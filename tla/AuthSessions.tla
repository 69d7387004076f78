---------------------------- MODULE AuthSessions ----------------------------
(***************************************************************************)
(* The sessions of one user and their refresh tokens: refresh, logout,     *)
(* revocation of one session, browser logout and logout of all devices,    *)
(* each a request that reads first and writes in a transaction of its own  *)
(* (READ COMMITTED, one row lock per updated row, held to the commit).     *)
(*                                                                         *)
(* A rotation locks its token and then its session; a revocation locks the *)
(* session and then the tokens.  The two may wait for each other:          *)
(* PostgreSQL then aborts one, and its request answers 500.  What a        *)
(* transaction wrote is visible from its commit, the last step below; the  *)
(* locks it holds follow from where it stands.                             *)
(*                                                                         *)
(* A request for a session of somebody else is refused by                  *)
(* revokeOwnedSession and changes nothing, so one user is enough.  A token *)
(* is named by its session and its position in the chain.                  *)
(***************************************************************************)
EXTENDS SessionTokens, FiniteSets

CONSTANT Request   \* slots for the requests in progress

ASSUME AuthAssumption == None \notin Session

VARIABLES
    session,   \* table sessions: state, revokedReason, and whether expiresAt has passed
    token,     \* table refresh_tokens: each position of each chain
    req,       \* each request in progress
    missed     \* history: sessions a logout of all devices ended without their tokens

vars == <<session, token, req, missed>>

Position == 1 .. MaxChain
Reason == {"LOGOUT", "LOGOUT_ALL", "REUSE_DETECTED", "EXPIRED"}

\* `op' is what the request revokes: one session ("one"), one if it is still
\* open ("open"), or all ("all"); `seen' the sessions its first read returned,
\* `held' the session rows it has locked, `late' whether its session's expiry
\* had passed at the time its transaction took as now.
Idle == [pc |-> "idle", session |-> None, at |-> 0, op |-> "one", reason |-> None,
         seen |-> {}, held |-> {}, late |-> FALSE]

IsOpen(s) == session[s].state = "open"
OpenSessions == {s \in Session : IsOpen(s)}

\* The first token of a session carries the session's own expiry; a rotated one
\* a later expiry, which is not reached.
TokenExpired(s, i) == session[s].lapsed /\ i = 1

HeldTokens(r) == IF req[r].pc \in {"touch", "rotate"}
                 THEN {<<req[r].session, req[r].at>>} ELSE {}
HeldSessions(r) == IF req[r].pc = "rotate" THEN {req[r].session} ELSE req[r].held

TokenFree(r, s, i) == \A q \in Request \ {r} : <<s, i>> \notin HeldTokens(q)
SessionFree(r, s) == \A q \in Request \ {r} : s \notin HeldSessions(q)

TypeOK ==
    /\ session \in [Session -> [state : {"none", "open", "revoked"},
                                reason : Reason \cup {None}, lapsed : BOOLEAN]]
    /\ token \in [Session -> [Position -> {"none", "live", "used", "revoked"}]]
    /\ req \in [Request -> [pc : {"idle", "claim", "touch", "rotate", "revoke", "tokens"},
                            session : Session \cup {None}, at : 0 .. MaxChain,
                            op : {"one", "open", "all"}, reason : Reason \cup {None},
                            seen : SUBSET Session, held : SUBSET Session,
                            late : BOOLEAN]]
    /\ missed \subseteq Session

Init ==
    /\ session = [s \in Session |-> [state |-> "none", reason |-> None, lapsed |-> FALSE]]
    /\ token = [s \in Session |-> [i \in Position |-> "none"]]
    /\ req = [r \in Request |-> Idle]
    /\ missed = {}
-----------------------------------------------------------------------------
\* issueSession: the session and its first token, created by one statement.
SignIn(s) ==
    /\ session[s].state = "none"
    /\ session' = [session EXCEPT ![s].state = "open"]
    /\ token' = [token EXCEPT ![s][1] = "live"]
    /\ UNCHANGED <<req, missed>>

\* Time: the session's expiresAt passes; a rotation does not move it.
Lapse(s) ==
    /\ IsOpen(s)
    /\ ~session[s].lapsed
    /\ session' = [session EXCEPT ![s].lapsed = TRUE]
    /\ UNCHANGED <<token, req, missed>>

Revoking(r, op, S, reason) ==
    req' = [req EXCEPT ![r] = [Idle EXCEPT !.pc = "revoke", !.op = op, !.seen = S,
                                           !.reason = reason]]

\* refresh: the token and its session are read before any transaction.
RefreshReuse(r, s, i) ==
    /\ req[r] = Idle
    /\ token[s][i] # "none"
    /\ token[s][i] # "live" \/ ~IsOpen(s)
    /\ Revoking(r, "one", {s}, "REUSE_DETECTED")
    /\ UNCHANGED <<session, token, missed>>

RefreshExpired(r, s, i) ==
    /\ req[r] = Idle
    /\ token[s][i] = "live"
    /\ IsOpen(s)
    /\ session[s].lapsed
    /\ ~TokenExpired(s, i)
    /\ Revoking(r, "one", {s}, "EXPIRED")
    /\ UNCHANGED <<session, token, missed>>

RefreshStart(r, s, i) ==
    /\ req[r] = Idle
    /\ i < MaxChain
    /\ token[s][i] = "live"
    /\ IsOpen(s)
    /\ ~session[s].lapsed
    /\ req' = [req EXCEPT ![r] = [Idle EXCEPT !.pc = "claim", !.session = s, !.at = i]]
    /\ UNCHANGED <<session, token, missed>>

\* The conditional UPDATE that marks the token used.  If it matches no row,
\* another request consumed or revoked the token first.
Claim(r) ==
    LET s == req[r].session
        i == req[r].at
    IN  /\ req[r].pc = "claim"
        /\ TokenFree(r, s, i)
        /\ \/ /\ token[s][i] = "live"
              /\ req' = [req EXCEPT ![r].pc = "touch", ![r].late = session[s].lapsed]
           \/ /\ token[s][i] # "live"
              /\ Revoking(r, "one", {s}, "REUSE_DETECTED")
        /\ UNCHANGED <<session, token, missed>>

\* Mutant: the session is touched whatever became of it.
TouchAnyway(r) ==
    /\ req[r].pc = "touch"
    /\ SessionFree(r, req[r].session)
    /\ req' = [req EXCEPT ![r].pc = "rotate"]
    /\ UNCHANGED <<session, token, missed>>

\* Mutant: a session that is no longer open keeps the transaction waiting.
TouchOpen(r) ==
    /\ req[r].pc = "touch" /\ IsOpen(req[r].session)
    /\ TouchAnyway(r)

\* The conditional UPDATE of the session.  If it matches no row the transaction
\* rolls back, and the token is as good as before.
Touch(r) ==
    LET s == req[r].session
    IN  /\ req[r].pc = "touch"
        /\ SessionFree(r, s)
        /\ \/ /\ IsOpen(s) /\ ~req[r].late
              /\ req' = [req EXCEPT ![r].pc = "rotate"]
           \/ /\ ~IsOpen(s) \/ req[r].late
              /\ req' = [req EXCEPT ![r] = Idle]
        /\ UNCHANGED <<session, token, missed>>

\* Mutant: the token traded in stays good.
RotateKeeping(r) ==
    LET s == req[r].session
        i == req[r].at
    IN  /\ req[r].pc = "rotate"
        /\ token' = [token EXCEPT ![s][i + 1] = "live"]
        /\ req' = [req EXCEPT ![r] = Idle]
        /\ UNCHANGED <<session, missed>>

\* The next token is inserted and the rotation commits.
RotateCommit(r) ==
    LET s == req[r].session
        i == req[r].at
    IN  /\ req[r].pc = "rotate"
        /\ token' = [token EXCEPT ![s][i] = "used", ![s][i + 1] = "live"]
        /\ req' = [req EXCEPT ![r] = Idle]
        /\ UNCHANGED <<session, missed>>

\* What the guard of an authenticated route demands of the caller's session.
Authenticated(s) == IsOpen(s) /\ ~session[s].lapsed

\* logout, and revokeSessionForUser for another session of the same user.
LogoutStart(r, s, target) ==
    /\ req[r] = Idle
    /\ Authenticated(s)
    /\ session[target].state # "none"
    /\ Revoking(r, "one", {target}, "LOGOUT")
    /\ UNCHANGED <<session, token, missed>>

\* logoutByRefreshToken: any token ever issued names its session.
BrowserLogoutStart(r, s, i) ==
    /\ req[r] = Idle
    /\ token[s][i] # "none"
    /\ Revoking(r, "open", {s}, "LOGOUT")
    /\ UNCHANGED <<session, token, missed>>

\* logoutAll lists the open sessions before its transaction.
LogoutAllStart(r, s) ==
    /\ req[r] = Idle
    /\ Authenticated(s)
    /\ Revoking(r, "all", OpenSessions, "LOGOUT_ALL")
    /\ UNCHANGED <<session, token, missed>>

\* The session rows a revocation updates: revokeSession whatever their state,
\* the others the open ones, logoutAll those of now and not those it listed.
RowsToRevoke(r) == CASE req[r].op = "one"  -> req[r].seen
                     [] req[r].op = "open" -> req[r].seen \cap OpenSessions
                     [] req[r].op = "all"  -> OpenSessions

LockSessions(r) ==
    /\ req[r].pc = "revoke"
    /\ \A s \in RowsToRevoke(r) : SessionFree(r, s)
    /\ req' = [req EXCEPT ![r].pc = "tokens", ![r].held = RowsToRevoke(r)]
    /\ UNCHANGED <<session, token, missed>>

\* The tokens not yet revoked of the sessions read at first are revoked, and
\* the revocation commits.
RevokeCommit(r) ==
    /\ req[r].pc = "tokens"
    /\ \A s \in req[r].seen, i \in Position : TokenFree(r, s, i)
    /\ session' = [s \in Session |->
         IF s \in req[r].held
         THEN [session[s] EXCEPT !.state = "revoked", !.reason = req[r].reason]
         ELSE session[s]]
    /\ token' = [s \in Session |-> [i \in Position |->
         IF s \in req[r].seen /\ token[s][i] # "none" THEN "revoked" ELSE token[s][i]]]
    /\ missed' = (missed \cup req[r].held) \ req[r].seen
    /\ req' = [req EXCEPT ![r] = Idle]

\* Requests whose locks r is waiting for.
Blockers(r) ==
    {q \in Request \ {r} :
        \/ req[r].pc = "claim" /\ <<req[r].session, req[r].at>> \in HeldTokens(q)
        \/ req[r].pc = "touch" /\ req[r].session \in HeldSessions(q)
        \/ req[r].pc = "revoke" /\ RowsToRevoke(r) \cap HeldSessions(q) # {}
        \/ req[r].pc = "tokens" /\ \E s \in req[r].seen, i \in Position :
                                      <<s, i>> \in HeldTokens(q)}

\* Two transactions wait for each other: PostgreSQL aborts one of them.
DeadlockVictim(r) ==
    /\ \E q \in Blockers(r) : r \in Blockers(q)
    /\ req' = [req EXCEPT ![r] = Idle]
    /\ UNCHANGED <<session, token, missed>>

Step(r) == \/ Claim(r) \/ Touch(r) \/ RotateCommit(r)
           \/ LockSessions(r) \/ RevokeCommit(r) \/ DeadlockVictim(r)

Arrive(r) ==
    \/ \E s \in Session, i \in Position :
         \/ RefreshReuse(r, s, i) \/ RefreshExpired(r, s, i) \/ RefreshStart(r, s, i)
         \/ BrowserLogoutStart(r, s, i)
    \/ \E s \in Session : LogoutAllStart(r, s)
    \/ \E s, target \in Session : LogoutStart(r, s, target)

Next == \/ \E s \in Session : SignIn(s) \/ Lapse(s)
        \/ \E r \in Request : Arrive(r) \/ Step(r)

\* PostgreSQL serves the waiters of a row in turn and resolves every deadlock,
\* so a request that can go on again and again goes on; nothing makes a client
\* send one.
Fairness == \A r \in Request : SF_vars(Step(r))

Spec == Init /\ [][Next]_vars /\ Fairness
-----------------------------------------------------------------------------
(* Properties *)

Live(s) == {i \in Position : token[s][i] = "live"}
Issued(s) == {i \in Position : token[s][i] # "none"}

\* The tokens a session issued form one chain and only its last can be good, in
\* whatever order two refreshes of one token, a logout and a deadlock victim's
\* rollback interleave (auth.service.ts:134-174).
OneLiveToken ==
    TypeOK /\ \A s \in Session, i, j \in Position :
        i < j /\ token[s][j] # "none" => token[s][i] \in {"used", "revoked"}

\* Nothing reopens a revoked session or gives it a good token, although a
\* refresh reads the session before the revocation and writes after it
\* (auth.service.ts:90-131 and :153-172).
RevokedForGood ==
    [][\A s \in Session : session[s].state = "revoked" =>
         /\ session'[s].state = "revoked"
         /\ Live(s)' \subseteq Live(s)]_vars

\* A revocation takes the whole family with it: no token of the session is left good.
\* Logout of all devices reads its list of sessions before its transaction
\* (auth.service.ts:337-355), and keeps the tokens of a session that was opened in
\* between; these alone are excepted, until the first use of one revokes them all.
FamilyDiesTogether ==
    \A s \in Session :
        session[s].state = "revoked" /\ s \notin missed => Live(s) = {}

\* What is left good is never traded: a rotation that is about to issue a token has
\* found its session open, and it stays so.
IssuesWhileOpen == \A r \in Request : req[r].pc = "rotate" => IsOpen(req[r].session)

\* All at once, at every instant of any race of refreshes and revocations: of a session
\* at most the last token is good; once it is revoked none is, unless a logout of all
\* devices has missed it, and none is traded (auth.service.ts:138-175 and :483-492).
FamilyHolds == OneLiveToken /\ FamilyDiesTogether /\ IssuesWhileOpen

\* The detailed protocol implements the promise of SessionFamily: rotations and
\* revocations of a session happen one after another.
Family == INSTANCE SessionFamily
            WITH family  <- [s \in Session |-> session[s].state],
                 current <- [s \in Session |-> Cardinality(Issued(s))]
ImplementsFamily == Family!FamilySpec

\* No request is left waiting for a row, although rotations and revocations lock
\* the same rows in opposite orders (auth.service.ts:140 and :484).
RequestsEnd == \A r \in Request : req[r].pc # "idle" ~> req[r].pc = "idle"
=============================================================================
