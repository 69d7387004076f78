--------------------------- MODULE SessionProofs ---------------------------
(***************************************************************************)
(* Theorems about the sessions: the rows of the server (AuthSessions), the *)
(* phone (MobileSession) and the browser (WebSession), for every number of *)
(* sessions, requests and tabs and every length of the chains.             *)
(*                                                                         *)
(* Server.  AuthInv is inductive.  What carries the argument is RowsSound  *)
(* - a rotation that has its token still finds it live, and one that has   *)
(* its session too still finds it open, although nothing was re-read -     *)
(* which holds because the locks are held by one request each (Exclusive). *)
(*                                                                         *)
(* Clients.  MobileInv and WebInv are inductive.  Both follow a token from *)
(* the moment the server issues it until it is stored: wherever it is, it  *)
(* is Sound, the one the server expects next unless its session is at risk *)
(* already.  A rotation makes the stored copy out of date, so what is      *)
(* stored is sound or somebody has its successor; and a rotation hurts     *)
(* nobody else, because two who refresh one session put it at risk and     *)
(* nobody refreshes a session whose sign-in is still on its way.           *)
(***************************************************************************)
EXTENDS AuthSessions, MobileSession, WebSession, FiniteSetTheorems, TLAPS

(* The server                                                              *)

Row == [pc : {"idle", "claim", "touch", "rotate", "revoke", "tokens"},
        session : Session \cup {None}, at : 0 .. MaxChain,
        op : {"one", "open", "all"}, reason : Reason \cup {None},
        seen : SUBSET Session, held : SUBSET Session, late : BOOLEAN]

\* The locks of a request, from its row.
RowTokens(x) == IF x.pc \in {"touch", "rotate"} THEN {<<x.session, x.at>>} ELSE {}
RowSessions(x) == IF x.pc = "rotate" THEN {x.session} ELSE x.held

\* What a request relies on, however long ago it looked.
RowSound(x) ==
    /\ x.pc \in {"claim", "touch", "rotate"} =>
          /\ x.session \in Session /\ x.at \in Position /\ x.at + 1 \in Position
          /\ session[x.session].state # "none"
    /\ x.pc \in {"touch", "rotate"} => token[x.session][x.at] = "live"
    /\ x.pc = "rotate" => IsOpen(x.session)
    /\ x.pc \in {"revoke", "tokens"} => \A s \in x.seen : session[s].state # "none"
    /\ x.pc = "tokens" => \A s \in x.held : session[s].state # "none"
    /\ x.pc # "tokens" => x.held = {}

RowsSound == \A r \in Request : RowSound(req[r])

Apart(x, y) == RowTokens(x) \cap RowTokens(y) = {} /\ RowSessions(x) \cap RowSessions(y) = {}
Exclusive == \A r, q \in Request : r # q => Apart(req[r], req[q])

NoTokenYet == \A s \in Session, i \in Position : session[s].state = "none" => token[s][i] = "none"

AuthInv == OneLiveToken /\ FamilyDiesTogether /\ NoTokenYet /\ RowsSound /\ Exclusive
-----------------------------------------------------------------------------
(* Rows and locks.                                                         *)

\* HeldTokens and HeldSessions are those of the row.
LEMMA HeldIsRow ==
    ASSUME NEW r
    PROVE  HeldTokens(r) = RowTokens(req[r]) /\ HeldSessions(r) = RowSessions(req[r])
  BY DEF HeldTokens, HeldSessions, RowTokens, RowSessions

\* Nothing is locked, and nothing relied on, between requests.
LEMMA IdleRow ==
    /\ Idle \in Row
    /\ Idle.pc = "idle"
    /\ Idle.held = {}
    /\ RowTokens(Idle) = {} /\ RowSessions(Idle) = {}
    /\ RowSound(Idle)
<1>1. Idle \in Row
  BY AuthAssumption, ChainAssumption DEF Idle, Row
<1>2. QED
  BY <1>1 DEF Idle, RowTokens, RowSessions, RowSound

\* A step of one request that writes neither table, and locks only what is free.
LEMMA RequestStep ==
    ASSUME AuthInv, NEW r \in Request, NEW x \in Row, req' = [req EXCEPT ![r] = x],
           UNCHANGED <<session, token, missed>>, RowSound(x),
           \A q \in Request \ {r} : Apart(x, req[q])
    PROVE  AuthInv'
<1>1. req \in [Request -> Row]
  BY DEF AuthInv, OneLiveToken, TypeOK, Row
<1>2. req' \in [Request -> Row] /\ \A q \in Request : req'[q] = IF q = r THEN x ELSE req[q]
  BY <1>1
<1>3. OneLiveToken'
  <2>1. TypeOK'
    BY <1>2 DEF AuthInv, OneLiveToken, TypeOK, Row
  <2>2. QED
    BY <2>1 DEF AuthInv, OneLiveToken
<1>4. FamilyDiesTogether' /\ NoTokenYet'
  BY DEF AuthInv, FamilyDiesTogether, Live, NoTokenYet
<1>5. RowsSound'
  <2>1. \A y : RowSound(y) => RowSound(y)'
    BY DEF RowSound, IsOpen
  <2>2. \A q \in Request : RowSound(req'[q])
    BY <1>2 DEF AuthInv, RowsSound
  <2>3. QED
    BY <2>2 DEF RowsSound, RowSound, IsOpen
<1>6. Exclusive'
  <2>1. \A y, z : Apart(y, z) => Apart(z, y)
    BY DEF Apart
  <2>2. \A p, q \in Request : p # q => Apart(req'[p], req'[q])
    BY <1>2, <2>1 DEF AuthInv, Exclusive
  <2>3. QED
    BY <2>2 DEF Exclusive
<1>7. QED
  BY <1>3, <1>4, <1>5, <1>6 DEF AuthInv

\* A request that holds nothing is apart from every other.
LEMMA HoldsNothing ==
    ASSUME NEW x, RowTokens(x) = {}, RowSessions(x) = {}, NEW y
    PROVE  Apart(x, y)
  BY DEF Apart

\* A request that reads and then goes on to revoke.
LEMMA RevokingStep ==
    ASSUME AuthInv, NEW r \in Request, NEW op \in {"one", "open", "all"}, NEW S \in SUBSET Session,
           NEW reason \in Reason, Revoking(r, op, S, reason), UNCHANGED <<session, token, missed>>,
           \A s \in S : session[s].state # "none", op = "all" => reason = "LOGOUT_ALL"
    PROVE  AuthInv'
<1> DEFINE x == [Idle EXCEPT !.pc = "revoke", !.op = op, !.seen = S, !.reason = reason]
<1>1. req' = [req EXCEPT ![r] = x]
  BY DEF Revoking
<1>2. /\ x \in Row
      /\ x.pc = "revoke" /\ x.op = op /\ x.seen = S /\ x.reason = reason /\ x.held = {}
  BY IdleRow DEF Idle, Row
<1> HIDE DEF x
<1>3. RowSound(x) /\ RowTokens(x) = {} /\ RowSessions(x) = {}
  BY <1>2 DEF RowSound, RowTokens, RowSessions
<1>4. QED
  BY <1>1, <1>2, <1>3, RequestStep, HoldsNothing

\* A request that ends without a write: a rollback, a deadlock victim.
LEMMA EndStep ==
    ASSUME AuthInv, NEW r \in Request, req' = [req EXCEPT ![r] = Idle], UNCHANGED <<session, token, missed>>
    PROVE  AuthInv'
  BY RequestStep, IdleRow, HoldsNothing
-----------------------------------------------------------------------------
(* The requests, up to their last step.                                    *)

\* A request that arrives keeps the invariant and writes no table.
LEMMA ArriveStep ==
    ASSUME AuthInv, NEW r \in Request, Arrive(r)
    PROVE  AuthInv' /\ UNCHANGED <<session, token, missed>>
<1> USE DEF AuthInv
<1>1. ASSUME NEW s \in Session, NEW i \in Position, RefreshReuse(r, s, i)
      PROVE  AuthInv' /\ UNCHANGED <<session, token, missed>>
  <2>1. session[s].state # "none"
    BY <1>1 DEF RefreshReuse, NoTokenYet
  <2>2. QED
    BY <1>1, <2>1, RevokingStep DEF RefreshReuse, Reason
<1>2. ASSUME NEW s \in Session, NEW i \in Position, RefreshExpired(r, s, i)
      PROVE  AuthInv' /\ UNCHANGED <<session, token, missed>>
  BY <1>2, RevokingStep DEF RefreshExpired, IsOpen, Reason
<1>3. ASSUME NEW s \in Session, NEW i \in Position, RefreshStart(r, s, i)
      PROVE  AuthInv' /\ UNCHANGED <<session, token, missed>>
  <2> DEFINE x == [Idle EXCEPT !.pc = "claim", !.session = s, !.at = i]
  <2>1. req' = [req EXCEPT ![r] = x] /\ UNCHANGED <<session, token, missed>> /\ i < MaxChain
    BY <1>3 DEF RefreshStart
  <2>2. i \in 0 .. MaxChain /\ i + 1 \in Position
    BY <2>1, AuthAssumption, ChainAssumption DEF Position
  <2>3. x \in Row /\ x.pc = "claim" /\ x.session = s /\ x.at = i /\ x.held = {}
    BY <2>2, IdleRow DEF Idle, Row
  <2> HIDE DEF x
  <2>4. session[s].state # "none"
    BY <1>3 DEF RefreshStart, IsOpen
  <2>5. RowSound(x) /\ RowTokens(x) = {} /\ RowSessions(x) = {}
    BY <2>2, <2>3, <2>4 DEF RowSound, RowTokens, RowSessions
  <2>6. QED
    BY <2>1, <2>3, <2>5, RequestStep, HoldsNothing
<1>4. ASSUME NEW s \in Session, NEW i \in Position, BrowserLogoutStart(r, s, i)
      PROVE  AuthInv' /\ UNCHANGED <<session, token, missed>>
  <2>1. session[s].state # "none"
    BY <1>4 DEF BrowserLogoutStart, NoTokenYet
  <2>2. QED
    BY <1>4, <2>1, RevokingStep DEF BrowserLogoutStart, Reason
<1>5. ASSUME NEW s \in Session, LogoutAllStart(r, s)
      PROVE  AuthInv' /\ UNCHANGED <<session, token, missed>>
  BY <1>5, RevokingStep DEF LogoutAllStart, OpenSessions, IsOpen, Reason
<1>6. ASSUME NEW s \in Session, NEW target \in Session, LogoutStart(r, s, target)
      PROVE  AuthInv' /\ UNCHANGED <<session, token, missed>>
  BY <1>6, RevokingStep DEF LogoutStart, Reason
<1>7. QED
  BY <1>1, <1>2, <1>3, <1>4, <1>5, <1>6 DEF Arrive

\* The claim locks its token, which is free; without the token there is
\* nothing to rotate and the session is revoked.
LEMMA ClaimStep ==
    ASSUME AuthInv, NEW r \in Request, Claim(r)
    PROVE  AuthInv' /\ UNCHANGED <<session, token, missed>>
<1> DEFINE s == req[r].session
           i == req[r].at
<1>1. /\ req[r] \in Row /\ RowSound(req[r]) /\ req[r].pc = "claim"
      /\ TokenFree(r, s, i) /\ UNCHANGED <<session, token, missed>>
  BY DEF AuthInv, OneLiveToken, TypeOK, Row, RowsSound, Claim
<1>2. /\ s \in Session /\ i \in Position /\ i + 1 \in Position /\ req[r].held = {}
      /\ session[s].state # "none"
  BY <1>1 DEF RowSound
<1>3. CASE /\ token[s][i] = "live"
           /\ req' = [req EXCEPT ![r].pc = "touch", ![r].late = session[s].lapsed]
  <2> DEFINE x == [req[r] EXCEPT !.pc = "touch", !.late = session[s].lapsed]
  <2>1. session[s].lapsed \in BOOLEAN
    BY <1>2 DEF AuthInv, OneLiveToken, TypeOK
  <2>2. req' = [req EXCEPT ![r] = x]
    BY <1>3
  <2>3. x \in Row /\ x.pc = "touch" /\ x.session = s /\ x.at = i /\ x.held = {}
    BY <1>1, <1>2, <2>1 DEF Row
  <2> HIDE DEF x
  <2>4. RowSound(x) /\ RowTokens(x) = {<<s, i>>} /\ RowSessions(x) = {}
    BY <1>2, <1>3, <2>3 DEF RowSound, RowTokens, RowSessions
  <2>5. \A q \in Request \ {r} : Apart(x, req[q])
    BY <1>1, <2>4, HeldIsRow DEF TokenFree, Apart
  <2>6. QED
    BY <1>1, <2>2, <2>3, <2>4, <2>5, RequestStep
<1>4. CASE token[s][i] # "live" /\ Revoking(r, "one", {s}, "REUSE_DETECTED")
  BY <1>1, <1>2, <1>4, RevokingStep DEF Reason
<1>5. QED
  BY <1>3, <1>4 DEF Claim

\* The touch locks its session, which is free, or rolls the rotation back.
LEMMA TouchStep ==
    ASSUME AuthInv, NEW r \in Request, Touch(r)
    PROVE  AuthInv' /\ UNCHANGED <<session, token, missed>>
<1> DEFINE s == req[r].session
           i == req[r].at
<1>1. /\ req[r] \in Row /\ RowSound(req[r]) /\ req[r].pc = "touch"
      /\ SessionFree(r, s) /\ UNCHANGED <<session, token, missed>>
  BY DEF AuthInv, OneLiveToken, TypeOK, Row, RowsSound, Touch
<1>2. CASE IsOpen(s) /\ req' = [req EXCEPT ![r].pc = "rotate"]
  <2> DEFINE x == [req[r] EXCEPT !.pc = "rotate"]
  <2>1. req' = [req EXCEPT ![r] = x]
    BY <1>2
  <2>2. /\ x \in Row /\ x.pc = "rotate" /\ x.held = {}
        /\ x.session = s /\ x.at = i
    BY <1>1 DEF Row, RowSound
  <2> HIDE DEF x
  <2>3. RowSound(x)
    BY <1>1, <1>2, <2>2 DEF RowSound
  <2>4. /\ RowTokens(x) = RowTokens(req[r]) /\ RowSessions(x) = {s}
    BY <1>1, <2>2 DEF RowTokens, RowSessions
  <2>5. \A q \in Request \ {r} : Apart(x, req[q])
    <3>1. \A q \in Request \ {r} : Apart(req[r], req[q])
      BY DEF AuthInv, Exclusive
    <3>2. \A q \in Request \ {r} : s \notin RowSessions(req[q])
      BY <1>1, HeldIsRow DEF SessionFree
    <3>3. QED
      BY <2>4, <3>1, <3>2 DEF Apart
  <2>6. QED
    BY <1>1, <2>1, <2>2, <2>3, <2>5, RequestStep
<1>3. CASE req' = [req EXCEPT ![r] = Idle]
  BY <1>1, <1>3, EndStep
<1>4. QED
  BY <1>2, <1>3 DEF Touch

\* A revocation locks sessions that are free and, unless it is the logout of
\* all devices, no session but those it read at first.
LEMMA LockSessionsStep ==
    ASSUME AuthInv, NEW r \in Request, LockSessions(r)
    PROVE  AuthInv' /\ UNCHANGED <<session, token, missed>>
<1> DEFINE x == [req[r] EXCEPT !.pc = "tokens", !.held = RowsToRevoke(r)]
<1>1. /\ req[r] \in Row /\ RowSound(req[r]) /\ req[r].pc = "revoke"
      /\ \A s \in RowsToRevoke(r) : SessionFree(r, s)
      /\ req' = [req EXCEPT ![r] = x] /\ UNCHANGED <<session, token, missed>>
  BY DEF AuthInv, OneLiveToken, TypeOK, Row, RowsSound, LockSessions
<1>2. /\ RowsToRevoke(r) \subseteq Session
      /\ \A s \in RowsToRevoke(r) : session[s].state # "none"
      /\ req[r].op # "all" => RowsToRevoke(r) \subseteq req[r].seen
  <2>1. /\ req[r].op \in {"one", "open", "all"} /\ req[r].seen \subseteq Session
        /\ \A s \in req[r].seen : session[s].state # "none"
    BY <1>1 DEF Row, RowSound
  <2>2. OpenSessions \subseteq Session /\ \A s \in OpenSessions : session[s].state # "none"
    BY DEF OpenSessions, IsOpen
  <2>3. QED
    BY <2>1, <2>2 DEF RowsToRevoke
<1>3. /\ x \in Row /\ x.pc = "tokens" /\ x.held = RowsToRevoke(r)
      /\ x.seen = req[r].seen /\ x.op = req[r].op /\ x.reason = req[r].reason
  BY <1>1, <1>2 DEF Row
<1> HIDE DEF x
<1>4. RowSound(x) /\ RowTokens(x) = {} /\ RowSessions(x) = RowsToRevoke(r)
  BY <1>1, <1>2, <1>3 DEF RowSound, RowTokens, RowSessions
<1>5. \A q \in Request \ {r} : Apart(x, req[q])
  BY <1>1, <1>4, HeldIsRow DEF SessionFree, Apart
<1>6. QED
  BY <1>1, <1>3, <1>4, <1>5, RequestStep

\* PostgreSQL rolls the victim back.
LEMMA DeadlockVictimStep ==
    ASSUME AuthInv, NEW r \in Request, DeadlockVictim(r)
    PROVE  AuthInv' /\ UNCHANGED <<session, token, missed>>
  BY EndStep DEF DeadlockVictim
-----------------------------------------------------------------------------
(* The steps that write.                                                   *)

\* A request that ends leaves the others apart.
LEMMA EndApart ==
    ASSUME AuthInv, NEW r \in Request, req' = [req EXCEPT ![r] = Idle]
    PROVE  /\ \A q \in Request : req'[q] = IF q = r THEN Idle ELSE req[q]
           /\ req' \in [Request -> Row]
           /\ Exclusive'
<1>1. req \in [Request -> Row] /\ Idle \in Row
  BY IdleRow DEF AuthInv, OneLiveToken, TypeOK, Row
<1>2. \A q \in Request : req'[q] = IF q = r THEN Idle ELSE req[q]
  BY <1>1
<1>3. req' \in [Request -> Row]
  BY <1>1
<1>4. \A y : Apart(Idle, y) /\ Apart(y, Idle)
  BY IdleRow DEF Apart
<1>5. \A p, q \in Request : p # q => Apart(req'[p], req'[q])
  BY <1>2, <1>4 DEF AuthInv, Exclusive
<1>6. QED
  BY <1>2, <1>3, <1>5 DEF Exclusive

\* The rotation replaces the token it holds, live until now and so the last
\* one issued, by the next.
LEMMA RotateCommitStep ==
    ASSUME AuthInv, NEW r \in Request, RotateCommit(r)
    PROVE  AuthInv'
<1> DEFINE s == req[r].session
           i == req[r].at
<1>1. /\ s \in Session /\ i \in Position /\ i + 1 \in Position
      /\ token[s][i] = "live" /\ IsOpen(s)
      /\ req[r] \in Row /\ RowTokens(req[r]) = {<<s, i>>}
      /\ req' = [req EXCEPT ![r] = Idle] /\ session' = session /\ missed' = missed
      /\ token' = [token EXCEPT ![s][i] = "used", ![s][i + 1] = "live"]
  BY DEF AuthInv, OneLiveToken, TypeOK, Row, RowsSound, RowSound, RowTokens, RotateCommit
<1> HIDE DEF s, i
<1>2. i \in Nat /\ i # i + 1
  BY <1>1, AuthAssumption, ChainAssumption DEF Position
<1>3. token \in [Session -> [Position -> {"none", "live", "used", "revoked"}]]
  BY DEF AuthInv, OneLiveToken, TypeOK
<1>4. /\ token' \in [Session -> [Position -> {"none", "live", "used", "revoked"}]]
      /\ \A t \in Session, j \in Position :
            token'[t][j] = IF t = s /\ j = i THEN "used"
                           ELSE IF t = s /\ j = i + 1 THEN "live" ELSE token[t][j]
  BY <1>1, <1>2, <1>3
<1>5. \A j \in Position : i < j => token[s][j] = "none"
  BY <1>1 DEF AuthInv, OneLiveToken
<1>6. OneLiveToken'
  <2>1. TypeOK'
    BY <1>1, <1>4, EndApart DEF AuthInv, OneLiveToken, TypeOK, Row
  <2>2. ASSUME NEW t \in Session, NEW a \in Position, NEW b \in Position,
               a < b, token'[t][b] # "none"
        PROVE  token'[t][a] \in {"used", "revoked"}
    <3>1. token[t][b] # "none" => token[t][a] \in {"used", "revoked"}
      BY <2>2 DEF AuthInv, OneLiveToken
    <3>2. a \in Nat /\ b \in Nat
      BY DEF Position
    <3>3. CASE t # s
      BY <1>4, <2>2, <3>1, <3>3
    <3>4. CASE t = s /\ b = i + 1
      <4>1. a = i \/ a < i
        BY <1>2, <2>2, <3>2, <3>4
      <4>2. a < i => token[s][a] \in {"used", "revoked"}
        BY <1>1 DEF AuthInv, OneLiveToken
      <4>3. QED
        BY <1>2, <1>4, <3>2, <3>4, <4>1, <4>2
    <3>5. CASE t = s /\ b # i + 1
      <4>1. token[s][b] # "none"
        BY <1>1, <1>4, <2>2, <3>5
      <4>2. ~(i < b)
        BY <1>5, <4>1
      <4>3. a # i + 1
        BY <1>2, <2>2, <3>2, <4>2
      <4>4. QED
        BY <1>4, <3>1, <3>5, <4>1, <4>3
    <3>6. QED
      BY <3>3, <3>4, <3>5
  <2>3. QED
    BY <2>1, <2>2 DEF OneLiveToken
<1>7. FamilyDiesTogether' /\ NoTokenYet'
  <2>1. \A t \in Session : session[t].state # "open" =>
           \A j \in Position : token'[t][j] = token[t][j]
    BY <1>1, <1>4 DEF IsOpen
  <2>2. FamilyDiesTogether'
    <3>1. \A t \in Session : session[t].state = "revoked" => Live(t)' = Live(t)
      BY <2>1 DEF Live
    <3>2. session' = session /\ missed' = missed
      BY <1>1
    <3>3. QED
      BY <3>1, <3>2 DEF AuthInv, FamilyDiesTogether
  <2>3. NoTokenYet'
    <3>1. session' = session
      BY <1>1
    <3>2. \A t \in Session, j \in Position : session[t].state = "none" => token'[t][j] = "none"
      BY <2>1 DEF AuthInv, NoTokenYet
    <3>3. QED
      BY <3>1, <3>2 DEF NoTokenYet
  <2>4. QED
    BY <2>2, <2>3
<1>8. RowsSound'
  <2>1. ASSUME NEW q \in Request PROVE RowSound(req[q])'
    <3>1. CASE q = r
      <4>1. req'[q] = Idle
        BY <1>1, <3>1, EndApart
      <4>2. QED
        BY <4>1, IdleRow DEF RowSound
    <3>2. CASE q # r
      <4>1. req'[q] = req[q] /\ RowSound(req[q])
        BY <1>1, <3>2, EndApart DEF AuthInv, RowsSound
      <4>2. ASSUME req[q].pc \in {"touch", "rotate"}
            PROVE  token'[req[q].session][req[q].at] = "live"
        <5>1. /\ req[q].session \in Session /\ req[q].at \in Position
              /\ token[req[q].session][req[q].at] = "live"
          BY <4>1, <4>2 DEF RowSound
        <5>2. <<req[q].session, req[q].at>> # <<s, i>>
          BY <1>1, <3>2, <4>2 DEF AuthInv, Exclusive, Apart, RowTokens
        <5>3. QED
          BY <1>4, <5>1, <5>2
      <4>3. QED
        BY <1>1, <4>1, <4>2 DEF RowSound, IsOpen
    <3>3. QED
      BY <3>1, <3>2
  <2>2. QED
    BY <2>1 DEF RowsSound
<1>9. QED
  BY <1>1, <1>6, <1>7, <1>8, EndApart DEF AuthInv

\* What a revocation writes: the sessions it holds become revoked and the
\* tokens of those it read at first die, none of which another request holds.
LEMMA RevokeCommitStep ==
    ASSUME AuthInv, NEW r \in Request, RevokeCommit(r)
    PROVE  AuthInv'
<1> DEFINE held == req[r].held
           seen == req[r].seen
           why == req[r].reason
<1>1. /\ held \in SUBSET Session /\ seen \in SUBSET Session /\ why \in Reason \cup {None}
      /\ \A t \in held \cup seen : session[t].state # "none"
      /\ RowSessions(req[r]) = held
      /\ req' = [req EXCEPT ![r] = Idle]
      /\ \A t \in seen, j \in Position : TokenFree(r, t, j)
  <2>1. req[r] \in Row /\ RowSound(req[r])
    BY DEF AuthInv, OneLiveToken, TypeOK, Row, RowsSound
  <2>2. /\ req[r].pc = "tokens" /\ req' = [req EXCEPT ![r] = Idle]
        /\ \A t \in seen, j \in Position : TokenFree(r, t, j)
    BY DEF RevokeCommit
  <2>3. held \in SUBSET Session /\ seen \in SUBSET Session /\ why \in Reason \cup {None}
    BY <2>1 DEF Row
  <2>4. \A t \in held \cup seen : session[t].state # "none"
    BY <2>1, <2>2 DEF RowSound
  <2>5. RowSessions(req[r]) = held
    BY <2>2 DEF RowSessions
  <2>6. QED
    BY <2>2, <2>3, <2>4, <2>5
<1>2. /\ session' = [t \in Session |->
            IF t \in held THEN [session[t] EXCEPT !.state = "revoked", !.reason = why]
                          ELSE session[t]]
      /\ token' = [t \in Session |-> [j \in Position |->
            IF t \in seen /\ token[t][j] # "none" THEN "revoked" ELSE token[t][j]]]
      /\ missed' = (missed \cup held) \ seen
  BY DEF RevokeCommit
<1> HIDE DEF held, seen, why
<1>3. /\ session \in [Session -> [state : {"none", "open", "revoked"},
                                  reason : Reason \cup {None}, lapsed : BOOLEAN]]
      /\ token \in [Session -> [Position -> {"none", "live", "used", "revoked"}]]
  BY DEF AuthInv, OneLiveToken, TypeOK
<1>4. /\ session' \in [Session -> [state : {"none", "open", "revoked"},
                                   reason : Reason \cup {None}, lapsed : BOOLEAN]]
      /\ \A t \in Session : t \in held =>
            session'[t].state = "revoked" /\ session'[t].reason = why
      /\ \A t \in Session \ held : session'[t] = session[t]
  BY <1>1, <1>2, <1>3
<1>5. /\ token' \in [Session -> [Position -> {"none", "live", "used", "revoked"}]]
      /\ \A t \in Session, j \in Position :
            token'[t][j] = IF t \in seen /\ token[t][j] # "none" THEN "revoked" ELSE token[t][j]
  BY <1>2, <1>3
<1>6. OneLiveToken'
  <2>1. TypeOK'
    <3>1. missed' \subseteq Session
      BY <1>1, <1>2 DEF AuthInv, OneLiveToken, TypeOK
    <3> QED BY <1>1, <1>4, <1>5, <3>1, EndApart DEF TypeOK, Row
  <2>2. \A t \in Session, a, b \in Position :
           a < b /\ token'[t][b] # "none" => token'[t][a] \in {"used", "revoked"}
    BY <1>5 DEF AuthInv, OneLiveToken
  <2>3. QED
    BY <2>1, <2>2 DEF OneLiveToken
<1>7. FamilyDiesTogether'
  <2>1. ASSUME NEW t \in Session, session'[t].state = "revoked",
               t \notin missed', NEW j \in Position
        PROVE  token'[t][j] # "live"
    <3>1. CASE t \in seen
      BY <1>5, <3>1
    <3>2. CASE t \notin seen
      <4>1. token[t][j] # "live"
        BY <1>2, <1>4, <2>1, <3>2 DEF AuthInv, FamilyDiesTogether, Live
      <4>2. QED
        BY <1>5, <4>1
    <3>3. QED
      BY <3>1, <3>2
  <2>2. QED
    BY <2>1 DEF FamilyDiesTogether, Live
<1>8. NoTokenYet'
  BY <1>4, <1>5 DEF AuthInv, NoTokenYet
<1>9. RowsSound'
  <2>1. ASSUME NEW q \in Request PROVE RowSound(req[q])'
    <3>1. CASE q = r
      <4>1. req'[q] = Idle
        BY <1>1, <3>1, EndApart
      <4>2. QED
        BY <4>1, IdleRow DEF RowSound
    <3>2. CASE q # r
      <4>1. req'[q] = req[q] /\ RowSound(req[q]) /\ req[q] \in Row
        BY <1>1, <3>2, EndApart DEF AuthInv, RowsSound, OneLiveToken, TypeOK, Row
      <4>2. ASSUME req[q].pc \in {"touch", "rotate"}
            PROVE  token'[req[q].session][req[q].at] = "live"
        <5>1. /\ req[q].session \in Session /\ req[q].at \in Position
              /\ token[req[q].session][req[q].at] = "live"
          BY <4>1, <4>2 DEF RowSound
        <5>2. req[q].session \notin seen
          BY <1>1, <3>2, <4>2, <5>1 DEF TokenFree, HeldTokens
        <5>3. QED
          BY <1>5, <5>1, <5>2
      <4>3. ASSUME req[q].pc = "rotate"
            PROVE  session'[req[q].session].state = "open"
        <5>1. req[q].session \in Session /\ session[req[q].session].state = "open"
          BY <4>1, <4>3 DEF RowSound, IsOpen
        <5>2. req[q].session \notin held
          BY <1>1, <3>2, <4>3 DEF AuthInv, Exclusive, Apart, RowSessions
        <5>3. QED
          BY <1>4, <5>1, <5>2
      <4>4. \A t \in Session : session[t].state # "none" => session'[t].state # "none"
        BY <1>4
      <4>5. req[q].seen \subseteq Session /\ req[q].held \subseteq Session
        BY <4>1 DEF Row
      <4>6. req[q].pc \in {"claim", "touch", "rotate"} =>
               /\ req[q].session \in Session /\ req[q].at \in Position
               /\ req[q].at + 1 \in Position /\ session'[req[q].session].state # "none"
        BY <4>1, <4>4 DEF RowSound
      <4>7. /\ req[q].pc \in {"revoke", "tokens"} =>
                 \A t \in req[q].seen : session'[t].state # "none"
            /\ req[q].pc = "tokens" =>
                 \A t \in req[q].held : session'[t].state # "none"
            /\ req[q].pc # "tokens" => req[q].held = {}
        BY <4>1, <4>4, <4>5 DEF RowSound
      <4>8. QED
        BY <4>1, <4>2, <4>3, <4>6, <4>7 DEF RowSound, IsOpen
    <3>3. QED
      BY <3>1, <3>2
  <2>2. QED
    BY <2>1 DEF RowsSound
<1>10. QED
  BY <1>1, <1>6, <1>7, <1>8, <1>9, EndApart DEF AuthInv

\* Signing in and the passing of time leave the requests where they are.
LEMMA SignInStep ==
    ASSUME AuthInv, NEW s \in Session, SignIn(s)
    PROVE  AuthInv'
<1>1. /\ session[s].state = "none" /\ req' = req /\ missed' = missed
      /\ session' = [session EXCEPT ![s].state = "open"]
      /\ token' = [token EXCEPT ![s][1] = "live"]
      /\ 1 \in Position /\ \A j \in Position : j \in Nat /\ 1 <= j
  BY AuthAssumption, ChainAssumption DEF SignIn, Position
<1>2. /\ session \in [Session -> [state : {"none", "open", "revoked"},
                                  reason : Reason \cup {None}, lapsed : BOOLEAN]]
      /\ token \in [Session -> [Position -> {"none", "live", "used", "revoked"}]]
  BY DEF AuthInv, OneLiveToken, TypeOK
<1>3. /\ session' \in [Session -> [state : {"none", "open", "revoked"},
                                   reason : Reason \cup {None}, lapsed : BOOLEAN]]
      /\ \A t \in Session : session'[t].state = IF t = s THEN "open" ELSE session[t].state
      /\ \A t \in Session \ {s} : session'[t] = session[t]
  BY <1>1, <1>2
<1>4. /\ token' \in [Session -> [Position -> {"none", "live", "used", "revoked"}]]
      /\ \A t \in Session, j \in Position :
            token'[t][j] = IF t = s /\ j = 1 THEN "live" ELSE token[t][j]
  BY <1>1, <1>2
<1>5. \A j \in Position : token[s][j] = "none"
  BY <1>1 DEF AuthInv, NoTokenYet
<1>6. OneLiveToken'
  <2>1. TypeOK'
    BY <1>1, <1>3, <1>4 DEF AuthInv, OneLiveToken, TypeOK
  <2>2. ASSUME NEW t \in Session, NEW a \in Position, NEW b \in Position,
               a < b, token'[t][b] # "none"
        PROVE  token'[t][a] \in {"used", "revoked"}
    <3>1. b # 1
      BY <1>1, <2>2
    <3>2. t # s
      BY <1>4, <1>5, <2>2, <3>1
    <3>3. QED
      BY <1>4, <2>2, <3>2 DEF AuthInv, OneLiveToken
  <2>3. QED
    BY <2>1, <2>2 DEF OneLiveToken
<1>7. FamilyDiesTogether' /\ NoTokenYet'
  <2>1. FamilyDiesTogether'
    <3>1. \A t \in Session : session'[t].state = "revoked" => t # s
      BY <1>3
    <3>2. \A t \in Session \ {s} : Live(t)' = Live(t)
      BY <1>4 DEF Live
    <3>3. QED
      BY <1>1, <1>3, <3>1, <3>2 DEF AuthInv, FamilyDiesTogether
  <2>2. NoTokenYet'
    BY <1>3, <1>4 DEF AuthInv, NoTokenYet
  <2>3. QED
    BY <2>1, <2>2
<1>8. RowsSound'
  <2>1. ASSUME NEW x \in Row, RowSound(x) PROVE RowSound(x)'
    <3>1. \A t \in Session : session[t].state # "none" => session'[t].state # "none"
      BY <1>3
    <3>2. \A t \in Session : session[t].state = "open" => session'[t].state = "open"
      BY <1>3
    <3>3. \A t \in Session, j \in Position : token[t][j] = "live" => token'[t][j] = "live"
      BY <1>4
    <3>4. x.seen \subseteq Session /\ x.held \subseteq Session
      BY DEF Row
    <3>5. QED
      BY <2>1, <3>1, <3>2, <3>3, <3>4 DEF RowSound, IsOpen
  <2>2. \A q \in Request : req[q] \in Row /\ RowSound(req[q])
    BY DEF AuthInv, OneLiveToken, TypeOK, Row, RowsSound
  <2>3. QED
    BY <1>1, <2>1, <2>2 DEF RowsSound
<1>9. Exclusive'
  BY <1>1 DEF AuthInv, Exclusive, Apart, RowTokens, RowSessions
<1>10. QED
  BY <1>6, <1>7, <1>8, <1>9 DEF AuthInv

\* An expiry keeps the invariant; it changes no state and no token.
LEMMA LapseStep ==
    ASSUME AuthInv, NEW s \in Session, Lapse(s)
    PROVE  /\ AuthInv' /\ UNCHANGED token
           /\ \A t \in Session : session'[t].state = session[t].state
<1>1. /\ req' = req /\ token' = token /\ missed' = missed
      /\ session' = [session EXCEPT ![s].lapsed = TRUE]
  BY DEF Lapse
<1>2. session \in [Session -> [state : {"none", "open", "revoked"},
                               reason : Reason \cup {None}, lapsed : BOOLEAN]]
  BY DEF AuthInv, OneLiveToken, TypeOK
<1>3. /\ session' \in [Session -> [state : {"none", "open", "revoked"},
                                   reason : Reason \cup {None}, lapsed : BOOLEAN]]
      /\ \A t \in Session : /\ session'[t].state = session[t].state
                            /\ session'[t].reason = session[t].reason
  BY <1>1, <1>2
<1>4. OneLiveToken'
  BY <1>1, <1>3 DEF AuthInv, OneLiveToken, TypeOK
<1>5. FamilyDiesTogether' /\ NoTokenYet'
  BY <1>1, <1>3 DEF AuthInv, FamilyDiesTogether, Live, NoTokenYet
<1>6. RowsSound'
  <2>1. ASSUME NEW x \in Row, RowSound(x) PROVE RowSound(x)'
    <3>1. x.seen \subseteq Session /\ x.held \subseteq Session
      BY DEF Row
    <3>2. QED
      BY <1>1, <1>3, <2>1, <3>1 DEF RowSound, IsOpen
  <2>2. \A q \in Request : req[q] \in Row /\ RowSound(req[q])
    BY DEF AuthInv, OneLiveToken, TypeOK, Row, RowsSound
  <2>3. QED
    BY <1>1, <2>1, <2>2 DEF RowsSound
<1>7. Exclusive'
  BY <1>1 DEF AuthInv, Exclusive, Apart, RowTokens, RowSessions
<1>8. QED
  BY <1>1, <1>3, <1>4, <1>5, <1>6, <1>7 DEF AuthInv
-----------------------------------------------------------------------------
(* Every step of the system.                                               *)

\* No session is open at first.
LEMMA InitStep == Init => AuthInv
<1> SUFFICES ASSUME Init PROVE AuthInv
  OBVIOUS
<1>1. /\ \A s \in Session : session[s].state = "none" /\ session[s].reason = None
      /\ \A s \in Session, i \in Position : token[s][i] = "none"
      /\ \A r \in Request : req[r] = Idle
  BY DEF Init
<1>2. TypeOK
  BY IdleRow DEF Init, TypeOK, Row
<1>3. OneLiveToken /\ FamilyDiesTogether /\ NoTokenYet
  BY <1>1, <1>2 DEF OneLiveToken, FamilyDiesTogether, NoTokenYet
<1>4. RowsSound
  BY <1>1, IdleRow DEF RowsSound
<1>5. Exclusive
  BY <1>1, IdleRow DEF Exclusive, Apart
<1>6. QED
  BY <1>3, <1>4, <1>5 DEF AuthInv

\* Every step keeps the invariant.
LEMMA NextStep == AuthInv /\ [Next]_vars => AuthInv'
<1> SUFFICES ASSUME AuthInv, [Next]_vars PROVE AuthInv'
  OBVIOUS
<1>1. ASSUME NEW r \in Request, Step(r) PROVE AuthInv'
  BY <1>1, ClaimStep, TouchStep, RotateCommitStep, LockSessionsStep, RevokeCommitStep,
     DeadlockVictimStep DEF Step
<1>2. CASE UNCHANGED vars
  <2>1. \A r \in Request : RowSound(req[r])'
    BY <1>2 DEF vars, AuthInv, RowsSound, RowSound, IsOpen
  <2>2. OneLiveToken' /\ FamilyDiesTogether' /\ NoTokenYet'
    BY <1>2 DEF vars, AuthInv, OneLiveToken, TypeOK, FamilyDiesTogether, Live, NoTokenYet
  <2>3. Exclusive'
    BY <1>2 DEF vars, AuthInv, Exclusive, Apart, RowTokens, RowSessions
  <2>4. QED
    BY <2>1, <2>2, <2>3 DEF AuthInv, RowsSound
<1>3. QED
  BY <1>1, <1>2, ArriveStep, SignInStep, LapseStep DEF Next

\* The sessions of one user, whatever refreshes, logouts, deadlocks and expiries
\* interleave: of a session there is one chain of tokens with at most its last
\* one good; none once a revocation of that session committed, unless it was a logout of
\* all devices that had not listed the session, and then none that is ever traded.
THEOREM OneTokenPerFamily == Spec => []FamilyHolds
<1>1. AuthInv => FamilyHolds
  BY DEF AuthInv, FamilyHolds, RowsSound, RowSound, IssuesWhileOpen
<1>2. QED
  BY <1>1, InitStep, NextStep, PTL DEF Spec

\* No step reopens a revoked session or makes one of its tokens good again: a
\* rotation that commits holds its session, which it found open.
THEOREM RevocationIsFinal == Spec => RevokedForGood
<1> DEFINE Final(s) == session[s].state = "revoked" =>
                          session'[s].state = "revoked" /\ Live(s)' \subseteq Live(s)
<1>1. ASSUME AuthInv, [Next]_vars, NEW s \in Session PROVE Final(s)
  <2>1. CASE session' = session /\ token' = token
    BY <2>1 DEF Live
  <2>2. ASSUME NEW t \in Session, SignIn(t) PROVE Final(s)
    <3>1. ASSUME session[s].state = "revoked"
          PROVE  session'[s] = session[s] /\ token'[s] = token[s]
      <4>1. s # t
        BY <2>2, <3>1 DEF SignIn
      <4>2. QED
        BY <2>2, <4>1 DEF SignIn, AuthInv, OneLiveToken, TypeOK
    <3>2. QED
      BY <3>1 DEF Live
  <2>3. ASSUME NEW t \in Session, Lapse(t) PROVE Final(s)
    <3>1. session'[s].state = session[s].state /\ token' = token
      BY <1>1, <2>3, LapseStep
    <3>2. QED
      BY <3>1 DEF Live
  <2>4. ASSUME NEW r \in Request, RotateCommit(r) PROVE Final(s)
    <3>1. /\ req[r].session \in Session /\ session[req[r].session].state = "open"
          /\ session' = session
      BY <1>1, <2>4 DEF RotateCommit, AuthInv, RowsSound, RowSound, IsOpen
    <3>2. ASSUME session[s].state = "revoked" PROVE token'[s] = token[s]
      <4>1. s # req[r].session
        BY <3>1, <3>2
      <4>2. QED
        BY <1>1, <2>4, <4>1 DEF RotateCommit, AuthInv, OneLiveToken, TypeOK
    <3>3. QED
      BY <3>1, <3>2 DEF Live
  <2>5. ASSUME NEW r \in Request, RevokeCommit(r) PROVE Final(s)
    <3>1. session[s].state = "revoked" => session'[s].state = "revoked"
      <4>1. session[s] \in [state : {"none", "open", "revoked"},
                            reason : Reason \cup {None}, lapsed : BOOLEAN]
        BY <1>1 DEF AuthInv, OneLiveToken, TypeOK
      <4>2. session'[s] = IF s \in req[r].held
              THEN [session[s] EXCEPT !.state = "revoked", !.reason = req[r].reason]
              ELSE session[s]
        BY <2>5 DEF RevokeCommit
      <4>3. QED
        BY <4>1, <4>2
    <3>2. \A j \in Position : token'[s][j] = "live" => token[s][j] = "live"
      BY <2>5 DEF RevokeCommit
    <3>3. QED
      BY <3>1, <3>2 DEF Live
  <2>6. ASSUME NEW r \in Request, Step(r) PROVE Final(s)
    BY <1>1, <2>1, <2>4, <2>5, <2>6, ClaimStep, TouchStep, LockSessionsStep,
       DeadlockVictimStep DEF Step
  <2>7. ASSUME NEW r \in Request, Arrive(r) PROVE Final(s)
    BY <1>1, <2>1, <2>7, ArriveStep
  <2>8. CASE UNCHANGED vars
    BY <2>1, <2>8 DEF vars
  <2>9. QED
    BY <1>1, <2>2, <2>3, <2>6, <2>7, <2>8 DEF Next
<1>2. AuthInv /\ [Next]_vars =>
        [\A s \in Session : session[s].state = "revoked" =>
            /\ session'[s].state = "revoked"
            /\ Live(s)' \subseteq Live(s)]_vars
  BY <1>1
<1>3. QED
  BY <1>2, InitStep, NextStep, PTL DEF Spec, RevokedForGood
-----------------------------------------------------------------------------
(* The promise of SessionFamily.                                           *)

\* What SessionFamily sees of the tables.
Families == [s \in Session |-> session[s].state]
Currents == [s \in Session |-> Cardinality(Issued(s))]

\* Positions issued are finitely many.
LEMMA IssuedFinite == ASSUME NEW s PROVE IsFiniteSet(Issued(s))
<1>1. IsFiniteSet(Position)
  BY FS_Interval, AuthAssumption, ChainAssumption DEF Position
<1>2. Issued(s) \subseteq Position
  BY DEF Issued
<1>3. QED
  BY <1>1, <1>2, FS_Subset

\* The steps of SessionFamily, and its variables, in these terms.
LEMMA FamilyOpens ==
    ASSUME NEW s \in Session, Families[s] = "none", Families' = [Families EXCEPT ![s] = "open"],
           Currents' = [Currents EXCEPT ![s] = 1]
    PROVE  Family!FamilyNext
BY Zenon DEF Families, Currents, Family!Open, Family!FamilyNext

\* A rotation in the words of the abstract specification.
LEMMA FamilyRotates ==
    ASSUME NEW s \in Session, Families[s] = "open", UNCHANGED Families,
           Currents' = [Currents EXCEPT ![s] = @ + 1]
    PROVE  Family!FamilyNext
BY Zenon DEF Families, Currents, Family!Rotate, Family!FamilyNext

\* Likewise a revocation.
LEMMA FamilyRevokes ==
    ASSUME NEW S \in SUBSET Session, \A s \in S : Families[s] # "none", UNCHANGED Currents,
           Families' = [s \in Session |-> IF s \in S THEN "revoked" ELSE Families[s]]
    PROVE  Family!FamilyNext
BY Zenon DEF Families, Currents, Family!Revoke, Family!FamilyNext

\* Likewise a step that changes nothing a client can tell, and the initial state.
LEMMA FamilyVars ==
    /\ UNCHANGED <<Families, Currents>> => UNCHANGED Family!familyVars
    /\ Families = [s \in Session |-> "none"] /\ Currents = [s \in Session |-> 0] =>
          Family!FamilyInit
BY Zenon DEF Families, Currents, Family!familyVars, Family!FamilyInit

\* The tables look the same to SessionFamily.
LEMMA SameFamily ==
    ASSUME \A s \in Session : session'[s].state = session[s].state, UNCHANGED token
    PROVE  UNCHANGED Family!familyVars
<1>1. Families' = Families
  BY DEF Families
<1>2. \A s \in Session : Issued(s)' = Issued(s)
  BY DEF Issued
<1>3. Currents' = Currents
  BY <1>2, Zenon DEF Currents
<1>4. QED
  BY <1>1, <1>3, FamilyVars

\* A sign-in is a step of the abstract specification.
LEMMA SignInOpens ==
    ASSUME AuthInv, NEW s \in Session, SignIn(s)
    PROVE  Family!FamilyNext
<1>1. /\ session[s].state = "none" /\ 1 \in Position
      /\ session' = [session EXCEPT ![s].state = "open"]
      /\ token' = [token EXCEPT ![s][1] = "live"]
  BY AuthAssumption, ChainAssumption DEF SignIn, Position
<1>2. /\ session \in [Session -> [state : {"none", "open", "revoked"},
                                  reason : Reason \cup {None}, lapsed : BOOLEAN]]
      /\ token \in [Session -> [Position -> {"none", "live", "used", "revoked"}]]
  BY DEF AuthInv, OneLiveToken, TypeOK
<1>3. Families[s] = "none" /\ Families' = [Families EXCEPT ![s] = "open"]
  BY <1>1, <1>2 DEF Families
<1>4. Issued(s)' = {1}
  BY <1>1, <1>2 DEF AuthInv, NoTokenYet, Issued
<1>5. Cardinality(Issued(s)') = 1
  BY <1>4, FS_Singleton
<1>6. \A t \in Session \ {s} : Issued(t)' = Issued(t)
  BY <1>1, <1>2 DEF Issued
<1>7. Currents' = [Currents EXCEPT ![s] = 1]
  <2>1. \A t \in Session : Cardinality(Issued(t)') = IF t = s THEN 1 ELSE Cardinality(Issued(t))
    BY <1>5, <1>6
  <2>2. QED
    BY <2>1 DEF Currents
<1>8. QED
  BY <1>3, <1>7, FamilyOpens

\* One more position issued, which was free until now.
LEMMA RotateCommitRotates ==
    ASSUME AuthInv, NEW r \in Request, RotateCommit(r)
    PROVE  Family!FamilyNext
<1>1. PICK s \in Session, i \in Position :
        /\ i + 1 \in Position
        /\ token[s][i] = "live" /\ session[s].state = "open" /\ session' = session
        /\ token' = [token EXCEPT ![s][i] = "used", ![s][i + 1] = "live"]
  BY DEF AuthInv, RowsSound, RowSound, IsOpen, RotateCommit
<1>2. token \in [Session -> [Position -> {"none", "live", "used", "revoked"}]]
  BY DEF AuthInv, OneLiveToken, TypeOK
<1>3. i \in Nat /\ token[s][i + 1] = "none"
  <2>1. i \in Nat /\ i < i + 1
    BY <1>1 DEF Position
  <2>2. QED
    BY <1>1, <2>1 DEF AuthInv, OneLiveToken
<1>4. Issued(s)' = Issued(s) \cup {i + 1} /\ i + 1 \notin Issued(s)
  <2>1. \A j \in Position : token'[s][j] # "none" <=> token[s][j] # "none" \/ j = i + 1
    BY <1>1, <1>2, <1>3
  <2>2. QED
    BY <1>1, <1>3, <2>1 DEF Issued
<1>5. Cardinality(Issued(s)') = Cardinality(Issued(s)) + 1
  BY <1>4, IssuedFinite, FS_AddElement
<1>6. \A t \in Session \ {s} : Issued(t)' = Issued(t)
  BY <1>1, <1>2 DEF Issued
<1>7. Currents' = [Currents EXCEPT ![s] = @ + 1]
  <2>1. \A t \in Session : Cardinality(Issued(t)') =
           IF t = s THEN Cardinality(Issued(s)) + 1 ELSE Cardinality(Issued(t))
    BY <1>5, <1>6
  <2>2. QED
    BY <1>1, <2>1 DEF Currents
<1>8. Families[s] = "open" /\ UNCHANGED Families
  BY <1>1 DEF Families
<1>9. QED
  BY <1>1, <1>7, <1>8, FamilyRotates

\* So is the commit of a revocation.
LEMMA RevokeCommitRevokes ==
    ASSUME AuthInv, NEW r \in Request, RevokeCommit(r)
    PROVE  Family!FamilyNext
<1> DEFINE S == req[r].held
<1>1. S \in SUBSET Session /\ \A s \in S : session[s].state # "none"
  BY DEF AuthInv, OneLiveToken, TypeOK, RowsSound, RowSound, RevokeCommit
<1>2. /\ session' = [s \in Session |->
            IF s \in S THEN [session[s] EXCEPT !.state = "revoked", !.reason = req[r].reason]
                       ELSE session[s]]
      /\ token' = [s \in Session |-> [i \in Position |->
            IF s \in req[r].seen /\ token[s][i] # "none" THEN "revoked" ELSE token[s][i]]]
  BY DEF RevokeCommit
<1> HIDE DEF S
<1>3. session \in [Session -> [state : {"none", "open", "revoked"},
                               reason : Reason \cup {None}, lapsed : BOOLEAN]]
  BY DEF AuthInv, OneLiveToken, TypeOK
<1>4. /\ \A s \in S : Families[s] # "none"
      /\ Families' = [s \in Session |-> IF s \in S THEN "revoked" ELSE Families[s]]
  BY <1>1, <1>2, <1>3 DEF Families
<1>5. \A s \in Session : Issued(s)' = Issued(s)
  BY <1>2 DEF Issued
<1>6. UNCHANGED Currents
  BY <1>5, Zenon DEF Currents
<1>7. QED
  BY <1>1, <1>4, <1>6, FamilyRevokes

\* The protocol of requests, row locks and rollbacks implements SessionFamily,
\* whose rotations and revocations happen one after another: its sessions go
\* from none to open to revoked, and the chain of each grows by one at a time
\* and only while it is open.
THEOREM FamilyImplemented == Spec => ImplementsFamily
<1>1. Init => Family!FamilyInit
  <2> SUFFICES ASSUME Init PROVE Family!FamilyInit
    OBVIOUS
  <2>1. \A s \in Session : Issued(s) = {}
    BY DEF Init, Issued
  <2>2. Currents = [s \in Session |-> 0]
    BY <2>1, FS_EmptySet DEF Currents
  <2>3. Families = [s \in Session |-> "none"]
    BY DEF Init, Families
  <2>4. QED
    BY <2>2, <2>3, FamilyVars
<1>2. AuthInv /\ [Next]_vars => [Family!FamilyNext]_(Family!familyVars)
  <2> SUFFICES ASSUME AuthInv, [Next]_vars
               PROVE  Family!FamilyNext \/ UNCHANGED Family!familyVars
    OBVIOUS
  <2>1. CASE UNCHANGED <<session, token, missed>>
    BY <2>1, SameFamily
  <2>2. ASSUME NEW r \in Request, Step(r)
        PROVE  Family!FamilyNext \/ UNCHANGED Family!familyVars
    BY <2>1, <2>2, ClaimStep, TouchStep, RotateCommitRotates, LockSessionsStep,
       RevokeCommitRevokes, DeadlockVictimStep DEF Step
  <2>3. ASSUME NEW r \in Request, Arrive(r)
        PROVE  Family!FamilyNext \/ UNCHANGED Family!familyVars
    BY <2>1, <2>3, ArriveStep
  <2>4. ASSUME NEW s \in Session, Lapse(s)
        PROVE  UNCHANGED Family!familyVars
    BY <2>4, LapseStep, SameFamily
  <2>5. CASE UNCHANGED vars
    BY <2>1, <2>5 DEF vars
  <2>6. QED
    BY <2>2, <2>3, <2>4, <2>5, SignInOpens DEF Next
<1>3. QED
  BY <1>1, <1>2, InitStep, NextStep, PTL DEF Spec, ImplementsFamily, Family!FamilySpec
-----------------------------------------------------------------------------
(* What the clients share                                                  *)

\* What may cost the user the session: it is exposed, or it has ended already.
AtRisk(s) == family[s] = "open" => s \in exposed

\* A token the server expects next, unless its session is at risk.
Sound(t) == family[t[1]] # "none" /\ (t[2] = current[t[1]] \/ AtRisk(t[1]))

\* The types of a token's parts.
LEMMA TokenTypes ==
    ASSUME NEW t \in Token
    PROVE  /\ t[1] \in Session /\ t[2] \in 1 .. MaxChain /\ t[2] \in Nat
           /\ t = <<t[1], t[2]>>
           /\ t[2] < MaxChain => <<t[1], t[2] + 1>> \in Token
<1>1. t[1] \in Session /\ t[2] \in 1 .. MaxChain /\ t = <<t[1], t[2]>>
  BY DEF Token
<1>2. t[2] \in Nat /\ MaxChain \in Nat /\ 1 <= t[2]
  BY <1>1, ChainAssumption
<1>3. t[2] < MaxChain => t[2] + 1 \in 1 .. MaxChain
  BY <1>2
<1> QED BY <1>1, <1>2, <1>3 DEF Token

\* A step of the client, with the server at rest, puts no session out of risk, so what
\* was sound stays sound.
LEMMA SoundStays ==
    ASSUME UNCHANGED familyVars, \A s \in Session : AtRisk(s) => AtRisk(s)',
           NEW t \in Token, Sound(t)
    PROVE  Sound(t)'
<1>1. family' = family /\ current' = current
  BY DEF familyVars
<1>2. t[1] \in Session
  BY TokenTypes
<1>3. AtRisk(t[1]) => AtRisk(t[1])'
  BY <1>2
<1> QED BY <1>1, <1>3 DEF Sound
-----------------------------------------------------------------------------
(* The phone                                                               *)

JobRow == [pc : {"idle", "lock", "launch", "signin", "opened", "logout", "answered"} \cup InMutex,
           token : Token \cup {None}]

\* The job carries a token of the session that is not in the store.
Carries(p) == job[p].pc \in {"wire", "reply", "save", "opened"}

JobSound(p) ==
    /\ Carries(p) => job[p].token \in Token /\ Sound(job[p].token)
    /\ p \in Caller => job[p].pc \in {"idle", "lock"} \cup InMutex
JobsSound == \A p \in Process : JobSound(p)

OneInMutex == \A c, d \in Caller : (job[c].pc \in InMutex /\ job[d].pc \in InMutex) => c = d

\* Two who refresh one session put it at risk.
RefreshAlone ==
    \A p, q \in Process, s \in Session :
        (p # q /\ Refreshing(p, s) /\ Refreshing(q, s)) => AtRisk(s)

\* Nobody else knows the session a sign-in has just opened.
FreshOpened ==
    job[Main].pc = "opened" =>
        /\ store # None => store[1] # job[Main].token[1]
        /\ \A c \in Caller : ~ Refreshing(c, job[Main].token[1])

StraysAtRisk == \A t \in stray : family[t[1]] = "open" /\ t[1] \in exposed

\* What is stored is sound, or somebody is about to replace it.
StoredSound ==
    /\ store # None => family[store[1]] # "none"
    /\ disk # None => family[disk[1]] # "none"
    /\ store # None => Sound(store) \/ \E p \in Process : Refreshing(p, store[1])

MobileInv ==
    /\ MobileTypeOK /\ JobsSound /\ OneInMutex /\ RefreshAlone /\ FreshOpened
    /\ StraysAtRisk /\ StoredSound

\* What the invariant says of a job: its row has its type, and the token it carries is
\* sound.
LEMMA JobFacts ==
    ASSUME MobileInv, NEW p \in Process
    PROVE  /\ job \in [Process -> JobRow] /\ job[p] \in JobRow
           /\ JobSound(p)
           /\ Carries(p) => /\ job[p].token \in Token /\ job[p].token[1] \in Session
                            /\ Sound(job[p].token)
           /\ \A s \in Session : Refreshing(p, s) => Carries(p) /\ job[p].token[1] = s
<1>1. job \in [Process -> JobRow] /\ job[p] \in JobRow
  BY DEF MobileInv, MobileTypeOK, JobRow
<1>2. JobSound(p)
  BY DEF MobileInv, JobsSound
<1>3. Carries(p) => job[p].token \in Token /\ job[p].token[1] \in Session /\ Sound(job[p].token)
  BY <1>2, TokenTypes DEF JobSound
<1> QED BY <1>1, <1>2, <1>3 DEF Refreshing, Carries

\* What was put down for one job leaves the others their rows.
LEMMA JobRewritten ==
    ASSUME MobileInv, NEW p \in Process, NEW x \in JobRow, job' = [job EXCEPT ![p] = x]
    PROVE  /\ job' \in [Process -> JobRow] /\ job'[p] = x
           /\ \A q \in Process \ {p} : job'[q] = job[q]
           /\ \A q \in Process \ {p}, s \in Session : Refreshing(q, s)' = Refreshing(q, s)
<1>1. job \in [Process -> JobRow]
  BY JobFacts
<1>2. /\ job' \in [Process -> JobRow] /\ job'[p] = x
      /\ \A q \in Process \ {p} : job'[q] = job[q]
  BY <1>1
<1> QED BY <1>2 DEF Refreshing

\* A job that is left alone stays sound.
LEMMA OthersSound ==
    ASSUME MobileInv, NEW q \in Process, job'[q] = job[q],
           \A t \in Token : Sound(t) => Sound(t)'
    PROVE  JobSound(q)'
<1>1. JobSound(q) /\ (Carries(q) => job[q].token \in Token /\ Sound(job[q].token))
  BY JobFacts
<1>2. Carries(q)' = Carries(q)
  BY DEF Carries
<1>3. ASSUME Carries(q)'
      PROVE  job'[q].token \in Token /\ Sound(job[q].token)'
  <2>1. PICK t \in Token : t = job[q].token /\ Sound(t)
    BY <1>1, <1>2, <1>3
  <2>2. Sound(t)'
    BY <2>1
  <2> QED BY <2>1, <2>2 DEF Sound, AtRisk
<1> QED BY <1>1, <1>3 DEF JobSound

\* What is stored stays sound with it.
LEMMA StoredStays ==
    ASSUME MobileInv, store' = store, store # None,
           \A t \in Token : Sound(t) => Sound(t)',
           \A s \in Session, q \in Process : Refreshing(q, s) =>
               AtRisk(s)' \/ \E r \in Process : Refreshing(r, s)',
           \A s \in Session : family[s] # "none" => family'[s] # "none"
    PROVE  /\ family'[store'[1]] # "none"
           /\ Sound(store)' \/ \E r \in Process : Refreshing(r, store[1])'
<1>1. store \in Token /\ store[1] \in Session
  BY TokenTypes DEF MobileInv, MobileTypeOK
<1>2. family[store[1]] # "none" /\ (Sound(store) \/ \E q \in Process : Refreshing(q, store[1]))
  BY DEF MobileInv, StoredSound
<1>3. family'[store'[1]] # "none"
  BY <1>1, <1>2
<1>4. PICK t \in Token : t = store
  BY <1>1
<1>5. CASE Sound(store)
  <2>1. Sound(t)'
    BY <1>4, <1>5
  <2> QED BY <1>3, <1>4, <2>1 DEF Sound, AtRisk
<1>6. CASE \E q \in Process : Refreshing(q, store[1])
  <2>1. PICK q \in Process : Refreshing(q, t[1])
    BY <1>4, <1>6
  <2>2. t[1] \in Session
    BY <1>4, <1>1
  <2>3. AtRisk(t[1])' \/ \E r \in Process : Refreshing(r, t[1])'
    BY <2>1, <2>2
  <2>4. CASE AtRisk(t[1])'
    BY <1>3, <1>4, <2>4 DEF Sound, AtRisk
  <2>5. CASE \E r \in Process : Refreshing(r, t[1])'
    BY <1>3, <1>4, <2>5 DEF Refreshing
  <2> QED BY <2>3, <2>4, <2>5
<1> QED BY <1>2, <1>5, <1>6

\* A job steps while the server stands still.  It carries nothing any more; what it
\* asked for is at risk now, or it has put the answer into the store.
LEMMA QuietStep ==
    ASSUME MobileInv, UNCHANGED familyVars,
           NEW p \in Process, NEW x \in JobRow, job' = [job EXCEPT ![p] = x],
           x.pc \notin {"wire", "reply", "save", "opened"},
           p \in Caller => x.pc \in {"idle", "lock"} \cup InMutex,
           p \in Caller /\ x.pc \in InMutex => job[p].pc \in InMutex \/ ~ Locked,
           access' \in Token \cup {None}, ui' \in {"out", "failed", "in"}, disk' = disk,
           \/ store' = store /\ \A s \in Session : Refreshing(p, s) => AtRisk(s)'
           \/ store' = None
           \/ store' = job[p].token /\ job[p].pc = "save",
           stray' \subseteq Token, exposed' \subseteq Session,
           \A s \in Session : AtRisk(s) => AtRisk(s)',
           \A t \in stray' : family[t[1]] = "open" /\ t[1] \in exposed'
    PROVE  MobileInv'
<1>1. /\ job' \in [Process -> JobRow] /\ job'[p] = x
      /\ \A q \in Process \ {p} : job'[q] = job[q]
      /\ \A q \in Process \ {p}, s \in Session : Refreshing(q, s)' = Refreshing(q, s)
  BY JobRewritten
<1>2. family' = family /\ current' = current
  BY DEF familyVars
<1>3. \A t \in Token : Sound(t) => Sound(t)'
  BY SoundStays
<1>4. job[p].pc = "save" => /\ job[p].token \in Token /\ job[p].token[1] \in Session
                            /\ Sound(job[p].token) /\ Refreshing(p, job[p].token[1])
  BY JobFacts DEF Carries, Refreshing
<1>5. \A s \in Session : ~ Refreshing(p, s)'
  BY <1>1 DEF Refreshing
<1>6. store' \in Token \cup {None}
  BY <1>4 DEF MobileInv, MobileTypeOK
<1>7. MobileTypeOK'
  BY <1>1, <1>2, <1>6 DEF MobileInv, MobileTypeOK, JobRow, FamilyTypeOK
<1>8. JobsSound'
  <2>1. JobSound(p)'
    BY <1>1 DEF JobSound, Carries
  <2>2. ASSUME NEW q \in Process, q # p PROVE JobSound(q)'
    BY <1>1, <1>3, <2>2, OthersSound
  <2> QED BY <2>1, <2>2 DEF JobsSound
<1>9. OneInMutex'
  BY <1>1 DEF MobileInv, OneInMutex, Locked, Process
<1>10. RefreshAlone'
  <2>1. ASSUME NEW q \in Process, NEW r \in Process, NEW s \in Session,
               q # r, Refreshing(q, s)', Refreshing(r, s)'
        PROVE  AtRisk(s)'
    <3>1. q # p /\ r # p /\ Refreshing(q, s) /\ Refreshing(r, s)
      BY <1>1, <1>5, <2>1
    <3> QED BY <2>1, <3>1 DEF MobileInv, RefreshAlone
  <2> QED BY <2>1 DEF RefreshAlone
<1>11. FreshOpened'
  <2>1. SUFFICES ASSUME job'[Main].pc = "opened"
                 PROVE  /\ store' # None => store'[1] # job'[Main].token[1]
                        /\ \A c \in Caller : ~ Refreshing(c, job[Main].token[1])'
    BY DEF FreshOpened
  <2>2. Main \in Process /\ p # Main /\ job'[Main] = job[Main]
    BY <1>1, <2>1 DEF Process
  <2>3. p \in Caller /\ \A c \in Caller : c \in Process
    BY <2>2 DEF Process
  <2>4. PICK s \in Session : s = job[Main].token[1]
    BY <2>1, <2>2, JobFacts DEF Carries
  <2>5. /\ store # None => store[1] # s
        /\ \A c \in Caller : ~ Refreshing(c, s)
    BY <2>1, <2>2, <2>4 DEF MobileInv, FreshOpened
  <2>6. \A c \in Caller : ~ Refreshing(c, s)'
    BY <1>1, <1>5, <2>3, <2>5
  <2>7. store' # None => store'[1] # s
    BY <1>4, <2>3, <2>5
  <2> QED BY <2>2, <2>4, <2>6, <2>7 DEF Refreshing
<1>12. StraysAtRisk'
  BY <1>2 DEF StraysAtRisk
<1>13. StoredSound'
  <2>1. disk' # None => family'[disk'[1]] # "none"
    BY <1>2 DEF MobileInv, StoredSound
  <2>2. CASE store' = None
    BY <2>1, <2>2 DEF StoredSound
  <2>3. CASE store' = job[p].token /\ job[p].pc = "save"
    <3>1. PICK t \in Token : t = job[p].token /\ Sound(t)
      BY <1>4, <2>3
    <3>2. Sound(t)'
      BY <1>3, <3>1
    <3> QED BY <2>1, <2>3, <3>1, <3>2 DEF StoredSound, Sound, AtRisk
  <2>4. CASE store' = store /\ \A s \in Session : Refreshing(p, s) => AtRisk(s)'
    <3>1. \A s \in Session, q \in Process : Refreshing(q, s) =>
               AtRisk(s)' \/ \E r \in Process : Refreshing(r, s)'
      BY <1>1, <2>4
    <3>2. store # None => /\ family'[store'[1]] # "none"
                          /\ Sound(store)' \/ \E r \in Process : Refreshing(r, store[1])'
      BY <1>2, <1>3, <2>4, <3>1, StoredStays
    <3> QED BY <2>1, <2>4, <3>2 DEF StoredSound
  <2> QED BY <2>2, <2>3, <2>4
<1> QED BY <1>7, <1>8, <1>9, <1>10, <1>11, <1>12, <1>13 DEF MobileInv

\* A job takes a sound token along: the stored one into a refresh, or the answer into
\* the memory.
LEMMA CarryStep ==
    ASSUME MobileInv, UNCHANGED familyVars,
           NEW p \in Process, NEW x \in JobRow, job' = [job EXCEPT ![p] = x],
           x.pc \in {"wire", "save"}, x.token \in Token, Sound(x.token)',
           p \in Caller => job[p].pc \in InMutex,
           \A s \in Session : Refreshing(p, s) => s = x.token[1],
           \A q \in Process \ {p} : Refreshing(q, x.token[1]) => AtRisk(x.token[1])',
           p \in Caller /\ job[Main].pc = "opened" => job[Main].token[1] # x.token[1],
           access' \in Token \cup {None}, ui' \in {"out", "failed", "in"},
           store' = store, disk' = disk, stray' = stray,
           exposed' \subseteq Session, exposed \subseteq exposed',
           \A s \in Session : AtRisk(s) => AtRisk(s)'
    PROVE  MobileInv'
<1>1. /\ job' \in [Process -> JobRow] /\ job'[p] = x
      /\ \A q \in Process \ {p} : job'[q] = job[q]
      /\ \A q \in Process \ {p}, s \in Session : Refreshing(q, s)' = Refreshing(q, s)
  BY JobRewritten
<1>2. family' = family /\ current' = current
  BY DEF familyVars
<1>3. \A t \in Token : Sound(t) => Sound(t)'
  BY SoundStays
<1>4. PICK t \in Token : t = x.token /\ t[1] \in Session
  BY TokenTypes
<1>5. Sound(t)' /\ \A s \in Session : Refreshing(p, s)' <=> s = t[1]
  BY <1>1, <1>4 DEF Refreshing
<1>6. \A q \in Process \ {p} : Refreshing(q, t[1]) => AtRisk(t[1])'
  BY <1>4
<1>7. MobileTypeOK'
  BY <1>1, <1>2 DEF MobileInv, MobileTypeOK, JobRow, FamilyTypeOK
<1>8. JobsSound'
  <2>1. JobSound(p)'
    BY <1>1, <1>4, <1>5 DEF JobSound, Carries, InMutex
  <2>2. ASSUME NEW q \in Process, q # p PROVE JobSound(q)'
    BY <1>1, <1>3, <2>2, OthersSound
  <2> QED BY <2>1, <2>2 DEF JobsSound
<1>9. OneInMutex'
  BY <1>1 DEF MobileInv, OneInMutex, Process
<1>10. RefreshAlone'
  <2>1. ASSUME NEW q \in Process, NEW r \in Process, NEW s \in Session,
               q # r, Refreshing(q, s)', Refreshing(r, s)'
        PROVE  AtRisk(s)'
    <3>1. CASE q # p /\ r # p
      <4>1. Refreshing(q, s) /\ Refreshing(r, s)
        BY <1>1, <2>1, <3>1
      <4> QED BY <2>1, <4>1 DEF MobileInv, RefreshAlone
    <3>2. CASE q = p
      BY <1>1, <1>5, <1>6, <2>1, <3>2
    <3>3. CASE r = p
      BY <1>1, <1>5, <1>6, <2>1, <3>3
    <3> QED BY <3>1, <3>2, <3>3
  <2> QED BY <2>1 DEF RefreshAlone
<1>11. FreshOpened'
  <2>1. SUFFICES ASSUME job'[Main].pc = "opened"
                 PROVE  /\ store' # None => store'[1] # job'[Main].token[1]
                        /\ \A c \in Caller : ~ Refreshing(c, job[Main].token[1])'
    BY DEF FreshOpened
  <2>2. Main \in Process /\ p # Main /\ job'[Main] = job[Main]
    BY <1>1, <2>1 DEF Process
  <2>3. p \in Caller /\ \A c \in Caller : c \in Process
    BY <2>2 DEF Process
  <2>4. PICK s \in Session : s = job[Main].token[1]
    BY <2>1, <2>2, JobFacts DEF Carries
  <2>5. /\ store # None => store[1] # s
        /\ \A c \in Caller : ~ Refreshing(c, s)
    BY <2>1, <2>2, <2>4 DEF MobileInv, FreshOpened
  <2>6. s # t[1]
    BY <1>4, <2>1, <2>2, <2>3, <2>4
  <2>7. \A c \in Caller : ~ Refreshing(c, s)'
    BY <1>1, <1>5, <2>3, <2>5, <2>6
  <2> QED BY <2>2, <2>4, <2>5, <2>7 DEF Refreshing
<1>12. StraysAtRisk'
  BY <1>2 DEF MobileInv, StraysAtRisk
<1>13. StoredSound'
  <2>1. disk' # None => family'[disk'[1]] # "none"
    BY <1>2 DEF MobileInv, StoredSound
  <2>2. \A s \in Session, q \in Process : Refreshing(q, s) =>
             AtRisk(s)' \/ \E r \in Process : Refreshing(r, s)'
    BY <1>1, <1>4, <1>5
  <2>3. store # None => /\ family'[store'[1]] # "none"
                        /\ Sound(store)' \/ \E r \in Process : Refreshing(r, store[1])'
    BY <1>2, <1>3, <2>2, StoredStays
  <2> QED BY <2>1, <2>3 DEF StoredSound
<1> QED BY <1>7, <1>8, <1>9, <1>10, <1>11, <1>12, <1>13 DEF MobileInv

\* A refresh is sent with the stored token: alone, or at the session's risk.
LEMMA SendStep ==
    ASSUME MobileInv, NEW p \in Process, job[p].pc \in {"load", "launch"},
           p \in Caller => job[p].pc = "load", store # None, SendRefresh(p),
           UNCHANGED <<familyVars, access, store, disk, ui, stray>>
    PROVE  MobileInv'
<1>0. PICK x : x = [pc |-> "wire", token |-> store]
  OBVIOUS
<1>1. store \in Token /\ store[1] \in Session
  BY TokenTypes DEF MobileInv, MobileTypeOK
<1>2. x \in JobRow /\ job' = [job EXCEPT ![p] = x] /\ x.pc = "wire" /\ x.token = store
  BY <1>0, <1>1 DEF JobRow, SendRefresh, InMutex
<1>3. family' = family /\ current' = current
  BY DEF familyVars
<1>4. exposed' \subseteq Session /\ exposed \subseteq exposed'
  BY DEF MobileInv, MobileTypeOK, SendRefresh
<1>5. \A s \in Session : AtRisk(s) => AtRisk(s)'
  BY <1>3, <1>4 DEF AtRisk
<1>6. PICK t \in Token : t = store /\ t[1] \in Session
  BY <1>1
<1>7. ASSUME NEW q \in Process \ {p}, Refreshing(q, t[1])
      PROVE  AtRisk(t[1])'
  <2>1. CASE Main \in {p, q}
    BY <1>3, <1>6, <1>7, <2>1 DEF SendRefresh, AtRisk
  <2>2. CASE Main \notin {p, q}
    <3>1. p \in Caller /\ q \in Caller /\ job[p].pc \in InMutex /\ job[q].pc \in InMutex
      BY <1>7, <2>2 DEF Process, Refreshing, InMutex
    <3> QED BY <3>1 DEF MobileInv, OneInMutex
  <2> QED BY <2>1, <2>2
<1>8. Sound(t)'
  <2>1. family[t[1]] # "none" /\ (Sound(t) \/ \E q \in Process : Refreshing(q, t[1]))
    BY <1>6 DEF MobileInv, StoredSound
  <2>2. CASE Sound(t)
    BY <1>5, <2>2, SoundStays
  <2>3. CASE \E q \in Process : Refreshing(q, t[1])
    <3>1. ~ Refreshing(p, t[1])
      BY DEF Refreshing
    <3>2. AtRisk(t[1])'
      BY <1>7, <2>3, <3>1
    <3> QED BY <1>3, <2>1, <3>2 DEF Sound
  <2> QED BY <2>1, <2>2, <2>3
<1>9. Sound(x.token)' /\ \A q \in Process \ {p} : Refreshing(q, x.token[1]) => AtRisk(x.token[1])'
  BY <1>2, <1>3, <1>6, <1>7, <1>8 DEF Sound, AtRisk
<1>10. job[Main].pc = "opened" => job[Main].token[1] # x.token[1]
  BY <1>2 DEF MobileInv, FreshOpened
<1>11. p \in Caller => job[p].pc \in InMutex
  BY DEF InMutex
<1>12. \A s \in Session : Refreshing(p, s) => s = x.token[1]
  BY DEF Refreshing
<1>13. /\ access' \in Token \cup {None} /\ ui' \in {"out", "failed", "in"}
       /\ store' = store /\ disk' = disk /\ stray' = stray
       /\ UNCHANGED familyVars
  BY DEF MobileInv, MobileTypeOK
<1> QED BY <1>1, <1>2, <1>4, <1>5, <1>9, <1>10, <1>11, <1>12, <1>13, CarryStep

\* The answer of a refresh or of a sign-in reaches the memory.
LEMMA ReceiveStep ==
    ASSUME MobileInv, NEW p \in Process, Receive(p)
    PROVE  MobileInv'
<1>1. job \in [Process -> JobRow] /\ job[p] \in JobRow /\ JobSound(p)
  BY JobFacts
<1>2. PICK t \in Token : t = job[p].token /\ t[1] \in Session /\ Sound(t)
  BY JobFacts DEF Receive, Carries
<1>3. PICK x : x = [job[p] EXCEPT !.pc = "save"]
  OBVIOUS
<1>4. x \in JobRow /\ x.pc = "save" /\ x.token = t
  BY <1>1, <1>2, <1>3 DEF JobRow, InMutex
<1>5. job' = [job EXCEPT ![p] = x]
  BY <1>1, <1>3 DEF Receive, Goto
<1>6. family' = family /\ current' = current /\ exposed' = exposed
  BY DEF Receive, familyVars
<1>7. \A s \in Session : AtRisk(s)' = AtRisk(s)
  BY <1>6 DEF AtRisk
<1>8. Sound(t)'
  BY <1>2, <1>6 DEF Sound, AtRisk
<1>9. Sound(x.token)'
  BY <1>4, <1>8 DEF Sound, AtRisk
<1>10. p \in Caller => job[p].pc = "reply"
  BY <1>1 DEF Receive, JobSound, InMutex
<1>11. \A s \in Session : Refreshing(p, s) => s = x.token[1]
  BY <1>2, <1>4 DEF Refreshing
<1>12. ASSUME NEW q \in Process \ {p}, Refreshing(q, t[1])
       PROVE  AtRisk(t[1])'
  <2>1. CASE job[p].pc = "reply"
    <3>1. Refreshing(p, t[1])
      BY <1>2, <2>1 DEF Refreshing
    <3> QED BY <1>2, <1>7, <1>12, <3>1 DEF MobileInv, RefreshAlone
  <2>2. CASE job[p].pc = "opened"
    <3>1. p = Main /\ q \in Caller
      BY <1>10, <1>12, <2>2 DEF Process
    <3> QED BY <1>2, <1>12, <2>2, <3>1 DEF MobileInv, FreshOpened
  <2> QED BY <2>1, <2>2 DEF Receive
<1>13. \A q \in Process \ {p} : Refreshing(q, x.token[1]) => AtRisk(x.token[1])'
  BY <1>4, <1>12 DEF AtRisk
<1>14. ASSUME p \in Caller, job[Main].pc = "opened"
       PROVE  job[Main].token[1] # x.token[1]
  <2>1. PICK s \in Session : s = job[Main].token[1]
    BY <1>14, JobFacts DEF Carries, Process
  <2>2. ~ Refreshing(p, s)
    BY <1>14, <2>1 DEF MobileInv, FreshOpened
  <2> QED BY <1>2, <1>4, <1>10, <1>14, <2>1, <2>2 DEF Refreshing
<1>15. p \in Caller => job[p].pc \in InMutex
  BY <1>10 DEF InMutex
<1>16. /\ access' \in Token \cup {None} /\ ui' \in {"out", "failed", "in"}
       /\ store' = store /\ disk' = disk /\ stray' = stray
       /\ exposed' \subseteq Session /\ exposed \subseteq exposed'
       /\ UNCHANGED familyVars
  BY <1>2 DEF MobileInv, MobileTypeOK, Receive
<1> QED BY <1>4, <1>5, <1>7, <1>9, <1>11, <1>13, <1>14, <1>15, <1>16, CarryStep

\* A new session: a position in nobody's hands, so nothing else is touched.
LEMMA OpenStep ==
    ASSUME MobileInv, NEW s \in Session, OpenSession(s)
    PROVE  MobileInv'
<1>1. Main \in Process /\ job[Main].pc = "signin" /\ family[s] = "none"
  BY DEF OpenSession, Open, Process
<1>2. PICK t : t = <<s, 1>>
  OBVIOUS
<1>3. t \in Token /\ t[1] = s /\ t[2] = 1
  BY <1>2, ChainAssumption DEF Token
<1>4. PICK x : x = [pc |-> "opened", token |-> t]
  OBVIOUS
<1>5. x \in JobRow /\ job' = [job EXCEPT ![Main] = x] /\ x.pc = "opened" /\ x.token = t
  BY <1>2, <1>3, <1>4 DEF JobRow, OpenSession
<1>6. /\ job' \in [Process -> JobRow] /\ job'[Main] = x
      /\ \A q \in Process \ {Main} : job'[q] = job[q]
      /\ \A q \in Process \ {Main}, u \in Session : Refreshing(q, u)' = Refreshing(q, u)
  BY <1>1, <1>5, JobRewritten
<1>7. /\ FamilyTypeOK' /\ family'[s] = "open" /\ current'[s] = 1
      /\ \A u \in Session \ {s} : family'[u] = family[u] /\ current'[u] = current[u]
  BY DEF MobileInv, MobileTypeOK, FamilyTypeOK, OpenSession, Open
<1>8. access' = access /\ store' = store /\ disk' = disk /\ ui' = ui /\ stray' = stray
      /\ exposed' = exposed
  BY DEF OpenSession, client
<1>9. \A u \in Session : family[u] # "none" => u # s /\ (AtRisk(u) => AtRisk(u)')
  BY <1>1, <1>7, <1>8 DEF AtRisk
<1>10. ASSUME NEW u \in Token, Sound(u)
       PROVE  u[1] # s /\ Sound(u)'
  BY <1>7, <1>9, <1>10, TokenTypes DEF Sound
<1>11. ASSUME NEW q \in Process, NEW u \in Session, Refreshing(q, u)
       PROVE  u # s /\ q # Main /\ Refreshing(q, u)'
  <2>1. Carries(q) /\ job[q].token \in Token /\ Sound(job[q].token) /\ job[q].token[1] = u
    BY <1>11, JobFacts
  <2>2. u # s
    BY <1>10, <2>1
  <2>3. q # Main
    BY <1>1, <1>11 DEF Refreshing
  <2> QED BY <1>6, <1>11, <2>2, <2>3
<1>12. \A u \in Session : ~ Refreshing(Main, u)'
  BY <1>5, <1>6 DEF Refreshing
<1>13. MobileTypeOK'
  BY <1>6, <1>7, <1>8 DEF MobileInv, MobileTypeOK, JobRow
<1>14. JobsSound'
  <2>1. JobSound(Main)'
    <3>1. Sound(t)'
      BY <1>3, <1>7 DEF Sound
    <3>2. Main \notin Caller
      BY MobileAssumption
    <3> QED BY <1>3, <1>5, <1>6, <3>1, <3>2 DEF JobSound, Carries, Sound, AtRisk
  <2>2. ASSUME NEW q \in Process, q # Main PROVE JobSound(q)'
    BY <1>6, <1>10, <2>2, OthersSound
  <2> QED BY <2>1, <2>2 DEF JobsSound
<1>15. OneInMutex'
  BY <1>6, MobileAssumption DEF MobileInv, OneInMutex, Process
<1>16. RefreshAlone'
  <2>1. ASSUME NEW q \in Process, NEW r \in Process, NEW u \in Session,
               q # r, Refreshing(q, u)', Refreshing(r, u)'
        PROVE  AtRisk(u)'
    <3>1. Refreshing(q, u) /\ Refreshing(r, u)
      BY <1>6, <1>12, <2>1
    <3>2. AtRisk(u) /\ u # s
      BY <1>11, <2>1, <3>1 DEF MobileInv, RefreshAlone
    <3> QED BY <1>7, <1>8, <3>2 DEF AtRisk
  <2> QED BY <2>1 DEF RefreshAlone
<1>17. FreshOpened'
  <2>1. ASSUME store # None PROVE store[1] # s
    BY <1>1, <2>1 DEF MobileInv, StoredSound
  <2>2. \A c \in Caller : c \in Process \ {Main}
    BY MobileAssumption DEF Process
  <2>3. \A c \in Caller : ~ Refreshing(c, s)'
    BY <1>6, <1>11, <2>2
  <2> QED BY <1>3, <1>5, <1>6, <1>8, <2>1, <2>3 DEF FreshOpened, Refreshing
<1>18. StraysAtRisk'
  BY <1>1, <1>7, <1>8, TokenTypes DEF MobileInv, MobileTypeOK, StraysAtRisk
<1>19. StoredSound'
  <2>1. disk' # None => family'[disk'[1]] # "none"
    BY <1>7, <1>8, TokenTypes DEF MobileInv, MobileTypeOK, StoredSound
  <2>2. store # None => /\ family'[store'[1]] # "none"
                        /\ Sound(store)' \/ \E r \in Process : Refreshing(r, store[1])'
    BY <1>7, <1>8, <1>10, <1>11, StoredStays
  <2> QED BY <1>8, <2>1, <2>2 DEF StoredSound
<1> QED BY <1>13, <1>14, <1>15, <1>16, <1>17, <1>18, <1>19 DEF MobileInv

\* The server acts on one session: it trades the token of a refresh and answers with
\* the next, or it ends the session.  Nobody sound loses, because nobody else who is
\* not at risk has that token.
LEMMA ServerStep ==
    ASSUME MobileInv, FamilyTypeOK', UNCHANGED client,
           job' \in [Process -> JobRow],
           \A q \in Process : job'[q] # job[q] =>
              /\ job[q].pc = "wire"
              /\ \/ job'[q].pc = "rejected" /\ family'[job[q].token[1]] # "open"
                 \/ /\ job'[q].pc = "reply" /\ job'[q].token \in Token
                    /\ job'[q].token[1] = job[q].token[1]
                    /\ job'[q].token[2] = current'[job[q].token[1]],
           \A s \in Session : family[s] # "none" => family'[s] # "none",
           \A s \in Session : family'[s] = "open" => family[s] = "open",
           \A s \in Session : current'[s] # current[s] =>
              \/ AtRisk(s)
              \/ \E q \in Process : Refreshing(q, s) /\ job[q].pc = "wire" /\ job'[q].pc = "reply",
           stray' \subseteq {t \in stray : family'[t[1]] = "open"},
           exposed' = {s \in exposed : family'[s] = "open"}
    PROVE  MobileInv'
<1>1. access' = access /\ store' = store /\ disk' = disk /\ ui' = ui
  BY DEF client
<1>2. \A s \in Session : AtRisk(s) => AtRisk(s)'
  BY DEF AtRisk
<1>3. \A q \in Process, s \in Session : Refreshing(q, s)' => Refreshing(q, s)
  BY DEF Refreshing
<1>4. \A q \in Process, s \in Session : Refreshing(q, s) => Refreshing(q, s)' \/ AtRisk(s)'
  BY DEF Refreshing, AtRisk
<1>5. \A q \in Process : job[q].pc # "wire" => job'[q] = job[q]
  OBVIOUS
<1>6. ASSUME NEW t \in Token, Sound(t), current'[t[1]] = current[t[1]]
      PROVE  Sound(t)'
  BY <1>2, <1>6, TokenTypes DEF Sound
<1>7. MobileTypeOK'
  BY <1>1 DEF MobileInv, MobileTypeOK, JobRow
<1>8. JobsSound'
  <2>1. ASSUME NEW q \in Process, job'[q] = job[q] PROVE JobSound(q)'
    <3>1. JobSound(q)
      BY JobFacts
    <3>2. CASE Carries(q)
      <4>1. PICK t \in Token : t = job[q].token /\ t[1] \in Session /\ Sound(t)
        BY <3>2, JobFacts
      <4>2. CASE current'[t[1]] = current[t[1]]
        <5>1. Sound(t)'
          BY <1>6, <4>1, <4>2
        <5> QED BY <2>1, <3>1, <4>1, <5>1 DEF JobSound, Sound, AtRisk
      <4>3. CASE AtRisk(t[1])
        <5>1. Sound(t)'
          BY <1>2, <4>1, <4>3 DEF Sound
        <5> QED BY <2>1, <3>1, <4>1, <5>1 DEF JobSound, Sound, AtRisk
      <4>4. CASE /\ ~ AtRisk(t[1])
                 /\ \E r \in Process : Refreshing(r, t[1]) /\ job[r].pc = "wire"
                                       /\ job'[r].pc = "reply"
        <5>1. PICK r \in Process : Refreshing(r, t[1]) /\ job[r].pc = "wire" /\ r # q
          BY <2>1, <4>4
        <5>2. CASE Refreshing(q, t[1])
          BY <4>1, <4>4, <5>1, <5>2 DEF MobileInv, RefreshAlone
        <5>3. CASE job[q].pc = "opened"
          <6>1. q = Main /\ r \in Caller
            BY <3>1, <5>1, <5>3 DEF JobSound, InMutex, Process
          <6> QED BY <4>1, <5>1, <5>3, <6>1 DEF MobileInv, FreshOpened
        <5> QED BY <3>2, <4>1, <5>2, <5>3 DEF Carries, Refreshing
      <4> QED BY <4>1, <4>2, <4>3, <4>4
    <3>3. CASE ~ Carries(q)
      BY <2>1, <3>1, <3>3 DEF JobSound, Carries
    <3> QED BY <3>2, <3>3
  <2>2. ASSUME NEW q \in Process, job'[q] # job[q] PROVE JobSound(q)'
    <3>1. job[q].pc = "wire" /\ job[q].token[1] \in Session
          /\ family[job[q].token[1]] # "none"
      BY <2>2, JobFacts DEF Carries, Sound
    <3>2. family'[job[q].token[1]] # "none"
      BY <3>1
    <3>3. CASE job'[q].pc = "rejected"
      BY <3>3 DEF JobSound, Carries, InMutex
    <3>4. CASE job'[q].pc = "reply"
      <4>1. PICK t \in Token : t = job'[q].token
        BY <2>2, <3>4
      <4>2. family'[t[1]] # "none" /\ t[2] = current'[t[1]]
        BY <2>2, <3>2, <3>4, <4>1
      <4> QED BY <3>4, <4>1, <4>2 DEF JobSound, Carries, Sound, InMutex
    <3> QED BY <2>2, <3>3, <3>4
  <2> QED BY <2>1, <2>2 DEF JobsSound
<1>9. OneInMutex'
  <2>1. \A c \in Caller : job'[c].pc \in InMutex => job[c].pc \in InMutex
    BY DEF InMutex, Process
  <2> QED BY <2>1 DEF MobileInv, OneInMutex
<1>10. RefreshAlone'
  BY <1>2, <1>3 DEF MobileInv, RefreshAlone
<1>11. FreshOpened'
  <2>1. SUFFICES ASSUME job'[Main].pc = "opened"
                 PROVE  /\ store # None => store[1] # job'[Main].token[1]
                        /\ \A c \in Caller : ~ Refreshing(c, job[Main].token[1])'
    BY <1>1 DEF FreshOpened
  <2>2. Main \in Process /\ job'[Main] = job[Main] /\ \A c \in Caller : c \in Process
    BY <2>1 DEF Process
  <2>3. PICK s \in Session : s = job[Main].token[1]
    BY <2>1, <2>2, JobFacts DEF Carries
  <2>4. /\ store # None => store[1] # s
        /\ \A c \in Caller : ~ Refreshing(c, s)
    BY <2>1, <2>2, <2>3 DEF MobileInv, FreshOpened
  <2>5. \A c \in Caller : ~ Refreshing(c, s)'
    BY <1>3, <2>2, <2>4
  <2> QED BY <2>2, <2>3, <2>4, <2>5 DEF Refreshing
<1>12. StraysAtRisk'
  BY TokenTypes DEF MobileInv, MobileTypeOK, StraysAtRisk
<1>13. StoredSound'
  <2>1. disk' # None => family'[disk'[1]] # "none"
    BY <1>1, TokenTypes DEF MobileInv, MobileTypeOK, StoredSound
  <2>2. ASSUME store # None
        PROVE  /\ family'[store'[1]] # "none"
               /\ Sound(store)' \/ \E r \in Process : Refreshing(r, store[1])'
    <3>1. PICK t \in Token : t = store /\ t[1] \in Session
      BY <2>2, TokenTypes DEF MobileInv, MobileTypeOK
    <3>2. family[t[1]] # "none" /\ (Sound(t) \/ \E q \in Process : Refreshing(q, t[1]))
      BY <2>2, <3>1 DEF MobileInv, StoredSound
    <3>3. family'[t[1]] # "none"
      BY <3>1, <3>2
    <3>4. Sound(t)' \/ \E r \in Process : Refreshing(r, t[1])'
      <4>1. CASE AtRisk(t[1])'
        BY <3>3, <4>1 DEF Sound
      <4>2. CASE \E q \in Process : Refreshing(q, t[1])
        BY <1>4, <3>1, <4>1, <4>2
      <4>3. CASE Sound(t) /\ current'[t[1]] = current[t[1]]
        BY <1>6, <4>3
      <4>4. CASE current'[t[1]] # current[t[1]]
        BY <1>2, <3>1, <4>1, <4>2, <4>4
      <4> QED BY <3>2, <4>2, <4>3, <4>4
    <3> QED BY <1>1, <3>1, <3>3, <3>4 DEF Sound, AtRisk, Refreshing
  <2> QED BY <1>1, <2>1, <2>2 DEF StoredSound
<1> QED BY <1>7, <1>8, <1>9, <1>10, <1>11, <1>12, <1>13 DEF MobileInv

\* Requests that are given up put their sessions at risk, and may still arrive.
LEMMA AbandonedStep ==
    ASSUME MobileInv, UNCHANGED familyVars, NEW P \in SUBSET Process, NEW lost,
           Abandoned(P, lost)
    PROVE  /\ stray' \subseteq Token /\ exposed' \subseteq Session
           /\ \A s \in Session : AtRisk(s) => AtRisk(s)'
           /\ \A s \in Session, p \in P : Refreshing(p, s) => AtRisk(s)'
           /\ \A s \in Session : s = lost[1] => AtRisk(s)'
           /\ \A t \in stray' : family[t[1]] = "open" /\ t[1] \in exposed'
<1>1. family' = family
  BY DEF familyVars
<1>2. exposed' = {s \in exposed \cup {s \in Session : s = lost[1] \/ \E p \in P : Refreshing(p, s)} :
                    family'[s] = "open"}
  BY DEF Abandoned, Kept, Expose
<1>3. \A t : t \in stray' <=> /\ t \in stray \/ \E p \in P : job[p].pc = "wire" /\ t = job[p].token
                              /\ family'[t[1]] = "open"
  BY DEF Abandoned, Kept
<1>4. ASSUME NEW p \in P, job[p].pc = "wire"
      PROVE  /\ job[p].token \in Token /\ job[p].token[1] \in Session
             /\ Refreshing(p, job[p].token[1])
  BY <1>4, JobFacts DEF Carries, Refreshing
<1>5. stray' \subseteq Token
  BY <1>3, <1>4 DEF MobileInv, MobileTypeOK
<1>6. ASSUME NEW t \in stray'
      PROVE  family[t[1]] = "open" /\ t[1] \in exposed'
  <2>1. CASE t \in stray
    BY <1>1, <1>2, <1>3, <2>1 DEF MobileInv, StraysAtRisk
  <2>2. CASE \E p \in P : job[p].pc = "wire" /\ t = job[p].token
    BY <1>1, <1>2, <1>3, <1>4, <2>2
  <2> QED BY <1>3, <2>1, <2>2
<1>7. exposed' \subseteq Session
  BY <1>2 DEF MobileInv, MobileTypeOK
<1>8. /\ \A s \in Session : AtRisk(s) => AtRisk(s)'
      /\ \A s \in Session, p \in P : Refreshing(p, s) => AtRisk(s)'
      /\ \A s \in Session : s = lost[1] => AtRisk(s)'
  BY <1>1, <1>2 DEF AtRisk
<1> QED BY <1>5, <1>6, <1>7, <1>8

\* The process dies: what the disk kept is what is stored now, and it is at risk unless
\* it was the last that was written.
LEMMA KillStep ==
    ASSUME MobileInv, Kill
    PROVE  MobileInv'
<1> DEFINE lost == IF disk # store /\ disk # None THEN disk ELSE <<None>>
<1>1. UNCHANGED familyVars /\ family' = family /\ current' = current /\ Abandoned(Process, lost)
      /\ access' = None /\ store' = disk /\ disk' = disk /\ ui' = "out"
  BY DEF Kill, familyVars
<1>2. /\ stray' \subseteq Token /\ exposed' \subseteq Session
      /\ \A s \in Session : AtRisk(s) => AtRisk(s)'
      /\ \A s \in Session, p \in Process : Refreshing(p, s) => AtRisk(s)'
      /\ \A s \in Session : s = lost[1] => AtRisk(s)'
      /\ \A t \in stray' : family[t[1]] = "open" /\ t[1] \in exposed'
  <2> HIDE DEF lost
  <2> QED BY <1>1, AbandonedStep
<1>3. \A p \in Process : job'[p] \in JobRow /\ job'[p].pc \in {"launch", "idle"}
                         /\ (p # Main => job'[p].pc = "idle")
  BY DEF Kill, Resting, JobRow, InMutex
<1>4. job' \in [Process -> JobRow]
  BY <1>3 DEF Kill
<1>5. MobileTypeOK'
  BY <1>1, <1>2, <1>4 DEF MobileInv, MobileTypeOK, FamilyTypeOK, JobRow
<1>6. JobsSound' /\ OneInMutex' /\ RefreshAlone' /\ FreshOpened'
  BY <1>3, MobileAssumption
     DEF JobsSound, JobSound, Carries, OneInMutex, RefreshAlone, FreshOpened, Refreshing, InMutex, Process
<1>7. StraysAtRisk'
  BY <1>1, <1>2 DEF StraysAtRisk
<1>8. StoredSound'
  <2>1. ASSUME disk # None
        PROVE  family'[disk[1]] # "none" /\ Sound(disk)'
    <3>1. PICK t \in Token : t = disk /\ t[1] \in Session
      BY <2>1, TokenTypes DEF MobileInv, MobileTypeOK
    <3>2. family[t[1]] # "none"
      BY <2>1, <3>1 DEF MobileInv, StoredSound
    <3>3. CASE disk # store
      <4>1. AtRisk(t[1])'
        BY <1>2, <2>1, <3>1, <3>3
      <4> QED BY <1>1, <3>1, <3>2, <4>1 DEF Sound, AtRisk
    <3>4. CASE disk = store
      <4>1. Sound(t) \/ \E p \in Process : Refreshing(p, t[1])
        BY <2>1, <3>1, <3>4 DEF MobileInv, StoredSound
      <4>2. Sound(t)'
        BY <1>1, <1>2, <3>1, <3>2, <4>1 DEF Sound
      <4> QED BY <1>1, <3>1, <3>2, <4>2 DEF Sound, AtRisk
    <3> QED BY <3>3, <3>4
  <2> QED BY <1>1, <2>1 DEF StoredSound, Sound, AtRisk
<1> QED BY <1>5, <1>6, <1>7, <1>8 DEF MobileInv

\* The disk catches up with what is stored.
LEMMA FlushStep ==
    ASSUME MobileInv, Flush
    PROVE  MobileInv'
<1>1. /\ family' = family /\ current' = current /\ access' = access /\ store' = store
      /\ ui' = ui /\ job' = job /\ stray' = stray /\ exposed' = exposed /\ disk' = store
  BY DEF Flush, familyVars
<1>2. MobileTypeOK'
  BY <1>1 DEF MobileInv, MobileTypeOK, FamilyTypeOK
<1>3. JobsSound' /\ OneInMutex' /\ RefreshAlone' /\ FreshOpened' /\ StraysAtRisk'
  BY <1>1 DEF MobileInv, JobsSound, JobSound, Carries, OneInMutex, RefreshAlone, FreshOpened,
              StraysAtRisk, Refreshing, Sound, AtRisk
<1>4. StoredSound'
  BY <1>1 DEF MobileInv, StoredSound, Refreshing, Sound, AtRisk
<1> QED BY <1>2, <1>3, <1>4 DEF MobileInv

\* A refresh that reaches the server, from whoever waits for the answer.
LEMMA ServeStep ==
    ASSUME MobileInv, NEW p \in Process, Serve(p)
    PROVE  MobileInv'
<1>1. PICK t \in Token : t = job[p].token /\ t[1] \in Session /\ Sound(t)
  BY JobFacts DEF Serve, Carries
<1>2. job[p].pc = "wire" /\ Refreshing(p, t[1]) /\ Trade(t) /\ Kept(stray, {})
      /\ UNCHANGED client
  BY <1>1 DEF Serve, Refreshing
<1>3. t[2] \in Nat /\ (t[2] < MaxChain => <<t[1], t[2] + 1>> \in Token)
  BY TokenTypes
<1>4. stray' \subseteq {u \in stray : family'[u[1]] = "open"}
      /\ exposed' = {s \in exposed : family'[s] = "open"}
  BY <1>2 DEF Kept, Expose
<1>5. job \in [Process -> JobRow] /\ FamilyTypeOK
  BY JobFacts DEF MobileInv, MobileTypeOK
<1>6. CASE t[2] = current[t[1]] /\ t[2] < MaxChain /\ Rotate(t[1])
  <2>1. PICK x : x = [pc |-> "reply", token |-> <<t[1], t[2] + 1>>]
    OBVIOUS
  <2>2. x \in JobRow /\ x.pc = "reply" /\ x.token \in Token /\ x.token[1] = t[1]
        /\ x.token[2] = t[2] + 1
    BY <1>3, <1>6, <2>1 DEF JobRow, InMutex
  <2>3. family' = family /\ current'[t[1]] = t[2] + 1 /\ FamilyTypeOK'
        /\ \A s \in Session \ {t[1]} : current'[s] = current[s]
    BY <1>1, <1>3, <1>5, <1>6 DEF Rotate, FamilyTypeOK
  <2>4. current' # current
    BY <1>1, <1>3, <1>5, <1>6, <2>3 DEF FamilyTypeOK
  <2>5. job' = [job EXCEPT ![p] = x]
    BY <1>1, <2>1, <2>4 DEF Serve
  <2>6. job' \in [Process -> JobRow] /\ job'[p] = x /\ \A q \in Process \ {p} : job'[q] = job[q]
    BY <2>2, <2>5, JobRewritten
  <2> QED BY <1>1, <1>2, <1>4, <2>2, <2>3, <2>6, ServerStep
<1>7. CASE Revoke({t[1]})
  <2>1. PICK x : x = [pc |-> "rejected", token |-> None]
    OBVIOUS
  <2>2. x \in JobRow /\ x.pc = "rejected"
    BY <2>1 DEF JobRow, InMutex
  <2>3. /\ current' = current /\ FamilyTypeOK' /\ family'[t[1]] = "revoked"
        /\ \A s \in Session \ {t[1]} : family'[s] = family[s]
    BY <1>1, <1>5, <1>7 DEF Revoke, FamilyTypeOK
  <2>4. job' = [job EXCEPT ![p] = x]
    BY <2>1, <2>3 DEF Serve
  <2>5. job' \in [Process -> JobRow] /\ job'[p] = x /\ \A q \in Process \ {p} : job'[q] = job[q]
    BY <2>2, <2>4, JobRewritten
  <2> QED BY <1>1, <1>2, <1>4, <2>2, <2>3, <2>5, ServerStep
<1> QED BY <1>2, <1>6, <1>7 DEF Trade

\* A request given up arrives late: its session is at risk already.
LEMMA ServeStrayStep ==
    ASSUME MobileInv, NEW t \in Token, ServeStray(t)
    PROVE  MobileInv'
<1>1. t \in stray /\ Trade(t) /\ Kept(stray \ {t}, {}) /\ UNCHANGED client /\ job' = job
  BY DEF ServeStray
<1>2. stray' \subseteq {u \in stray : family'[u[1]] = "open"}
      /\ exposed' = {s \in exposed : family'[s] = "open"}
  BY <1>1 DEF Kept, Expose
<1>3. t[1] \in Session /\ t[2] \in Nat /\ AtRisk(t[1])
  BY <1>1, TokenTypes DEF MobileInv, StraysAtRisk, AtRisk
<1>4. job' \in [Process -> JobRow] /\ FamilyTypeOK
  BY <1>1 DEF MobileInv, MobileTypeOK, JobRow
<1>5. CASE t[2] = current[t[1]] /\ Rotate(t[1])
  <2>1. family' = family /\ FamilyTypeOK'
        /\ \A s \in Session \ {t[1]} : current'[s] = current[s]
    BY <1>3, <1>4, <1>5 DEF Rotate, FamilyTypeOK
  <2> QED BY <1>1, <1>2, <1>3, <1>4, <2>1, ServerStep
<1>6. CASE Revoke({t[1]})
  <2>1. /\ current' = current /\ FamilyTypeOK' /\ family'[t[1]] = "revoked"
        /\ \A s \in Session \ {t[1]} : family'[s] = family[s]
    BY <1>3, <1>4, <1>6 DEF Revoke, FamilyTypeOK
  <2> QED BY <1>1, <1>2, <1>3, <1>4, <2>1, ServerStep
<1> QED BY <1>1, <1>5, <1>6 DEF Trade

\* A session is ended from elsewhere: what is over is at risk of nothing.
LEMMA RevokeElsewhereStep ==
    ASSUME MobileInv, NEW s \in Session, RevokeElsewhere(s)
    PROVE  MobileInv'
<1>1. Kept(stray, {}) /\ UNCHANGED client /\ job' = job /\ Revoke({s})
  BY DEF RevokeElsewhere
<1>2. stray' \subseteq {u \in stray : family'[u[1]] = "open"}
      /\ exposed' = {u \in exposed : family'[u] = "open"}
  BY <1>1 DEF Kept, Expose
<1>3. job' \in [Process -> JobRow] /\ FamilyTypeOK
  BY <1>1 DEF MobileInv, MobileTypeOK, JobRow
<1>4. /\ current' = current /\ FamilyTypeOK' /\ family'[s] = "revoked"
      /\ \A u \in Session \ {s} : family'[u] = family[u]
  BY <1>1, <1>3 DEF Revoke, FamilyTypeOK
<1> QED BY <1>1, <1>2, <1>3, <1>4, ServerStep

\* A step of one job that concerns neither the server nor what went astray.
LEMMA PlainStep ==
    ASSUME MobileInv, UNCHANGED <<familyVars, stray, exposed>>,
           NEW p \in Process, NEW x \in JobRow, job' = [job EXCEPT ![p] = x],
           x.pc \notin {"wire", "reply", "save", "opened"},
           p \in Caller => x.pc \in {"idle", "lock"} \cup InMutex,
           p \in Caller /\ x.pc \in InMutex => job[p].pc \in InMutex \/ ~ Locked,
           access' \in {access, None}, ui' \in {ui, "out", "in"}, disk' = disk,
           \/ store' = store /\ job[p].pc \notin {"wire", "reply", "save"}
           \/ store' = None
           \/ store' = job[p].token /\ job[p].pc = "save"
    PROVE  MobileInv'
<1>1. UNCHANGED familyVars /\ family' = family /\ stray' = stray /\ exposed' = exposed
  BY DEF familyVars
<1>2. /\ access' \in Token \cup {None} /\ ui' \in {"out", "failed", "in"}
      /\ stray' \subseteq Token /\ exposed' \subseteq Session
  BY <1>1 DEF MobileInv, MobileTypeOK
<1>3. \A s \in Session : AtRisk(s) => AtRisk(s)'
  BY <1>1 DEF AtRisk
<1>4. \A t \in stray' : family[t[1]] = "open" /\ t[1] \in exposed'
  BY <1>1 DEF MobileInv, StraysAtRisk
<1>5. \/ store' = store /\ \A s \in Session : Refreshing(p, s) => AtRisk(s)'
      \/ store' = None
      \/ store' = job[p].token /\ job[p].pc = "save"
  BY DEF Refreshing
<1> QED BY <1>1, <1>2, <1>3, <1>4, <1>5, QuietStep

\* The rows that Goto and Ends put down.
LEMMA JobRows ==
    ASSUME MobileInv, NEW p \in Process
    PROVE  /\ Resting \in JobRow /\ Resting.pc = "idle"
           /\ \A pc \in {"idle", "lock", "launch", "signin", "opened", "logout", "answered"}
                        \cup InMutex :
                \E x \in JobRow : /\ x = [job[p] EXCEPT !.pc = pc]
                                  /\ x.pc = pc /\ x.token = job[p].token
           /\ p \in Caller => job[p].pc \in {"idle", "lock"} \cup InMutex
           /\ p \notin Caller => p = Main
<1>1. job[p] \in JobRow /\ JobSound(p)
  BY JobFacts
<1>2. ASSUME NEW pc \in {"idle", "lock", "launch", "signin", "opened", "logout", "answered"}
                         \cup InMutex
      PROVE  \E x \in JobRow : /\ x = [job[p] EXCEPT !.pc = pc]
                               /\ x.pc = pc /\ x.token = job[p].token
  <2>1. PICK x : x = [job[p] EXCEPT !.pc = pc]
    OBVIOUS
  <2>2. x \in JobRow /\ x.pc = pc /\ x.token = job[p].token
    BY <1>1, <2>1 DEF JobRow
  <2> QED BY <2>1, <2>2
<1>3. Resting \in JobRow /\ Resting.pc = "idle"
  BY DEF JobRow, Resting
<1> QED BY <1>1, <1>2, <1>3 DEF JobSound, Process

\* A request is refused, waits for the mutex and looks at the tokens.
LEMMA CallerStep ==
    ASSUME MobileInv, NEW c \in Caller, Refused(c) \/ Lock(c) \/ Load(c)
    PROVE  MobileInv'
<1>1. c \in Process
  BY DEF Process
<1>2. /\ Resting \in JobRow /\ Resting.pc = "idle"
      /\ \A pc \in {"idle", "lock"} \cup InMutex :
            \E x \in JobRow : x = [job[c] EXCEPT !.pc = pc] /\ x.pc = pc
  BY <1>1, JobRows
<1>3. CASE Refused(c)
  <2>1. PICK x : x = [pc |-> "lock", token |-> access]
    OBVIOUS
  <2>2. x \in JobRow /\ x.pc = "lock"
    BY <2>1 DEF JobRow, MobileInv, MobileTypeOK
  <2> QED BY <1>1, <1>3, <2>1, <2>2, PlainStep DEF Refused, client, InMutex
<1>4. CASE Lock(c)
  <2>1. CASE Ends(c)
    BY <1>1, <1>2, <1>4, <2>1, PlainStep DEF Lock, Ends, client, InMutex
  <2>2. CASE Goto(c, "load")
    <3>1. PICK x \in JobRow : x = [job[c] EXCEPT !.pc = "load"] /\ x.pc = "load"
      BY <1>2 DEF InMutex
    <3>2. job' = [job EXCEPT ![c] = x]
      BY <2>2, <3>1, <1>1, JobFacts DEF Goto
    <3> QED BY <1>1, <1>4, <3>1, <3>2, PlainStep DEF Lock, client, InMutex
  <2> QED BY <1>4, <2>1, <2>2 DEF Lock
<1>5. CASE Load(c)
  <2>1. CASE Goto(c, "forget") /\ UNCHANGED exposed
    <3>1. PICK x \in JobRow : x = [job[c] EXCEPT !.pc = "forget"] /\ x.pc = "forget"
      BY <1>2 DEF InMutex
    <3>2. job' = [job EXCEPT ![c] = x]
      BY <2>1, <3>1, <1>1, JobFacts DEF Goto
    <3> QED BY <1>1, <1>5, <2>1, <3>1, <3>2, PlainStep DEF Load, client, InMutex
  <2>2. CASE store # None /\ SendRefresh(c)
    BY <1>1, <1>5, <2>2, SendStep DEF Load, client
  <2> QED BY <1>5, <2>1, <2>2 DEF Load
<1> QED BY <1>3, <1>4, <1>5

\* The screens start something.
LEMMA ScreenStep ==
    ASSUME MobileInv, Relaunch \/ Restore \/ SubmitSignIn \/ Logout \/ LogoutRefused
    PROVE  MobileInv'
<1>1. Main \in Process /\ Main \notin Caller
  BY MobileAssumption DEF Process
<1>2. /\ Resting \in JobRow /\ Resting.pc = "idle"
      /\ \A pc \in {"launch", "signin", "logout", "answered"} :
            \E x \in JobRow : x = [job[Main] EXCEPT !.pc = pc] /\ x.pc = pc
  BY <1>1, JobRows
<1>3. ASSUME NEW pc \in {"launch", "signin", "logout", "answered"}, Goto(Main, pc),
             job[Main].pc \in {"idle", "logout"},
             UNCHANGED <<familyVars, client, stray, exposed>>
      PROVE  MobileInv'
  <2>1. PICK x \in JobRow : x = [job[Main] EXCEPT !.pc = pc] /\ x.pc = pc
    BY <1>2
  <2>2. job' = [job EXCEPT ![Main] = x]
    BY <1>3, <2>1, <1>1, JobFacts DEF Goto
  <2> QED BY <1>1, <1>3, <2>1, <2>2, PlainStep DEF client
<1>4. CASE Relaunch
  BY <1>3, <1>4 DEF Relaunch
<1>5. CASE SubmitSignIn
  BY <1>3, <1>5 DEF SubmitSignIn
<1>6. CASE LogoutRefused
  BY <1>3, <1>6 DEF LogoutRefused
<1>7. CASE Logout
  <2>1. PICK x : x = [pc |-> "logout", token |-> store]
    OBVIOUS
  <2>2. x \in JobRow /\ x.pc = "logout"
    BY <2>1 DEF JobRow, MobileInv, MobileTypeOK
  <2> QED BY <1>1, <1>7, <2>1, <2>2, PlainStep DEF Logout, client
<1>8. CASE Restore
  <2>1. CASE ui' = "out" /\ Ends(Main) /\ UNCHANGED exposed
    BY <1>1, <1>2, <1>8, <2>1, PlainStep DEF Restore, Ends
  <2>2. CASE store # None /\ SendRefresh(Main) /\ UNCHANGED ui
    BY <1>1, <1>8, <2>2, SendStep DEF Restore
  <2> QED BY <1>8, <2>1, <2>2 DEF Restore
<1> QED BY <1>4, <1>5, <1>6, <1>7, <1>8

\* A job ends without an answer.
LEMMA AbandonStep ==
    ASSUME MobileInv, NEW p \in Process, Timeout(p) \/ (p = Main /\ Cancel)
    PROVE  MobileInv'
<1>1. /\ UNCHANGED familyVars /\ Abandoned({p}, <<None>>)
      /\ access' = access /\ store' = store /\ disk' = disk
      /\ ui' \in {"out", "failed", "in"}
  BY DEF Timeout, Cancel, client, MobileInv, MobileTypeOK
<1>2. /\ stray' \subseteq Token /\ exposed' \subseteq Session
      /\ \A s \in Session : AtRisk(s) => AtRisk(s)'
      /\ \A s \in Session : Refreshing(p, s) => AtRisk(s)'
      /\ \A t \in stray' : family[t[1]] = "open" /\ t[1] \in exposed'
  BY <1>1, AbandonedStep
<1>3. access' \in Token \cup {None}
  BY <1>1 DEF MobileInv, MobileTypeOK
<1>4. Resting \in JobRow /\ Resting.pc = "idle"
  BY JobRows
<1>5. CASE Ends(p)
  BY <1>1, <1>2, <1>3, <1>4, <1>5, QuietStep DEF Ends, InMutex
<1>6. CASE Goto(p, "forget") /\ job[p].pc \in {"logout", "answered"}
  <2>1. PICK x \in JobRow : x = [job[p] EXCEPT !.pc = "forget"] /\ x.pc = "forget"
    BY JobRows DEF InMutex
  <2>2. job' = [job EXCEPT ![p] = x]
    BY <1>6, <2>1, JobFacts DEF Goto
  <2>3. p \notin Caller
    BY <1>6, JobRows DEF InMutex
  <2> QED BY <1>1, <1>2, <1>3, <2>1, <2>2, <2>3, QuietStep
<1> QED BY <1>5, <1>6 DEF Timeout, Cancel

\* The answer is written down, or the session is forgotten.
LEMMA WriteStep ==
    ASSUME MobileInv, NEW p \in Process, Save(p) \/ Forget(p) \/ Erase(p)
    PROVE  MobileInv'
<1>1. /\ Resting \in JobRow /\ Resting.pc = "idle"
      /\ p \in Caller => job[p].pc \in {"idle", "lock"} \cup InMutex
  BY JobRows
<1>2. CASE Save(p)
  BY <1>1, <1>2, PlainStep DEF Save, Ends, InMutex
<1>3. CASE Forget(p)
  <2>1. PICK x : x = [pc |-> "erase", token |-> None]
    OBVIOUS
  <2>2. x \in JobRow /\ x.pc = "erase" /\ job' = [job EXCEPT ![p] = x]
    BY <1>3, <2>1 DEF JobRow, InMutex, Forget
  <2> QED BY <1>1, <1>3, <2>2, PlainStep DEF Forget, InMutex
<1>4. CASE Erase(p)
  BY <1>1, <1>4, PlainStep DEF Erase, Ends, InMutex
<1> QED BY <1>2, <1>3, <1>4

\* The invariant holds at the start ...
LEMMA MobileStart == MobileInit => MobileInv
<1> SUFFICES ASSUME MobileInit PROVE MobileInv
  OBVIOUS
<1>1. /\ family = [s \in Session |-> "none"] /\ current = [s \in Session |-> 0]
      /\ access = None /\ store = None /\ disk = None /\ ui = "out" /\ stray = {} /\ exposed = {}
  BY DEF MobileInit, FamilyInit
<1>2. \A p \in Process : job[p] \in JobRow /\ job[p].pc \in {"launch", "idle"}
                         /\ (p # Main => job[p].pc = "idle")
  BY DEF MobileInit, Resting, JobRow, InMutex
<1>3. job \in [Process -> JobRow]
  BY <1>2 DEF MobileInit
<1>4. MobileTypeOK
  BY <1>1, <1>3 DEF MobileTypeOK, FamilyTypeOK, JobRow
<1>5. JobsSound /\ OneInMutex /\ RefreshAlone /\ FreshOpened
  BY <1>2, MobileAssumption
     DEF JobsSound, JobSound, Carries, OneInMutex, RefreshAlone, FreshOpened, Refreshing, InMutex, Process
<1>6. StraysAtRisk /\ StoredSound
  BY <1>1 DEF StraysAtRisk, StoredSound
<1> QED BY <1>4, <1>5, <1>6 DEF MobileInv

\* ... and every step keeps it.
LEMMA MobileStep == MobileInv /\ [MobileNext]_mobileVars => MobileInv'
<1> SUFFICES ASSUME MobileInv, [MobileNext]_mobileVars PROVE MobileInv'
  OBVIOUS
<1>1. ASSUME NEW c \in Caller, Refused(c) \/ CallerWork(c) PROVE MobileInv'
  BY <1>1, CallerStep, ServeStep, AbandonStep, ReceiveStep, WriteStep DEF CallerWork, Work, Process
<1>2. CASE Work(Main) \/ Cancel
  BY <1>2, ServeStep, AbandonStep, ReceiveStep, WriteStep DEF Work, Process
<1>3. CASE Relaunch \/ Restore \/ SubmitSignIn \/ Logout \/ LogoutRefused
  BY <1>3, ScreenStep
<1>4. ASSUME NEW s \in Session, OpenSession(s) \/ RevokeElsewhere(s) PROVE MobileInv'
  BY <1>4, OpenStep, RevokeElsewhereStep
<1>5. ASSUME NEW t \in Token, ServeStray(t) PROVE MobileInv'
  BY <1>5, ServeStrayStep
<1>6. CASE Flush \/ Kill
  BY <1>6, FlushStep, KillStep
<1>7. CASE UNCHANGED mobileVars
  BY <1>7 DEF mobileVars, familyVars, client, MobileInv, MobileTypeOK, FamilyTypeOK, JobsSound,
              JobSound, Carries, OneInMutex, RefreshAlone, FreshOpened, StraysAtRisk, StoredSound,
              Refreshing, Sound, AtRisk
<1> QED BY <1>1, <1>2, <1>3, <1>4, <1>5, <1>6, <1>7 DEF MobileNext

\* The invariant of the phone, whatever the number of requests, sessions and refreshes.
THEOREM MobileInvariant == MobileSpec => []MobileInv
BY MobileStart, MobileStep, PTL DEF MobileSpec

\* The stored token of an open session is the one the server expects next, unless a
\* refresh of it went astray or is under way: the sign-in survives every order of
\* requests, restorations, sign-ins, logouts and deaths of the process.
THEOREM StoredTokenIsCurrent == MobileSpec => []StoredIsCurrent
<1>1. ASSUME MobileInv PROVE StoredIsCurrent
  <2>1. MobileTypeOK
    BY <1>1 DEF MobileInv
  <2>2. ASSUME store # None, family[store[1]] = "open", store[1] \notin exposed,
               \A p \in Process : ~ Refreshing(p, store[1])
        PROVE  store[2] = current[store[1]]
    BY <1>1, <2>2 DEF MobileInv, StoredSound, Sound, AtRisk
  <2> QED BY <2>1, <2>2 DEF StoredIsCurrent
<1> QED BY <1>1, MobileInvariant, PTL

\* Requests refused together never cost the user the session: the server ends an open
\* session only from elsewhere, or because a refresh of it went astray.
THEOREM RefusalsAreHarmless == MobileSpec => RefusalsKeepSession
<1>1. ASSUME MobileInv, MobileNext
      PROVE  \A s \in Session : family[s] = "open" /\ family'[s] = "revoked" =>
                 s \in exposed \/ RevokeElsewhere(s)
  <2>1. SUFFICES ASSUME NEW s \in Session, family[s] = "open", family'[s] = "revoked"
                 PROVE  s \in exposed \/ RevokeElsewhere(s)
    OBVIOUS
  <2>2. ASSUME NEW t \in Token, Trade(t)
        PROVE  t[1] = s /\ t[2] # current[s]
    <3>1. t[1] \in Session
      BY TokenTypes
    <3>2. family' # family
      BY <2>1
    <3>3. Revoke({t[1]}) /\ (t[2] # current[t[1]] \/ family[t[1]] # "open")
      BY <2>2, <3>2 DEF Trade, Rotate
    <3>4. t[1] = s
      BY <2>1, <3>3 DEF Revoke
    <3> QED BY <2>1, <3>3, <3>4
  <2>3. ASSUME NEW p \in Process, Serve(p) PROVE s \in exposed
    <3>1. PICK t \in Token : t = job[p].token /\ Sound(t)
      BY <1>1, <2>3, JobFacts DEF Serve, Carries
    <3>2. t[1] = s /\ t[2] # current[s]
      BY <2>2, <2>3, <3>1 DEF Serve
    <3> QED BY <2>1, <3>1, <3>2 DEF Sound, AtRisk
  <2>4. ASSUME NEW t \in Token, ServeStray(t) PROVE s \in exposed
    BY <1>1, <2>2, <2>4 DEF ServeStray, MobileInv, StraysAtRisk
  <2>5. ASSUME NEW u \in Session, RevokeElsewhere(u) PROVE RevokeElsewhere(s)
    <3>1. u = s
      BY <2>1, <2>5 DEF RevokeElsewhere, Revoke
    <3> QED BY <2>5, <3>1
  <2>6. ASSUME NEW u \in Session, OpenSession(u) PROVE FALSE
    BY <2>1, <2>6 DEF OpenSession, Open, MobileInv, MobileTypeOK, FamilyTypeOK
  <2>7. family' # family
    BY <2>1
  <2>8. ASSUME NEW p \in Process, Work(p) PROVE s \in exposed
    BY <2>3, <2>7, <2>8 DEF Work, Timeout, Receive, Save, Forget, Erase, familyVars
  <2>9. ASSUME NEW c \in Caller, Refused(c) \/ CallerWork(c) PROVE s \in exposed
    BY <2>7, <2>8, <2>9 DEF Refused, CallerWork, Lock, Load, familyVars, Process
  <2>10. ~ (Cancel \/ Relaunch \/ Restore \/ SubmitSignIn \/ Logout \/ LogoutRefused \/ Flush \/ Kill)
    BY <2>7 DEF Cancel, Relaunch, Restore, SubmitSignIn, Logout, LogoutRefused, Flush, Kill, familyVars
  <2> QED BY <1>1, <2>4, <2>5, <2>6, <2>8, <2>9, <2>10 DEF MobileNext, Process
<1>2. MobileInv /\ [MobileNext]_mobileVars =>
         [\A s \in Session : family[s] = "open" /\ family'[s] = "revoked" =>
              s \in exposed \/ RevokeElsewhere(s)]_mobileVars
  BY <1>1
<1> QED BY <1>2, MobileInvariant, PTL DEF MobileSpec, RefusalsKeepSession
-----------------------------------------------------------------------------
(* The browser                                                             *)

PageRow == [state : {"UNKNOWN", "AUTHENTICATED", "UNAUTHENTICATED"},
            access : Session \cup {None}, listening : BOOLEAN]
BootRow == [pc : {"none", "read"}, token : Session \cup {None}]
RefreshRow == [pc : {"none", "wire", "reply", "rejected"}, token : Token \cup {None}]
CallRow == [pc : {"none", "sent", "waiting", "retry"}, token : Session \cup {None}]
SignInRow == [pc : {"none", "wire", "reply"}, token : Token \cup {None}]
LogoutRow == [pc : {"none", "wire"}, token : Session \cup {None}]

\* A refresh of s whose answer is still out.
Trades(t, s) == refresh[t].pc \in {"wire", "reply"} /\ refresh[t].token[1] = s

TradeSound(t) ==
    refresh[t].pc \in {"wire", "reply"} => refresh[t].token \in Token /\ Sound(refresh[t].token)

\* Two tabs that refresh one session put it at risk.
TradeAlone ==
    \A t, u \in Tab, s \in Session : t # u /\ Trades(t, s) /\ Trades(u, s) => AtRisk(s)

\* What the browser stores is sound, or a tab has the answer that replaces it.
BrowserSound ==
    stored # None =>
        /\ family[stored[1]] # "none"
        /\ Sound(stored) \/ \E t \in Tab : refresh[t].pc = "reply" /\ Trades(t, stored[1])

\* The sessions some tab has heard of.
Known(s) ==
    \/ stored # None /\ stored[1] = s
    \/ \E u \in Tab : \/ s \in {page[u].access, boot[u].token, logout[u].token}
                      \/ s \in left[u] \/ Trades(u, s)

KnownSound == \A s \in Session : Known(s) => family[s] # "none"

\* Nobody else knows the session a sign-in has just opened.
SignInSound(t) ==
    signin[t].pc = "reply" =>
        /\ signin[t].token \in Token /\ Sound(signin[t].token)
        /\ ~ Known(signin[t].token[1])
        /\ \A u \in Tab \ {t} : signin[u].pc = "reply" => signin[u].token[1] # signin[t].token[1]

TokensSound ==
    /\ TradeAlone /\ BrowserSound /\ KnownSound /\ StraysAtRisk
    /\ \A t \in Tab : TradeSound(t) /\ SignInSound(t)

LogoutSound(t) == logout[t] # NoJob => logout[t].token \in Session

\* A session the tab has left is out of its sight, and what still belongs to it comes too
\* late.
LeftSound(t) ==
    /\ StoredAccess \notin left[t]
    /\ page[t].access \notin left[t]
    /\ boot[t].token \in left[t] => "boot" \in late[t]
    /\ \A s \in left[t] : Trades(t, s) => "refresh" \in late[t]

WebInv ==
    /\ WebTypeOK /\ TokensSound
    /\ \A t \in Tab : LogoutSound(t) /\ LeftSound(t)

\* The types of the tabs' rows.
LEMMA WebTypes ==
    ASSUME WebInv
    PROVE  /\ FamilyTypeOK
           /\ family \in [Session -> {"none", "open", "revoked"}] /\ current \in [Session -> Nat]
           /\ stored \in Token \cup {None} /\ StoredAccess \in Session \cup {None}
           /\ page \in [Tab -> PageRow] /\ boot \in [Tab -> BootRow]
           /\ refresh \in [Tab -> RefreshRow]
           /\ call \in [Tab -> [Caller -> CallRow]] /\ signin \in [Tab -> SignInRow]
           /\ logout \in [Tab -> LogoutRow] /\ pending \in [Tab -> 0 .. MaxPending]
           /\ late \in [Tab -> SUBSET Job] /\ exposed \subseteq Session /\ stray \subseteq Token
           /\ left \in [Tab -> SUBSET Session] /\ MaxPending \in Nat
           /\ None \in Token \cup {None} /\ NoJob \in BootRow /\ NoJob \in RefreshRow
           /\ NoJob \in CallRow /\ NoJob \in SignInRow /\ NoJob \in LogoutRow
<1>1. stored \in Token \cup {None} /\ StoredAccess \in Session \cup {None}
  BY TokenTypes DEF WebInv, WebTypeOK, StoredAccess
<1> QED BY <1>1, WebAssumption
        DEF WebInv, WebTypeOK, FamilyTypeOK, PageRow, BootRow, RefreshRow, CallRow, SignInRow, LogoutRow, NoJob

\* The rows taken together.
LEMMA WebTyped ==
    ASSUME FamilyTypeOK', stored' \in Token \cup {None}, page' \in [Tab -> PageRow],
           boot' \in [Tab -> BootRow],
           refresh' \in [Tab -> RefreshRow], call' \in [Tab -> [Caller -> CallRow]],
           signin' \in [Tab -> SignInRow], logout' \in [Tab -> LogoutRow],
           pending' \in [Tab -> 0 .. MaxPending], late' \in [Tab -> SUBSET Job],
           exposed' \subseteq Session, stray' \subseteq Token, left' \in [Tab -> SUBSET Session]
    PROVE  WebTypeOK'
BY DEF WebTypeOK, PageRow, BootRow, RefreshRow, CallRow, SignInRow, LogoutRow

\* The types after each of the store's operations.
LEMMA StoreTypes ==
    ASSUME WebInv, NEW t \in Tab
    PROVE  /\ Advance(t) => late' \in [Tab -> SUBSET Job]
           /\ \A j : Finish(t, j) => late' \in [Tab -> SUBSET Job]
           /\ \A k \in Session \cup {None} : Authenticate(t, k) => page' \in [Tab -> PageRow]
           /\ ClearAuthenticated(t) => page' \in [Tab -> PageRow] /\ late' \in [Tab -> SUBSET Job]
           /\ Broadcast(t) => pending' \in [Tab -> 0 .. MaxPending]
           /\ AccessToken(t) \in {page[t].access, StoredAccess}
           /\ AccessToken(t) \in Session \cup {None}
           /\ Hydrate(t) => page' \in [Tab -> PageRow]
           /\ \A T \in SUBSET Token, S \in SUBSET Session :
                 Kept(T, S) => stray' \subseteq Token /\ exposed' \subseteq Session
           /\ Abandon(t) => stray' \subseteq Token /\ exposed' \subseteq Session
           /\ \A c \in Caller, pc \in {"none", "sent", "waiting", "retry"}, k \in Session \cup {None} :
                 Becomes(t, c, pc, k) => call' \in [Tab -> [Caller -> CallRow]]
           /\ \A pc \in {"none", "retry"}, k \in Session \cup {None} :
                 Settle(t, pc, k) => /\ refresh' \in [Tab -> RefreshRow]
                                     /\ call' \in [Tab -> [Caller -> CallRow]]
<1>1. Advance(t) => late' \in [Tab -> SUBSET Job]
  BY WebTypes DEF Advance, Started
<1>2. \A j : Finish(t, j) => late' \in [Tab -> SUBSET Job]
  BY WebTypes DEF Finish
<1>3. ASSUME NEW k \in Session \cup {None}, Authenticate(t, k) PROVE page' \in [Tab -> PageRow]
  <2>1. page[t] \in PageRow
    BY WebTypes
  <2> QED BY <1>3, <2>1, WebTypes DEF Authenticate, PageRow
<1>4. ClearAuthenticated(t) => page' \in [Tab -> PageRow] /\ late' \in [Tab -> SUBSET Job]
  <2>1. page[t] \in PageRow
    BY WebTypes
  <2>2. [page[t] EXCEPT !.state = "UNAUTHENTICATED", !.access = None] \in PageRow
    BY <2>1 DEF PageRow
  <2> QED BY <1>1, <2>2, WebTypes DEF ClearAuthenticated
<1>5. ASSUME Broadcast(t) PROVE pending' \in [Tab -> 0 .. MaxPending]
  <2>1. ASSUME NEW u \in Tab PROVE IF u # t /\ page[u].listening /\ pending[u] < MaxPending
                    THEN pending[u] + 1 \in 0 .. MaxPending ELSE pending[u] \in 0 .. MaxPending
    <3>1. pending[u] \in 0 .. MaxPending /\ MaxPending \in Nat
      BY WebTypes
    <3> QED BY <3>1
  <2> QED BY <1>5, <2>1 DEF Broadcast
<1>6. AccessToken(t) \in {page[t].access, StoredAccess} /\ AccessToken(t) \in Session \cup {None}
  BY WebTypes DEF AccessToken, PageRow
<1>7. Hydrate(t) => page' \in [Tab -> PageRow]
  BY <1>3, <1>6, WebTypes DEF Hydrate
<1>8. ASSUME NEW T \in SUBSET Token, NEW S \in SUBSET Session, Kept(T, S)
      PROVE  stray' \subseteq Token /\ exposed' \subseteq Session
  BY <1>8, WebTypes DEF Kept, Expose
<1>9. ASSUME NEW c \in Caller, NEW pc \in {"none", "sent", "waiting", "retry"},
             NEW k \in Session \cup {None}, Becomes(t, c, pc, k)
      PROVE  call' \in [Tab -> [Caller -> CallRow]]
  <2>1. [pc |-> pc, token |-> k] \in CallRow /\ call[t] \in [Caller -> CallRow]
    BY WebTypes DEF CallRow
  <2> QED BY <1>9, <2>1, WebTypes DEF Becomes
<1>10. ASSUME NEW pc \in {"none", "retry"}, NEW k \in Session \cup {None}, Settle(t, pc, k)
       PROVE  refresh' \in [Tab -> RefreshRow] /\ call' \in [Tab -> [Caller -> CallRow]]
  <2>1. [pc |-> pc, token |-> k] \in CallRow /\ call[t] \in [Caller -> CallRow]
    BY WebTypes DEF CallRow
  <2>2. [c \in Caller |-> IF call[t][c].pc # "waiting" THEN call[t][c]
                          ELSE [pc |-> pc, token |-> k]] \in [Caller -> CallRow]
    BY <2>1
  <2> QED BY <1>10, <2>2, WebTypes DEF Settle
<1>11. ASSUME Abandon(t) PROVE stray' \subseteq Token /\ exposed' \subseteq Session
  <2>1. refresh[t].pc \in {"wire", "reply"} =>
           refresh[t].token \in Token /\ refresh[t].token[1] \in Session
    BY TokenTypes DEF WebInv, TokensSound, TradeSound
  <2>2. PICK T \in SUBSET Token, S \in SUBSET Session : Kept(T, S)
    <3>1. (IF refresh[t].pc = "wire" THEN stray \cup {refresh[t].token} ELSE stray) \in SUBSET Token
      BY <2>1, WebTypes
    <3>2. (IF refresh[t].pc \in {"wire", "reply"} THEN {refresh[t].token[1]} ELSE {}) \in SUBSET Session
      BY <2>1
    <3> QED BY <1>11, <3>1, <3>2 DEF Abandon
  <2> QED BY <1>8, <2>2
<1> QED BY <1>1, <1>2, <1>3, <1>4, <1>5, <1>6, <1>7, <1>8, <1>9, <1>10, <1>11

\* The server's operations keep its types.
LEMMA FamilyTypes ==
    ASSUME FamilyTypeOK, NEW s \in Session
    PROVE  /\ Open(s) => FamilyTypeOK'
           /\ Rotate(s) => FamilyTypeOK'
           /\ Revoke({s}) => FamilyTypeOK'
           /\ UNCHANGED familyVars => FamilyTypeOK'
BY DEF FamilyTypeOK, Open, Rotate, Revoke, familyVars

\* What a tab does alone keeps the types.
LEMMA TabTypeStep ==
    ASSUME WebInv, NEW t \in Tab,
           \/ Invalidate(t) \/ Bootstrap(t) \/ Hydrated(t) \/ Reload(t) \/ LoseRefresh(t)
           \/ Refreshed(t) \/ RefreshedLate(t) \/ RefreshRejected(t) \/ SubmitCode(t)
           \/ SaveSession(t) \/ SignInFails(t) \/ StartLogout(t) \/ LogoutAlone(t) \/ EndLogout(t)
    PROVE  WebTypeOK'
<1>1. UNCHANGED familyVars /\ FamilyTypeOK'
  BY FamilyTypes, WebTypes
     DEF Invalidate, Bootstrap, Hydrated, Reload, LoseRefresh, Refreshed, RefreshedLate, RefreshRejected,
         SubmitCode, SaveSession, SignInFails, StartLogout, LogoutAlone, EndLogout, FamilyTypeOK, familyVars
<1>2. \A j : Finish(t, j) => late' \in [Tab -> SUBSET Job]
  BY StoreTypes
<1>3. ClearKoraSession(t) => /\ page' \in [Tab -> PageRow] /\ late' \in [Tab -> SUBSET Job]
                             /\ pending' \in [Tab -> 0 .. MaxPending] /\ stored' = None
  BY StoreTypes DEF ClearKoraSession
<1>4. CASE Invalidate(t)
  <2>1. pending[t] > 0 /\ pending[t] \in 0 .. MaxPending /\ MaxPending \in Nat
    BY <1>4, WebTypes DEF Invalidate
  <2>2. pending[t] - 1 \in 0 .. MaxPending
    BY <2>1
  <2>3. pending' \in [Tab -> 0 .. MaxPending]
    BY <1>4, <2>2, WebTypes DEF Invalidate
  <2> QED BY <1>1, <1>4, <2>3, StoreTypes, WebTypes, WebTyped DEF Invalidate, jobs, risk
<1>5. CASE Bootstrap(t)
  <2>1. page' \in [Tab -> PageRow]
    BY <1>5, WebTypes DEF Bootstrap, PageRow
  <2>2. [pc |-> "read", token |-> StoredAccess] \in BootRow
    BY WebTypes DEF BootRow
  <2>3. boot' \in [Tab -> BootRow]
    BY <1>5, <2>2, WebTypes DEF Bootstrap
  <2> QED BY <1>1, <1>5, <2>1, <2>3, WebTypes, WebTyped DEF Bootstrap, risk
<1>6. CASE Hydrated(t)
  <2>1. boot[t].token \in Session \cup {None}
    BY WebTypes DEF BootRow
  <2>2. page[t] \in PageRow
    BY WebTypes
  <2>3. [page[t] EXCEPT !.state = IF boot[t].token = None THEN "UNAUTHENTICATED" ELSE "AUTHENTICATED",
                        !.access = boot[t].token] \in PageRow
    BY <2>1, <2>2 DEF PageRow
  <2>4. page' \in [Tab -> PageRow]
    BY <1>6, <2>2, <2>3, WebTypes DEF Hydrated
  <2> QED BY <1>1, <1>2, <1>6, <2>4, WebTypes, WebTyped DEF Hydrated, risk
<1>7. CASE Reload(t)
  <2>1. /\ Unknown \in PageRow /\ [c \in Caller |-> NoJob] \in [Caller -> CallRow]
        /\ 0 \in 0 .. MaxPending
    BY WebTypes DEF Unknown, PageRow
  <2>2. exposed' \subseteq Session /\ stray' \subseteq Token
    BY <1>7, StoreTypes DEF Reload
  <2> QED BY <1>1, <1>7, <2>1, <2>2, WebTypes, WebTyped DEF Reload
<1>8. CASE LoseRefresh(t) \/ RefreshedLate(t)
  <2>1. exposed' \subseteq Session /\ stray' \subseteq Token /\ refresh' \in [Tab -> RefreshRow]
        /\ call' \in [Tab -> [Caller -> CallRow]]
    BY <1>8, StoreTypes DEF LoseRefresh, RefreshedLate
  <2> QED BY <1>1, <1>2, <1>8, <2>1, WebTypes, WebTyped DEF LoseRefresh, RefreshedLate, memory
<1>9. CASE Refreshed(t)
  <2>1. refresh[t].token \in Token /\ refresh[t].token[1] \in Session
    BY <1>9, TokenTypes DEF Refreshed, WebInv, TokensSound, TradeSound
  <2>2. page' \in [Tab -> PageRow] /\ refresh' \in [Tab -> RefreshRow]
        /\ call' \in [Tab -> [Caller -> CallRow]]
    BY <1>9, <2>1, StoreTypes DEF Refreshed
  <2>3. left' \in [Tab -> SUBSET Session]
    BY <1>9, WebTypes DEF Refreshed
  <2> QED BY <1>1, <1>2, <1>9, <2>1, <2>2, <2>3, WebTypes, WebTyped DEF Refreshed, risk
<1>10. CASE RefreshRejected(t)
  <2>1. refresh' \in [Tab -> RefreshRow] /\ call' \in [Tab -> [Caller -> CallRow]]
    BY <1>10, StoreTypes DEF RefreshRejected
  <2> QED BY <1>1, <1>3, <1>10, <2>1, WebTypes, WebTyped DEF RefreshRejected, risk
<1>11. CASE SubmitCode(t)
  <2>1. signin' \in [Tab -> SignInRow]
    BY <1>11, WebTypes DEF SubmitCode, SignInRow
  <2> QED BY <1>1, <1>11, <2>1, WebTypes, WebTyped DEF SubmitCode, Keep, memory, risk
<1>12. CASE SaveSession(t)
  <2>1. signin[t].token \in Token /\ signin[t].token[1] \in Session
    BY <1>12, TokenTypes DEF SaveSession, WebInv, TokensSound, SignInSound
  <2>2. page' \in [Tab -> PageRow] /\ late' \in [Tab -> SUBSET Job]
    BY <1>12, <2>1, StoreTypes DEF SaveSession
  <2> QED BY <1>1, <1>12, <2>1, <2>2, WebTypes, WebTyped DEF SaveSession, risk
<1>13. CASE SignInFails(t)
  BY <1>1, <1>2, <1>13, WebTypes, WebTyped DEF SignInFails, memory, risk
<1>14. CASE StartLogout(t)
  <2>1. [pc |-> "wire", token |-> AccessToken(t)] \in LogoutRow /\ page' \in [Tab -> PageRow]
    BY <1>14, StoreTypes DEF StartLogout, LogoutRow
  <2> QED BY <1>1, <1>14, <2>1, WebTypes, WebTyped DEF StartLogout, risk
<1>15. CASE LogoutAlone(t)
  BY <1>1, <1>3, <1>15, WebTypes, WebTyped DEF LogoutAlone, jobs, risk
<1>16. CASE EndLogout(t)
  <2>1. logout[t].token \in Session
    BY <1>16 DEF EndLogout, WebInv, LogoutSound
  <2>2. left' \in [Tab -> SUBSET Session]
    BY <1>16, <2>1, WebTypes DEF EndLogout
  <2> QED BY <1>1, <1>3, <1>16, <2>2, WebTypes, WebTyped DEF EndLogout, risk
<1> QED BY <1>4, <1>5, <1>6, <1>7, <1>8, <1>9, <1>10, <1>11, <1>12, <1>13, <1>14, <1>15, <1>16

\* So do the requests of a tab ...
LEMMA CallTypeStep ==
    ASSUME WebInv, NEW t \in Tab, NEW c \in Caller,
           \/ Send(t, c) \/ Answered(t, c) \/ StartRefresh(t, c) \/ JoinRefresh(t, c)
           \/ NothingStored(t, c) \/ RetryRefused(t, c)
    PROVE  WebTypeOK'
<1>1. FamilyTypeOK'
  BY FamilyTypes, WebTypes
     DEF Send, Answered, StartRefresh, JoinRefresh, NothingStored, RetryRefused, FamilyTypeOK, familyVars
<1>2. call' \in [Tab -> [Caller -> CallRow]]
  <2>1. ASSUME NEW x \in CallRow, call' = [call EXCEPT ![t][c] = x]
        PROVE  call' \in [Tab -> [Caller -> CallRow]]
    BY <2>1, WebTypes
  <2>2. CASE Send(t, c) \/ StartRefresh(t, c) \/ JoinRefresh(t, c)
    BY <2>2, StoreTypes DEF Send, StartRefresh, JoinRefresh
  <2>3. CASE Answered(t, c) \/ NothingStored(t, c) \/ RetryRefused(t, c)
    BY <2>1, <2>3, WebTypes DEF Answered, NothingStored, RetryRefused
  <2> QED BY <2>2, <2>3
<1>3. CASE Send(t, c)
  BY <1>1, <1>2, <1>3, StoreTypes, WebTypes, WebTyped DEF Send, risk
<1>4. CASE Answered(t, c) \/ JoinRefresh(t, c)
  BY <1>1, <1>2, <1>4, WebTypes, WebTyped DEF Answered, JoinRefresh, Keep, memory, risk
<1>5. CASE StartRefresh(t, c)
  <2>1. [pc |-> "wire", token |-> stored] \in RefreshRow
    BY WebTypes DEF RefreshRow
  <2>2. stray' \subseteq Token /\ exposed' \subseteq Session
    <3>1. PICK S \in SUBSET Session : Kept(stray, S)
      BY <1>5 DEF StartRefresh
    <3> QED BY <3>1, StoreTypes, WebTypes
  <2> QED BY <1>1, <1>2, <1>5, <2>1, <2>2, WebTypes, WebTyped DEF StartRefresh, memory
<1>6. CASE NothingStored(t, c) \/ RetryRefused(t, c)
  <2>1. /\ page' \in [Tab -> PageRow] /\ late' \in [Tab -> SUBSET Job]
        /\ pending' \in [Tab -> 0 .. MaxPending] /\ stored' = None
    BY <1>6, StoreTypes DEF NothingStored, RetryRefused, ClearKoraSession
  <2> QED BY <1>1, <1>2, <1>6, <2>1, WebTypes, WebTyped DEF NothingStored, RetryRefused, risk
<1> QED BY <1>3, <1>4, <1>5, <1>6

\* What serving a refresh request does to its session.
LEMMA Traded ==
    ASSUME FamilyTypeOK, NEW k \in Token, Trade(k)
    PROVE  /\ FamilyTypeOK'
           /\ \A s \in Session \ {k[1]} : family'[s] = family[s] /\ current'[s] = current[s]
           /\ \/ /\ family' = family /\ family[k[1]] = "open" /\ k[2] < MaxChain
                 /\ current'[k[1]] = k[2] + 1 /\ current' # current
              \/ /\ current' = current /\ family'[k[1]] = "revoked"
                 /\ Revoke({k[1]}) /\ family[k[1]] # "none"
                 /\ k[2] # current[k[1]] \/ family[k[1]] # "open"
<1>1. k[1] \in Session /\ k[2] \in Nat
  BY TokenTypes
<1>2. FamilyTypeOK'
  BY <1>1, FamilyTypes DEF Trade
<1>3. CASE k[2] = current[k[1]] /\ k[2] < MaxChain /\ Rotate(k[1])
  <2>1. family' = family /\ family[k[1]] = "open" /\ current'[k[1]] = k[2] + 1
        /\ \A s \in Session \ {k[1]} : current'[s] = current[s]
    BY <1>1, <1>3 DEF Rotate, FamilyTypeOK
  <2>2. current'[k[1]] # current[k[1]]
    BY <1>1, <1>3, <2>1
  <2> QED BY <1>2, <1>3, <2>1, <2>2
<1>4. CASE Revoke({k[1]}) /\ (k[2] # current[k[1]] \/ family[k[1]] # "open")
  BY <1>1, <1>2, <1>4 DEF Revoke
<1> QED BY <1>3, <1>4 DEF Trade

\* ... and the server.
LEMMA ServerTypeStep ==
    ASSUME WebInv,
           \/ \E t \in Tab : \/ ServeRefresh(t) \/ ServeLogout(t)
                             \/ \E s \in Session : ServeSignIn(t, s)
           \/ \E s \in Session : RevokeRemotely(s)
           \/ \E k \in Token : ServeGivenUp(k)
    PROVE  WebTypeOK'
<1>1. \A T \in SUBSET Token : Kept(T, {}) => stray' \subseteq Token /\ exposed' \subseteq Session
  BY WebTypes DEF Kept, Expose
<1>2. ASSUME NEW t \in Tab, ServeRefresh(t) PROVE WebTypeOK'
  <2>1. PICK k \in Token : k = refresh[t].token
    BY <1>2 DEF WebInv, TokensSound, TradeSound, ServeRefresh
  <2>2. k[1] \in Session /\ (k[2] < MaxChain => <<k[1], k[2] + 1>> \in Token)
    BY TokenTypes
  <2>3. FamilyTypeOK' /\ (current' # current => k[2] < MaxChain)
    BY <1>2, <2>1, Traded, WebTypes DEF ServeRefresh
  <2>4. k[2] < MaxChain => [pc |-> "reply", token |-> <<k[1], k[2] + 1>>] \in RefreshRow
    BY <2>2 DEF RefreshRow
  <2>5. [pc |-> "rejected", token |-> None] \in RefreshRow
    BY DEF RefreshRow
  <2>6. refresh' \in [Tab -> RefreshRow]
    BY <1>2, <2>1, <2>3, <2>4, <2>5, WebTypes DEF ServeRefresh
  <2> QED BY <1>1, <1>2, <2>3, <2>6, WebTypes, WebTyped DEF ServeRefresh, Keep, memory
<1>3. ASSUME NEW t \in Tab, ServeLogout(t) PROVE WebTypeOK'
  <2>1. logout[t].token \in Session
    BY <1>3 DEF WebInv, LogoutSound, ServeLogout, NoJob
  <2> QED BY <1>1, <1>3, <2>1, FamilyTypes, WebTypes, WebTyped DEF ServeLogout, Keep, memory, jobs
<1>4. ASSUME NEW t \in Tab, NEW s \in Session, ServeSignIn(t, s) PROVE WebTypeOK'
  <2>1. <<s, 1>> \in Token
    BY ChainAssumption DEF Token
  <2>2. [pc |-> "reply", token |-> <<s, 1>>] \in SignInRow
    BY <2>1 DEF SignInRow
  <2> QED BY <1>4, <2>2, FamilyTypes, WebTypes, WebTyped DEF ServeSignIn, Keep, memory, risk
<1>5. ASSUME NEW s \in Session, RevokeRemotely(s) PROVE WebTypeOK'
  BY <1>1, <1>5, FamilyTypes, WebTypes, WebTyped DEF RevokeRemotely, Keep, memory, jobs
<1>6. ASSUME NEW k \in Token, ServeGivenUp(k) PROVE WebTypeOK'
  <2>1. FamilyTypeOK' /\ stray' \subseteq Token /\ exposed' \subseteq Session
    BY <1>1, <1>6, Traded, WebTypes DEF ServeGivenUp
  <2> QED BY <1>6, <2>1, WebTypes, WebTyped DEF ServeGivenUp, Keep, memory, jobs
<1> QED BY <1>2, <1>3, <1>4, <1>5, <1>6

\* A session that is exposed is at risk; no other is put out of risk, and the requests
\* that are given up are of sessions at risk.
LEMMA Exposing ==
    ASSUME UNCHANGED familyVars, NEW T, NEW S, Kept(T, S)
    PROVE  /\ \A s \in Session : AtRisk(s) => AtRisk(s)'
           /\ \A s \in Session : s \in S => AtRisk(s)'
           /\ StraysAtRisk /\ (\A k \in T : k \in stray \/ k[1] \in S) => StraysAtRisk'
<1>1. family' = family
  BY DEF familyVars
<1>2. exposed' = {s \in exposed \cup S : family[s] = "open"}
      /\ stray' = {k \in T : family[k[1]] = "open"}
  BY <1>1 DEF Kept, Expose
<1> QED BY <1>1, <1>2 DEF AtRisk, StraysAtRisk

\* What the invariant says of a token on its way.
LEMMA TokensOut ==
    ASSUME WebInv, NEW t \in Tab
    PROVE  /\ refresh[t].pc \in {"wire", "reply"} =>
                  /\ refresh[t].token \in Token /\ Sound(refresh[t].token)
                  /\ refresh[t].token[1] \in Session
                  /\ Trades(t, refresh[t].token[1])
           /\ signin[t].pc = "reply" =>
                  /\ signin[t].token \in Token /\ Sound(signin[t].token)
                  /\ signin[t].token[1] \in Session
           /\ SignInSound(t) /\ TradeSound(t)
           /\ TradeAlone /\ BrowserSound /\ KnownSound /\ StraysAtRisk
BY TokenTypes DEF WebInv, TokensSound, TradeSound, SignInSound, Trades

\* What a session that is known now was known for before.
LEMMA NothingNew ==
    ASSUME WebInv, NEW s \in Session, Known(s)',
           \/ stored' \in {stored, None}
           \/ \E u \in Tab : Trades(u, stored'[1]),
           \A u \in Tab : \/ page'[u].access \in {page[u].access, boot[u].token, StoredAccess, None}
                          \/ Trades(u, page'[u].access),
           \A u \in Tab : boot'[u].token \in {boot[u].token, StoredAccess, None},
           \A u \in Tab : logout'[u].token \in {logout[u].token, page[u].access, StoredAccess, None},
           \A u \in Tab : left'[u] \subseteq left[u] \cup {logout[u].token},
           \A u \in Tab, v \in Session : Trades(u, v)' => Trades(u, v) \/ v = StoredAccess
    PROVE  Known(s)
<1>1. s # None /\ (s = StoredAccess => Known(s))
  BY WebAssumption DEF StoredAccess, Known
<1>2. CASE stored' # None /\ stored'[1] = s
  BY <1>2 DEF Known
<1>3. ASSUME NEW u \in Tab, s \in {page'[u].access, boot'[u].token, logout'[u].token}
      PROVE  Known(s)
  <2>1. s \in {page[u].access, boot[u].token, logout[u].token} => Known(s)
    BY DEF Known
  <2>2. Trades(u, s) => Known(s)
    BY DEF Known
  <2>3. CASE s = page'[u].access
    BY <1>1, <2>1, <2>2, <2>3
  <2>4. CASE s = boot'[u].token
    BY <1>1, <2>1, <2>4
  <2>5. CASE s = logout'[u].token
    BY <1>1, <2>1, <2>5
  <2> QED BY <1>3, <2>3, <2>4, <2>5
<1>4. ASSUME NEW u \in Tab, s \in left'[u] PROVE Known(s)
  BY <1>4 DEF Known
<1>5. ASSUME NEW u \in Tab, Trades(u, s)' PROVE Known(s)
  BY <1>1, <1>5 DEF Known
<1>6. \/ stored' # None /\ stored'[1] = s
      \/ \E u \in Tab : \/ s \in {page'[u].access, boot'[u].token, logout'[u].token}
                        \/ s \in left'[u] \/ Trades(u, s)'
  BY DEF Known
<1> QED BY <1>2, <1>3, <1>4, <1>5, <1>6

\* A step of one tab while the server stands still, which starts no refresh.
LEMMA TokensStill ==
    ASSUME WebInv, UNCHANGED familyVars, \A s \in Session : AtRisk(s) => AtRisk(s)', StraysAtRisk',
           \A s \in Session : Known(s)' =>
               \/ Known(s)
               \/ /\ family[s] # "none"
                  /\ \A u \in Tab : signin'[u].pc = "reply" => signin'[u].token[1] # s,
           \A u \in Tab : refresh'[u] = refresh[u] \/ refresh'[u].pc \notin {"wire", "reply"},
           \A u \in Tab : signin'[u] = signin[u] \/ signin'[u].pc # "reply",
           \/ stored' = None
           \/ /\ stored' = stored
              /\ \A u \in Tab, s \in Session : refresh[u].pc = "reply" /\ Trades(u, s) =>
                     refresh'[u] = refresh[u] \/ AtRisk(s)'
           \/ \E k \in Token : stored' = k /\ Sound(k)
    PROVE  TokensSound'
<1>1. family' = family /\ current' = current
  BY DEF familyVars
<1>2. \A k \in Token : Sound(k) => Sound(k)'
  BY SoundStays
<1>3. \A u \in Tab, s \in Session : Trades(u, s)' => Trades(u, s)
  BY DEF Trades
<1>4. TradeAlone'
  BY <1>3, TokensOut DEF TradeAlone
<1>5. ASSUME NEW u \in Tab PROVE TradeSound(u)'
  <2>1. SUFFICES ASSUME refresh'[u].pc \in {"wire", "reply"}
                 PROVE  refresh'[u].token \in Token /\ Sound(refresh[u].token)'
    BY DEF TradeSound
  <2>2. PICK k \in Token : k = refresh[u].token /\ refresh'[u] = refresh[u] /\ Sound(k)
    BY <2>1, TokensOut
  <2>3. Sound(k)'
    BY <1>2, <2>2
  <2> QED BY <2>2, <2>3 DEF Sound, AtRisk
<1>6. ASSUME NEW u \in Tab PROVE SignInSound(u)'
  <2>1. SUFFICES ASSUME signin'[u].pc = "reply" PROVE SignInSound(u)'
    BY DEF SignInSound
  <2>2. PICK k \in Token : k = signin[u].token /\ signin'[u] = signin[u] /\ Sound(k) /\ k[1] \in Session
    BY <2>1, TokensOut
  <2>3. Sound(k)'
    BY <1>2, <2>2
  <2>4. /\ ~ Known(k[1])
        /\ \A v \in Tab \ {u} : signin[v].pc = "reply" => signin[v].token[1] # k[1]
    BY <2>1, <2>2, TokensOut DEF SignInSound
  <2>5. ~ Known(k[1])'
    BY <2>1, <2>2, <2>4
  <2>6. \A v \in Tab \ {u} : signin'[v].pc = "reply" => signin'[v].token[1] # k[1]
    BY <2>4
  <2> QED BY <2>1, <2>2, <2>3, <2>5, <2>6 DEF SignInSound, Sound, AtRisk, Known, Trades
<1>7. BrowserSound'
  <2>1. CASE stored' = None
    BY <2>1 DEF BrowserSound
  <2>2. CASE \E k \in Token : stored' = k /\ Sound(k)
    <3>1. PICK k \in Token : stored' = k /\ Sound(k)
      BY <2>2
    <3>2. Sound(k)'
      BY <1>2, <3>1
    <3> QED BY <3>1, <3>2 DEF BrowserSound, Sound, AtRisk
  <2>3. CASE /\ stored' = stored /\ stored # None
             /\ \A u \in Tab, s \in Session : refresh[u].pc = "reply" /\ Trades(u, s) =>
                    refresh'[u] = refresh[u] \/ AtRisk(s)'
    <3>1. PICK k \in Token : k = stored /\ k[1] \in Session
      BY <2>3, WebTypes, TokenTypes
    <3>2. family[k[1]] # "none" /\ (Sound(k) \/ \E u \in Tab : refresh[u].pc = "reply" /\ Trades(u, k[1]))
      BY <2>3, <3>1 DEF WebInv, TokensSound, BrowserSound
    <3>3. CASE Sound(k)
      BY <1>2, <2>3, <3>1, <3>3 DEF BrowserSound, Sound, AtRisk
    <3>4. CASE \E u \in Tab : refresh[u].pc = "reply" /\ Trades(u, k[1])
      <4>1. PICK u \in Tab : refresh[u].pc = "reply" /\ Trades(u, k[1])
        BY <3>4
      <4>2. CASE AtRisk(k[1])'
        BY <1>1, <2>3, <3>1, <3>2, <4>2 DEF BrowserSound, Sound, AtRisk
      <4>3. CASE refresh'[u] = refresh[u]
        BY <1>1, <2>3, <3>1, <3>2, <4>1, <4>3 DEF BrowserSound, Trades
      <4> QED BY <2>3, <3>1, <4>1, <4>2, <4>3
    <3> QED BY <3>2, <3>3, <3>4
  <2> QED BY <2>1, <2>2, <2>3
<1>8. KnownSound'
  BY <1>1 DEF WebInv, TokensSound, KnownSound
<1> QED BY <1>4, <1>5, <1>6, <1>7, <1>8 DEF TokensSound

\* A tab sends the stored token, alone or at the session's risk.
LEMMA TokensSent ==
    ASSUME WebInv, NEW t \in Tab, NEW c \in Caller, StartRefresh(t, c)
    PROVE  TokensSound'
<1>1. /\ UNCHANGED familyVars /\ family' = family /\ current' = current
      /\ signin' = signin /\ stored' = stored /\ stored # None /\ refresh[t] = NoJob
      /\ page' = page /\ boot' = boot /\ logout' = logout /\ left' = left
      /\ Kept(stray, {s \in Session : s = stored[1] /\ RefreshedElsewhere(t, s)})
  BY DEF StartRefresh, familyVars, memory, InFlight
<1>2. PICK k \in Token : k = stored /\ k[1] \in Session
  BY <1>1, WebTypes, TokenTypes
<1>3. PICK x : x = [pc |-> "wire", token |-> k]
  OBVIOUS
<1>4. /\ x.pc = "wire" /\ x.token = k /\ refresh'[t] = x
      /\ \A u \in Tab \ {t} : refresh'[u] = refresh[u]
  BY <1>2, <1>3, WebTypes DEF StartRefresh
<1>5. (\A s \in Session : AtRisk(s) => AtRisk(s)') /\ StraysAtRisk'
  BY <1>1, Exposing DEF WebInv, TokensSound
<1>6. \A j \in Token : Sound(j) => Sound(j)'
  BY <1>1, <1>5, SoundStays
<1>7. \A u \in Tab \ {t} : Trades(u, k[1]) => AtRisk(k[1])'
  BY <1>1, <1>2, Exposing DEF RefreshedElsewhere, Trades
<1>8. \A s \in Session : ~ Trades(t, s)
  BY <1>1 DEF Trades, NoJob
<1>9. /\ \A s \in Session : Trades(t, s)' <=> s = k[1]
      /\ \A u \in Tab \ {t}, s \in Session : Trades(u, s)' <=> Trades(u, s)
  BY <1>2, <1>4 DEF Trades
<1>10. family[k[1]] # "none" /\ (Sound(k) \/ \E u \in Tab : refresh[u].pc = "reply" /\ Trades(u, k[1]))
  BY <1>1, <1>2, TokensOut DEF BrowserSound
<1>11. Sound(k)'
  <2>1. CASE Sound(k)
    BY <1>6, <2>1
  <2>2. CASE \E u \in Tab : Trades(u, k[1])
    BY <1>1, <1>2, <1>7, <1>8, <1>10, <2>2 DEF Sound
  <2> QED BY <1>10, <2>1, <2>2
<1>12. TradeAlone'
  <2>1. ASSUME NEW u \in Tab, NEW v \in Tab, NEW s \in Session, u # v, Trades(u, s)', Trades(v, s)'
        PROVE  AtRisk(s)'
    <3>1. CASE u # t /\ v # t
      BY <1>5, <1>9, <2>1, <3>1, TokensOut DEF TradeAlone
    <3>2. CASE u = t \/ v = t
      BY <1>2, <1>7, <1>9, <2>1, <3>2
    <3> QED BY <3>1, <3>2
  <2> QED BY <2>1 DEF TradeAlone
<1>13. BrowserSound'
  BY <1>1, <1>2, <1>10, <1>11 DEF BrowserSound, Sound, AtRisk
<1>14. ASSUME NEW u \in Tab PROVE TradeSound(u)'
  <2>1. CASE u = t
    BY <1>4, <1>11, <2>1 DEF TradeSound, Sound, AtRisk
  <2>2. CASE u # t /\ refresh[u].pc \in {"wire", "reply"}
    <3>1. PICK j \in Token : j = refresh[u].token /\ refresh'[u] = refresh[u] /\ Sound(j)
      BY <1>4, <2>2, TokensOut
    <3>2. Sound(j)'
      BY <1>6, <3>1
    <3> QED BY <3>1, <3>2 DEF TradeSound, Sound, AtRisk
  <2>3. CASE u # t /\ refresh[u].pc \notin {"wire", "reply"}
    BY <1>4, <2>3 DEF TradeSound
  <2> QED BY <2>1, <2>2, <2>3
<1>15. \A s \in Session : Known(s)' => Known(s)
  <2>1. StoredAccess = k[1]
    BY <1>1, <1>2 DEF StoredAccess
  <2>2. \A u \in Tab, s \in Session : Trades(u, s)' => Trades(u, s) \/ s = StoredAccess
    BY <1>9, <2>1
  <2> QED BY <1>1, <2>2, NothingNew
<1>16. ASSUME NEW u \in Tab PROVE SignInSound(u)'
  <2>1. SUFFICES ASSUME signin[u].pc = "reply" PROVE SignInSound(u)'
    BY <1>1 DEF SignInSound
  <2>2. PICK j \in Token : j = signin[u].token /\ Sound(j) /\ j[1] \in Session
    BY <2>1, TokensOut
  <2>3. /\ ~ Known(j[1])
        /\ \A v \in Tab \ {u} : signin[v].pc = "reply" => signin[v].token[1] # j[1]
    BY <2>1, <2>2, TokensOut DEF SignInSound
  <2>4. ~ Known(j[1])' /\ Sound(j)'
    BY <1>6, <1>15, <2>2, <2>3
  <2> QED BY <1>1, <2>1, <2>2, <2>3, <2>4 DEF SignInSound, Sound, AtRisk, Known, Trades
<1>17. KnownSound'
  BY <1>1, <1>15, TokensOut DEF KnownSound
<1> QED BY <1>5, <1>12, <1>13, <1>14, <1>16, <1>17 DEF TokensSound

\* The server trades the token of a refresh and answers with the next, or it ends a
\* session; one that is at risk may also lose its chain.
LEMMA TokensServed ==
    ASSUME WebInv, UNCHANGED <<stored, page, boot, signin, logout, left>>,
           \A q \in Tab : refresh'[q] # refresh[q] =>
              /\ refresh[q].pc = "wire"
              /\ \/ refresh'[q].pc = "rejected"
                 \/ /\ refresh'[q].pc = "reply" /\ refresh'[q].token \in Token
                    /\ refresh'[q].token[1] = refresh[q].token[1]
                    /\ refresh'[q].token[2] = current'[refresh[q].token[1]],
           \A s \in Session : family[s] # "none" => family'[s] # "none",
           \A s \in Session : family'[s] = "open" => family[s] = "open",
           \A s \in Session : current'[s] # current[s] =>
              \/ AtRisk(s)
              \/ \E q \in Tab : Trades(q, s) /\ refresh[q].pc = "wire" /\ refresh'[q].pc = "reply",
           NEW T \in SUBSET stray, Kept(T, {})
    PROVE  TokensSound'
<1>1. /\ exposed' = {s \in exposed : family'[s] = "open"}
      /\ stray' = {k \in T : family'[k[1]] = "open"}
  BY DEF Kept, Expose
<1>2. (\A s \in Session : AtRisk(s) => AtRisk(s)') /\ StraysAtRisk'
  <2>1. \A s \in Session : AtRisk(s) => AtRisk(s)'
    BY <1>1 DEF AtRisk
  <2>2. StraysAtRisk /\ T \subseteq stray
    BY DEF WebInv, TokensSound
  <2> QED BY <1>1, <2>1, <2>2 DEF StraysAtRisk
<1>3. \A q \in Tab, s \in Session : Trades(q, s)' => Trades(q, s)
  BY DEF Trades
<1>4. ASSUME NEW k \in Token, Sound(k), current'[k[1]] = current[k[1]] \/ AtRisk(k[1])
      PROVE  Sound(k)'
  BY <1>2, <1>4, TokenTypes DEF Sound
<1>5. TradeAlone'
  BY <1>2, <1>3, TokensOut DEF TradeAlone
<1>6. ASSUME NEW u \in Tab PROVE TradeSound(u)'
  <2>1. CASE refresh'[u] = refresh[u] /\ refresh[u].pc \in {"wire", "reply"}
    <3>1. PICK k \in Token : /\ k = refresh[u].token /\ Sound(k) /\ k[1] \in Session
                             /\ Trades(u, k[1])
      BY <2>1, TokensOut
    <3>2. current'[k[1]] # current[k[1]] => AtRisk(k[1])
      BY <2>1, <3>1, TokensOut DEF TradeAlone
    <3>3. Sound(k)'
      BY <1>4, <3>1, <3>2
    <3> QED BY <2>1, <3>1, <3>3 DEF TradeSound, Sound, AtRisk
  <2>2. CASE refresh'[u] # refresh[u]
    <3>1. refresh[u].pc = "wire" /\ refresh[u].token[1] \in Session
          /\ family[refresh[u].token[1]] # "none"
      BY <2>2, TokensOut DEF Sound
    <3>2. family'[refresh[u].token[1]] # "none"
      BY <3>1
    <3>3. CASE refresh'[u].pc = "reply"
      <4>1. PICK k \in Token : k = refresh'[u].token
        BY <2>2, <3>3
      <4>2. family'[k[1]] # "none" /\ k[2] = current'[k[1]]
        BY <2>2, <3>2, <3>3, <4>1
      <4> QED BY <4>1, <4>2 DEF TradeSound, Sound
    <3> QED BY <2>2, <3>3 DEF TradeSound
  <2>3. CASE refresh'[u] = refresh[u] /\ refresh[u].pc \notin {"wire", "reply"}
    BY <2>3 DEF TradeSound
  <2> QED BY <2>1, <2>2, <2>3
<1>7. ASSUME NEW s \in Session PROVE Known(s)' => Known(s)
  BY <1>3, NothingNew
<1>8. ASSUME NEW u \in Tab PROVE SignInSound(u)'
  <2>1. SUFFICES ASSUME signin[u].pc = "reply" PROVE SignInSound(u)'
    BY DEF SignInSound
  <2>2. PICK j \in Token : j = signin[u].token /\ Sound(j) /\ j[1] \in Session
    BY <2>1, TokensOut
  <2>3. /\ ~ Known(j[1])
        /\ \A v \in Tab \ {u} : signin[v].pc = "reply" => signin[v].token[1] # j[1]
    BY <2>1, <2>2, TokensOut DEF SignInSound
  <2>4. \A v \in Tab : ~ Trades(v, j[1])
    BY <2>3 DEF Known
  <2>5. Sound(j)' /\ ~ Known(j[1])'
    BY <1>4, <1>7, <2>2, <2>3, <2>4
  <2> QED BY <2>1, <2>2, <2>3, <2>5 DEF SignInSound, Sound, AtRisk, Known, Trades
<1>9. BrowserSound'
  <2>1. SUFFICES ASSUME stored # None PROVE BrowserSound'
    BY DEF BrowserSound
  <2>2. PICK k \in Token : k = stored /\ k[1] \in Session
    BY <2>1, WebTypes, TokenTypes
  <2>3. family[k[1]] # "none" /\ (Sound(k) \/ \E u \in Tab : refresh[u].pc = "reply" /\ Trades(u, k[1]))
    BY <2>1, <2>2 DEF WebInv, TokensSound, BrowserSound
  <2>4. family'[k[1]] # "none"
    BY <2>2, <2>3
  <2>5. CASE AtRisk(k[1])
    BY <1>2, <2>2, <2>4, <2>5 DEF BrowserSound, Sound, AtRisk
  <2>6. CASE current'[k[1]] # current[k[1]] /\ ~ AtRisk(k[1])
    <3>1. PICK u \in Tab : Trades(u, k[1]) /\ refresh[u].pc = "wire" /\ refresh'[u].pc = "reply"
      BY <2>2, <2>6
    <3>2. refresh'[u].token[1] = k[1]
      BY <3>1 DEF Trades
    <3> QED BY <2>2, <2>4, <3>1, <3>2 DEF BrowserSound, Trades
  <2>7. CASE Sound(k) /\ current'[k[1]] = current[k[1]]
    <3>1. Sound(k)'
      BY <1>4, <2>7
    <3> QED BY <2>2, <2>4, <3>1 DEF BrowserSound, Sound, AtRisk
  <2>8. CASE \E u \in Tab : refresh[u].pc = "reply" /\ Trades(u, k[1])
    <3>1. PICK u \in Tab : refresh[u].pc = "reply" /\ Trades(u, k[1])
      BY <2>8
    <3>2. refresh'[u] = refresh[u]
      BY <3>1
    <3> QED BY <2>2, <2>4, <3>1, <3>2 DEF BrowserSound, Trades
  <2> QED BY <2>3, <2>5, <2>6, <2>7, <2>8
<1>10. KnownSound'
  BY <1>7 DEF WebInv, TokensSound, KnownSound
<1> QED BY <1>2, <1>5, <1>6, <1>8, <1>9, <1>10 DEF TokensSound

\* A new session: its first token is in one tab's hands.
LEMMA TokensOpened ==
    ASSUME WebInv, NEW t \in Tab, NEW s \in Session, ServeSignIn(t, s)
    PROVE  TokensSound'
<1>1. /\ family[s] = "none" /\ refresh' = refresh /\ stored' = stored
      /\ exposed' = exposed /\ stray' = stray
      /\ page' = page /\ boot' = boot /\ logout' = logout /\ left' = left
      /\ FamilyTypeOK' /\ family'[s] = "open" /\ current'[s] = 1
      /\ \A u \in Session \ {s} : family'[u] = family[u] /\ current'[u] = current[u]
  BY WebTypes DEF ServeSignIn, Open, FamilyTypeOK, Keep, memory, risk
<1>2. PICK k : k = <<s, 1>>
  OBVIOUS
<1>3. k \in Token /\ k[1] = s /\ k[2] = 1
  BY <1>2, ChainAssumption DEF Token
<1>4. PICK x : x = [pc |-> "reply", token |-> k]
  OBVIOUS
<1>5. /\ x.pc = "reply" /\ x.token = k /\ signin'[t] = x
      /\ \A u \in Tab \ {t} : signin'[u] = signin[u]
  BY <1>2, <1>4, WebTypes DEF ServeSignIn
<1>6. \A u \in Session \ {s} : AtRisk(u) => AtRisk(u)'
  BY <1>1 DEF AtRisk
<1>7. ASSUME NEW j \in Token, Sound(j)
      PROVE  j[1] # s /\ Sound(j)'
  BY <1>1, <1>6, <1>7, TokenTypes DEF Sound
<1>8. (\A u \in Session : Known(u)' <=> Known(u)) /\ ~ Known(s)
  <2>1. \A u \in Session : Known(u)' <=> Known(u)
    BY <1>1 DEF Known, Trades
  <2> QED BY <1>1, <2>1 DEF WebInv, TokensSound, KnownSound
<1>9. \A u \in Tab, v \in Session : (Trades(u, v)' <=> Trades(u, v)) /\ ~ Trades(u, s)
  BY <1>1, <1>8 DEF Trades, Known
<1>10. TradeAlone'
  BY <1>6, <1>9, TokensOut DEF TradeAlone
<1>11. ASSUME NEW u \in Tab PROVE TradeSound(u)'
  <2>1. SUFFICES ASSUME refresh[u].pc \in {"wire", "reply"}
                 PROVE  TradeSound(u)'
    BY <1>1 DEF TradeSound
  <2>2. PICK j \in Token : j = refresh[u].token /\ Sound(j)
    BY <2>1, TokensOut
  <2>3. Sound(j)'
    BY <1>7, <2>2
  <2> QED BY <1>1, <2>2, <2>3 DEF TradeSound, Sound, AtRisk
<1>12. stored # None => family[stored[1]] # "none" /\ stored[1] # s
  BY <1>1, TokensOut DEF BrowserSound
<1>13. BrowserSound'
  <2>1. SUFFICES ASSUME stored # None PROVE BrowserSound'
    BY <1>1 DEF BrowserSound
  <2>2. PICK j \in Token : j = stored /\ j[1] \in Session
    BY <2>1, WebTypes, TokenTypes
  <2>3. Sound(j) => Sound(j)'
    BY <1>7
  <2>4. family'[j[1]] # "none"
    BY <1>1, <1>12, <2>1, <2>2
  <2> QED BY <1>1, <2>1, <2>2, <2>3, <2>4, TokensOut DEF BrowserSound, Sound, AtRisk, Trades
<1>14. ASSUME NEW u \in Tab PROVE SignInSound(u)'
  <2>1. CASE u = t
    <3>1. Sound(k)'
      BY <1>1, <1>3 DEF Sound
    <3>2. \A v \in Tab \ {t} : signin'[v].pc = "reply" => signin'[v].token[1] # s
      BY <1>5, <1>7, TokensOut
    <3>3. ~ Known(k[1])'
      BY <1>3, <1>8
    <3> QED BY <1>3, <1>5, <2>1, <3>1, <3>2, <3>3 DEF SignInSound, Sound, AtRisk, Known, Trades
  <2>2. CASE u # t /\ signin[u].pc = "reply"
    <3>1. PICK j \in Token : j = signin[u].token /\ Sound(j) /\ j[1] \in Session
      BY <2>2, TokensOut
    <3>2. /\ ~ Known(j[1])
          /\ \A v \in Tab \ {u} : signin[v].pc = "reply" => signin[v].token[1] # j[1]
      BY <2>2, <3>1, TokensOut DEF SignInSound
    <3>3. Sound(j)' /\ j[1] # s /\ ~ Known(j[1])'
      BY <1>7, <1>8, <3>1, <3>2
    <3>4. \A v \in Tab \ {u} : signin'[v].pc = "reply" => signin'[v].token[1] # j[1]
      BY <1>3, <1>5, <3>2, <3>3
    <3> QED BY <1>5, <2>2, <3>1, <3>3, <3>4 DEF SignInSound, Sound, AtRisk, Known, Trades
  <2>3. CASE u # t /\ signin[u].pc # "reply"
    BY <1>5, <2>3 DEF SignInSound
  <2> QED BY <2>1, <2>2, <2>3
<1>15. KnownSound'
  BY <1>1, <1>8 DEF WebInv, TokensSound, KnownSound
<1>16. StraysAtRisk'
  <2>1. StraysAtRisk /\ \A j \in stray : j[1] \in Session
    BY WebTypes, TokenTypes DEF WebInv, TokensSound
  <2> QED BY <1>1, <2>1 DEF StraysAtRisk
<1> QED BY <1>10, <1>11, <1>13, <1>14, <1>15, <1>16 DEF TokensSound


\* What the operations of a tab's store leave behind.
LEMMA StoreEffects ==
    ASSUME WebInv, NEW t \in Tab
    PROVE  /\ \A k : Authenticate(t, k) => /\ page'[t].access = k
                                           /\ \A u \in Tab \ {t} : page'[u] = page[u]
           /\ ClearAuthenticated(t) => /\ page'[t].access = None /\ late'[t] = Started(t)'
                                       /\ \A u \in Tab \ {t} : page'[u] = page[u] /\ late'[u] = late[u]
           /\ \A j : Finish(t, j) => /\ late'[t] = late[t] \ {j}
                                     /\ \A u \in Tab \ {t} : late'[u] = late[u]
           /\ Hydrate(t) => /\ page'[t].access \in {page[t].access, StoredAccess}
                            /\ \A u \in Tab \ {t} : page'[u] = page[u]
           /\ \A pc, k : Settle(t, pc, k) => /\ refresh'[t] = NoJob
                                             /\ \A u \in Tab \ {t} : refresh'[u] = refresh[u]
<1>1. \A k : Authenticate(t, k) => /\ page'[t].access = k
                                   /\ \A u \in Tab \ {t} : page'[u] = page[u]
  BY WebTypes DEF Authenticate, PageRow
<1>2. ClearAuthenticated(t) => /\ page'[t].access = None /\ late'[t] = Started(t)'
                               /\ \A u \in Tab \ {t} : page'[u] = page[u] /\ late'[u] = late[u]
  BY WebTypes DEF ClearAuthenticated, Advance, PageRow
<1>3. \A j : Finish(t, j) => /\ late'[t] = late[t] \ {j}
                             /\ \A u \in Tab \ {t} : late'[u] = late[u]
  BY WebTypes DEF Finish
<1>4. Hydrate(t) => /\ page'[t].access \in {page[t].access, StoredAccess}
                    /\ \A u \in Tab \ {t} : page'[u] = page[u]
  BY <1>1, StoreTypes DEF Hydrate
<1>5. \A pc, k : Settle(t, pc, k) => /\ refresh'[t] = NoJob
                                     /\ \A u \in Tab \ {t} : refresh'[u] = refresh[u]
  BY WebTypes DEF Settle
<1> QED BY <1>1, <1>2, <1>3, <1>4, <1>5

\* A refresh given up on its way puts its session at risk.
LEMMA AbandonedRisk ==
    ASSUME WebInv, NEW t \in Tab, UNCHANGED familyVars, Abandon(t)
    PROVE  /\ \A s \in Session : AtRisk(s) => AtRisk(s)'
           /\ \A s \in Session : Trades(t, s) => AtRisk(s)'
           /\ StraysAtRisk'
<1>1. PICK T, S : /\ Kept(T, S)
                  /\ T = IF refresh[t].pc = "wire" THEN stray \cup {refresh[t].token} ELSE stray
                  /\ S = IF refresh[t].pc \in {"wire", "reply"} THEN {refresh[t].token[1]} ELSE {}
  BY DEF Abandon
<1>2. \A s \in Session : Trades(t, s) => s \in S
  BY <1>1 DEF Trades
<1>3. \A k \in T : k \in stray \/ k[1] \in S
  BY <1>1
<1> QED BY <1>1, <1>2, <1>3, Exposing DEF WebInv, TokensSound

\* The tokens stay sound in every step of a tab ...
LEMMA TokensTabStep ==
    ASSUME WebInv, NEW t \in Tab,
           \/ Invalidate(t) \/ Bootstrap(t) \/ Hydrated(t) \/ Reload(t) \/ LoseRefresh(t)
           \/ Refreshed(t) \/ RefreshedLate(t) \/ RefreshRejected(t) \/ SubmitCode(t)
           \/ SaveSession(t) \/ SignInFails(t) \/ StartLogout(t) \/ LogoutAlone(t) \/ EndLogout(t)
    PROVE  TokensSound'
<1>1. UNCHANGED familyVars /\ family' = family
  BY DEF Invalidate, Bootstrap, Hydrated, Reload, LoseRefresh, Refreshed, RefreshedLate, RefreshRejected,
         SubmitCode, SaveSession, SignInFails, StartLogout, LogoutAlone, EndLogout, familyVars
<1>2. UNCHANGED risk => (\A s \in Session : AtRisk(s) => AtRisk(s)') /\ StraysAtRisk'
  BY <1>1 DEF risk, AtRisk, WebInv, TokensSound, StraysAtRisk
<1>3. NoJob.pc = "none" /\ NoJob.token = None
  BY DEF NoJob
<1>4. \A s \in Session : ~ Trades(t, s)' \/ refresh'[t] # NoJob
  BY <1>3 DEF Trades
<1>5. ClearKoraSession(t) => /\ stored' = None /\ page'[t].access = None
                             /\ \A u \in Tab \ {t} : page'[u] = page[u]
  BY StoreEffects DEF ClearKoraSession
<1>6. CASE Invalidate(t) \/ LogoutAlone(t)
  <2>1. /\ boot' = boot /\ refresh' = refresh /\ signin' = signin /\ logout' = logout
        /\ left' = left /\ stored' = None /\ page'[t].access = None
        /\ \A u \in Tab \ {t} : page'[u] = page[u]
    BY <1>5, <1>6, StoreEffects DEF Invalidate, LogoutAlone, jobs
  <2>2. \A s \in Session : Known(s)' => Known(s)
    BY <2>1, NothingNew DEF Trades
  <2> QED BY <1>1, <1>2, <1>6, <2>1, <2>2, TokensStill DEF Invalidate, LogoutAlone
<1>7. CASE EndLogout(t)
  <2>1. /\ boot' = boot /\ refresh' = refresh /\ signin' = signin
        /\ \A u \in Tab : logout'[u].token \in {logout[u].token, None}
        /\ \A u \in Tab : left'[u] \subseteq left[u] \cup {logout[u].token}
        /\ stored' = None /\ page'[t].access = None
        /\ \A u \in Tab \ {t} : page'[u] = page[u]
    BY <1>3, <1>5, <1>7, WebTypes DEF EndLogout
  <2>2. \A s \in Session : Known(s)' => Known(s)
    BY <2>1, NothingNew DEF Trades
  <2> QED BY <1>1, <1>2, <1>7, <2>1, <2>2, TokensStill DEF EndLogout
<1>8. CASE Bootstrap(t) \/ StartLogout(t)
  <2>1. /\ refresh' = refresh /\ signin' = signin /\ left' = left /\ stored' = stored
    BY <1>8 DEF Bootstrap, StartLogout
  <2>2. /\ \A u \in Tab : page'[u].access \in {page[u].access, StoredAccess}
        /\ \A u \in Tab : boot'[u].token \in {boot[u].token, StoredAccess}
        /\ \A u \in Tab : logout'[u].token \in {logout[u].token, page[u].access, StoredAccess}
    <3>1. CASE Bootstrap(t)
      BY <3>1, WebTypes DEF Bootstrap, PageRow, BootRow
    <3>2. CASE StartLogout(t)
      BY <3>2, StoreTypes, StoreEffects, WebTypes DEF StartLogout, LogoutRow
    <3> QED BY <1>8, <3>1, <3>2
  <2>3. \A s \in Session : Known(s)' => Known(s)
    BY <2>1, <2>2, NothingNew DEF Trades
  <2> QED BY <1>1, <1>2, <1>8, <2>1, <2>3, TokensStill DEF Bootstrap, StartLogout
<1>9. CASE Hydrated(t)
  <2>1. /\ refresh' = refresh /\ signin' = signin /\ left' = left /\ stored' = stored /\ logout' = logout
    BY <1>9 DEF Hydrated
  <2>2. /\ \A u \in Tab : page'[u].access \in {page[u].access, boot[u].token}
        /\ \A u \in Tab : boot'[u].token \in {boot[u].token, None}
    BY <1>3, <1>9, WebTypes DEF Hydrated, PageRow
  <2>3. \A s \in Session : Known(s)' => Known(s)
    BY <2>1, <2>2, NothingNew DEF Trades
  <2> QED BY <1>1, <1>2, <1>9, <2>1, <2>3, TokensStill DEF Hydrated
<1>10. CASE Reload(t)
  <2>1. /\ \A u \in Tab \ {t} : refresh'[u] = refresh[u] /\ signin'[u] = signin[u]
        /\ refresh'[t] = NoJob /\ signin'[t] = NoJob /\ left' = left /\ stored' = stored
        /\ \A u \in Tab : /\ page'[u].access \in {page[u].access, None}
                          /\ boot'[u].token \in {boot[u].token, None}
                          /\ logout'[u].token \in {logout[u].token, None}
    BY <1>3, <1>10, WebTypes DEF Reload, Unknown
  <2>2. \A u \in Tab, s \in Session : Trades(u, s)' => Trades(u, s)
    BY <1>4, <2>1 DEF Trades
  <2>3. \A s \in Session : Known(s)' => Known(s)
    BY <2>1, <2>2, NothingNew
  <2>4. /\ \A s \in Session : AtRisk(s) => AtRisk(s)'
        /\ \A s \in Session : Trades(t, s) => AtRisk(s)'
        /\ StraysAtRisk'
    BY <1>1, <1>10, AbandonedRisk DEF Reload
  <2> QED BY <1>1, <1>3, <2>1, <2>3, <2>4, TokensStill
<1>11. CASE LoseRefresh(t) \/ RefreshedLate(t)
  <2>1. /\ \A u \in Tab \ {t} : refresh'[u] = refresh[u]
        /\ refresh'[t] = NoJob /\ signin' = signin /\ left' = left /\ stored' = stored
        /\ page' = page /\ boot' = boot /\ logout' = logout
    BY <1>11, StoreEffects DEF LoseRefresh, RefreshedLate, memory
  <2>2. \A u \in Tab, s \in Session : Trades(u, s)' => Trades(u, s)
    BY <1>4, <2>1 DEF Trades
  <2>3. \A s \in Session : Known(s)' => Known(s)
    BY <2>1, <2>2, NothingNew
  <2>4. /\ \A s \in Session : AtRisk(s) => AtRisk(s)'
        /\ \A s \in Session : Trades(t, s) => AtRisk(s)'
        /\ StraysAtRisk'
    BY <1>1, <1>11, AbandonedRisk DEF LoseRefresh, RefreshedLate
  <2> QED BY <1>1, <1>3, <2>1, <2>3, <2>4, TokensStill
<1>12. CASE Refreshed(t)
  <2>1. (\A u \in Tab \ {t} : refresh'[u] = refresh[u]) /\ refresh'[t] = NoJob
    BY <1>12, StoreEffects DEF Refreshed
  <2>2. PICK k \in Token : k = refresh[t].token /\ Sound(k) /\ k[1] \in Session /\ Trades(t, k[1])
    BY <1>12, TokensOut DEF Refreshed
  <2>3. /\ stored' = k /\ signin' = signin /\ boot' = boot /\ logout' = logout
        /\ page'[t].access = k[1] /\ \A u \in Tab \ {t} : page'[u] = page[u]
        /\ \A u \in Tab : left'[u] \subseteq left[u]
    BY <1>12, <2>2, StoreEffects, WebTypes DEF Refreshed
  <2>4. \A u \in Tab, s \in Session : Trades(u, s)' => Trades(u, s)
    BY <1>4, <2>1 DEF Trades
  <2>5. \A s \in Session : Known(s)' => Known(s)
    BY <2>2, <2>3, <2>4, NothingNew
  <2> QED BY <1>1, <1>2, <1>3, <1>12, <2>1, <2>2, <2>3, <2>5, TokensStill DEF Refreshed
<1>13. CASE RefreshRejected(t)
  <2>1. /\ \A u \in Tab \ {t} : refresh'[u] = refresh[u]
        /\ refresh'[t] = NoJob /\ signin' = signin /\ left' = left /\ stored' = None
        /\ page'[t].access = None /\ \A u \in Tab \ {t} : page'[u] = page[u]
        /\ boot' = boot /\ logout' = logout
    BY <1>5, <1>13, StoreEffects DEF RefreshRejected
  <2>2. \A u \in Tab, s \in Session : Trades(u, s)' => Trades(u, s)
    BY <1>4, <2>1 DEF Trades
  <2>3. \A s \in Session : Known(s)' => Known(s)
    BY <2>1, <2>2, NothingNew
  <2> QED BY <1>1, <1>2, <1>3, <1>13, <2>1, <2>3, TokensStill DEF RefreshRejected
<1>14. CASE SubmitCode(t) \/ SignInFails(t)
  <2>1. /\ \A u \in Tab \ {t} : signin'[u] = signin[u]
        /\ signin'[t].pc # "reply" /\ refresh' = refresh /\ left' = left /\ stored' = stored
        /\ page' = page /\ boot' = boot /\ logout' = logout
    BY <1>3, <1>14, WebTypes DEF SubmitCode, SignInFails, Keep, memory, SignInRow
  <2>2. \A s \in Session : Known(s)' => Known(s)
    BY <2>1, NothingNew DEF Trades
  <2> QED BY <1>1, <1>2, <1>14, <2>1, <2>2, TokensStill DEF SubmitCode, SignInFails
<1>15. CASE SaveSession(t)
  <2>1. (\A u \in Tab \ {t} : signin'[u] = signin[u]) /\ signin'[t] = NoJob
    BY <1>15, WebTypes DEF SaveSession
  <2>2. PICK k \in Token : k = signin[t].token /\ Sound(k) /\ k[1] \in Session
    BY <1>15, TokensOut DEF SaveSession
  <2>3. /\ stored' = k /\ refresh' = refresh /\ boot' = boot /\ logout' = logout /\ left' = left
        /\ page'[t].access = k[1] /\ \A u \in Tab \ {t} : page'[u] = page[u]
    BY <1>15, <2>2, StoreEffects DEF SaveSession
  <2>4. \A u \in Tab : signin'[u].pc = "reply" => signin'[u].token[1] # k[1]
    BY <1>3, <1>15, <2>1, <2>2, TokensOut DEF SignInSound, SaveSession
  <2>5. \A s \in Session : Known(s)' => Known(s) \/ s = k[1]
    BY <2>3 DEF Known, Trades
  <2>6. family[k[1]] # "none"
    BY <2>2 DEF Sound
  <2> QED BY <1>1, <1>2, <1>3, <1>15, <2>1, <2>2, <2>3, <2>4, <2>5, <2>6, TokensStill DEF SaveSession
<1> QED BY <1>6, <1>7, <1>8, <1>9, <1>10, <1>11, <1>12, <1>13, <1>14, <1>15

\* ... of a request ...
LEMMA TokensCallStep ==
    ASSUME WebInv, NEW t \in Tab, NEW c \in Caller,
           \/ Send(t, c) \/ Answered(t, c) \/ StartRefresh(t, c) \/ JoinRefresh(t, c)
           \/ NothingStored(t, c) \/ RetryRefused(t, c)
    PROVE  TokensSound'
<1>1. CASE StartRefresh(t, c)
  BY <1>1, TokensSent
<1>2. CASE Send(t, c) \/ Answered(t, c) \/ JoinRefresh(t, c) \/ NothingStored(t, c) \/ RetryRefused(t, c)
  <2>1. /\ UNCHANGED familyVars /\ family' = family /\ exposed' = exposed /\ stray' = stray
        /\ refresh' = refresh /\ signin' = signin /\ stored' \in {stored, None}
        /\ boot' = boot /\ logout' = logout /\ left' = left
    BY <1>2 DEF Send, Answered, JoinRefresh, NothingStored, RetryRefused, ClearKoraSession,
                Keep, memory, risk, familyVars
  <2>2. (\A s \in Session : AtRisk(s) => AtRisk(s)') /\ StraysAtRisk'
    BY <2>1 DEF AtRisk, WebInv, TokensSound, StraysAtRisk
  <2>3. \A u \in Tab : page'[u].access \in {page[u].access, StoredAccess, None}
    <3>1. CASE Send(t, c)
      BY <3>1, StoreEffects DEF Send
    <3>2. CASE Answered(t, c) \/ JoinRefresh(t, c)
      BY <3>2 DEF Answered, JoinRefresh, Keep, memory
    <3>3. CASE NothingStored(t, c) \/ RetryRefused(t, c)
      BY <3>3, StoreEffects DEF NothingStored, RetryRefused, ClearKoraSession
    <3> QED BY <1>2, <3>1, <3>2, <3>3
  <2>4. \A s \in Session : Known(s)' => Known(s)
    BY <2>1, <2>3, NothingNew DEF Trades
  <2> QED BY <2>1, <2>2, <2>4, TokensStill
<1> QED BY <1>1, <1>2

\* ... and of the server.
LEMMA TokensServerStep ==
    ASSUME WebInv,
           \/ \E t \in Tab : \/ ServeRefresh(t) \/ ServeLogout(t)
                             \/ \E s \in Session : ServeSignIn(t, s)
           \/ \E s \in Session : RevokeRemotely(s)
           \/ \E k \in Token : ServeGivenUp(k)
    PROVE  TokensSound'
<1>1. ASSUME NEW s \in Session, Revoke({s})
      PROVE  /\ current' = current /\ family'[s] = "revoked"
             /\ \A u \in Session \ {s} : family'[u] = family[u]
  BY <1>1, WebTypes DEF Revoke
<1>2. ASSUME NEW t \in Tab, ServeRefresh(t) PROVE TokensSound'
  <2>1. PICK k \in Token : k = refresh[t].token /\ k[1] \in Session /\ Trades(t, k[1])
    BY <1>2, TokensOut DEF ServeRefresh
  <2>2. k[2] \in Nat /\ (k[2] < MaxChain => <<k[1], k[2] + 1>> \in Token)
    BY TokenTypes
  <2>3. /\ refresh[t].pc = "wire" /\ Kept(stray, {}) /\ Trade(k)
        /\ UNCHANGED <<stored, page, boot, signin, logout, left>>
    BY <1>2, <2>1 DEF ServeRefresh, Keep, memory
  <2>4. /\ \A s \in Session \ {k[1]} : family'[s] = family[s] /\ current'[s] = current[s]
        /\ \/ /\ family' = family /\ family[k[1]] = "open" /\ k[2] < MaxChain
              /\ current'[k[1]] = k[2] + 1 /\ current' # current
           \/ /\ current' = current /\ family'[k[1]] = "revoked" /\ family[k[1]] # "none"
              /\ k[2] # current[k[1]] \/ family[k[1]] # "open"
    BY <2>3, Traded, WebTypes
  <2>5. CASE current' # current
    <3>1. PICK x : x = [pc |-> "reply", token |-> <<k[1], k[2] + 1>>]
      OBVIOUS
    <3>2. x.pc = "reply" /\ x.token \in Token /\ x.token[1] = k[1] /\ x.token[2] = k[2] + 1
      BY <2>2, <2>4, <2>5, <3>1
    <3>3. refresh'[t] = x /\ \A u \in Tab \ {t} : refresh'[u] = refresh[u]
      BY <1>2, <2>1, <2>5, <3>1, WebTypes DEF ServeRefresh
    <3> QED BY <2>1, <2>3, <2>4, <2>5, <3>2, <3>3, TokensServed
  <2>6. CASE current' = current
    <3>1. refresh'[t].pc = "rejected" /\ \A u \in Tab \ {t} : refresh'[u] = refresh[u]
      BY <1>2, <2>6, WebTypes DEF ServeRefresh
    <3>2. \A s \in Session : /\ family[s] # "none" => family'[s] # "none"
                             /\ family'[s] = "open" => family[s] = "open"
      BY <2>4, <2>6
    <3> QED BY <2>1, <2>3, <2>6, <3>1, <3>2, TokensServed
  <2> QED BY <2>5, <2>6
<1>3. ASSUME NEW s \in Session, Revoke({s}), Kept(stray, {}), UNCHANGED <<memory, jobs, left>>
      PROVE  TokensSound'
  <2>1. UNCHANGED <<stored, page, boot, signin, logout, left, refresh>>
    BY <1>3 DEF memory, jobs
  <2>2. \A u \in Session : /\ family[u] # "none" => family'[u] # "none"
                           /\ family'[u] = "open" => family[u] = "open"
    BY <1>1, <1>3
  <2> QED BY <1>1, <1>3, <2>1, <2>2, TokensServed
<1>4. ASSUME NEW t \in Tab, ServeLogout(t) PROVE TokensSound'
  <2>1. logout[t].token \in Session
    BY <1>4 DEF WebInv, LogoutSound, ServeLogout, NoJob
  <2> QED BY <1>3, <1>4, <2>1 DEF ServeLogout, Keep
<1>5. ASSUME NEW s \in Session, RevokeRemotely(s) PROVE TokensSound'
  BY <1>3, <1>5 DEF RevokeRemotely, Keep
<1>6. ASSUME NEW k \in Token, ServeGivenUp(k) PROVE TokensSound'
  <2>1. /\ k \in stray /\ Kept(stray \ {k}, {}) /\ Trade(k)
        /\ UNCHANGED <<stored, page, boot, signin, logout, left, refresh>>
    BY <1>6 DEF ServeGivenUp, Keep, memory, jobs
  <2>2. AtRisk(k[1]) /\ k[1] \in Session
    BY <2>1, TokenTypes DEF WebInv, TokensSound, StraysAtRisk, AtRisk
  <2>3. /\ \A s \in Session \ {k[1]} : family'[s] = family[s] /\ current'[s] = current[s]
        /\ \/ family' = family
           \/ family'[k[1]] = "revoked" /\ family[k[1]] # "none"
    BY <2>1, Traded, WebTypes
  <2>4. \A u \in Session : /\ family[u] # "none" => family'[u] # "none"
                           /\ family'[u] = "open" => family[u] = "open"
    BY <2>2, <2>3
  <2> QED BY <2>1, <2>2, <2>3, <2>4, TokensServed
<1> QED BY <1>2, <1>4, <1>5, <1>6, TokensOpened

\* A logout under way names the session whose token it carries.
LEMMA LogoutStep ==
    ASSUME WebInv, WebNext
    PROVE  \A u \in Tab : LogoutSound(u)'
<1>1. ASSUME NEW u \in Tab, logout'[u] = logout[u] \/ logout'[u] = NoJob PROVE LogoutSound(u)'
  BY <1>1 DEF WebInv, LogoutSound
<1>2. ASSUME NEW t \in Tab, StartLogout(t) PROVE \A u \in Tab : LogoutSound(u)'
  <2>1. AccessToken(t) \in Session
    BY <1>2, StoreTypes DEF StartLogout
  <2>2. logout'[t].token = AccessToken(t) /\ \A u \in Tab \ {t} : logout'[u] = logout[u]
    BY <1>2, WebTypes DEF StartLogout
  <2>3. LogoutSound(t)'
    BY <2>1, <2>2 DEF LogoutSound
  <2> QED BY <1>1, <2>2, <2>3
<1>3. ASSUME NEW t \in Tab, EndLogout(t) \/ Reload(t) PROVE \A u \in Tab : LogoutSound(u)'
  <2>1. \A u \in Tab : logout'[u] = logout[u] \/ logout'[u] = NoJob
    BY <1>3, WebTypes DEF EndLogout, Reload
  <2> QED BY <1>1, <2>1
<1>4. CASE UNCHANGED logout
  BY <1>1, <1>4
<1>5. ASSUME NEW t \in Tab, NEW c \in Caller,
             \/ Send(t, c) \/ Answered(t, c) \/ StartRefresh(t, c) \/ JoinRefresh(t, c)
             \/ NothingStored(t, c) \/ RetryRefused(t, c)
      PROVE  UNCHANGED logout
  BY <1>5 DEF Send, Answered, StartRefresh, JoinRefresh, NothingStored, RetryRefused
<1>6. ASSUME NEW t \in Tab,
             \/ Invalidate(t) \/ Bootstrap(t) \/ Hydrated(t) \/ ServeRefresh(t) \/ LoseRefresh(t)
             \/ Refreshed(t) \/ RefreshedLate(t) \/ RefreshRejected(t) \/ SubmitCode(t) \/ SaveSession(t)
             \/ SignInFails(t) \/ LogoutAlone(t) \/ ServeLogout(t) \/ \E s \in Session : ServeSignIn(t, s)
      PROVE  UNCHANGED logout
  BY <1>6 DEF Invalidate, Bootstrap, Hydrated, ServeRefresh, LoseRefresh, Refreshed, RefreshedLate,
              RefreshRejected, SubmitCode, SaveSession, SignInFails, LogoutAlone, ServeLogout, ServeSignIn, jobs
<1>7. ASSUME NEW s \in Session, RevokeRemotely(s) PROVE UNCHANGED logout
  BY <1>7 DEF RevokeRemotely, jobs
<1>8. ASSUME NEW k \in Token, ServeGivenUp(k) PROVE UNCHANGED logout
  BY <1>8 DEF ServeGivenUp, jobs
<1> QED BY <1>2, <1>3, <1>4, <1>5, <1>6, <1>7, <1>8 DEF WebNext

\* A tab keeps clear of the sessions it has left: it takes over nothing of theirs, and what
\* is on its way to it stays late.
LEMMA LeftKept ==
    ASSUME WebInv, NEW u \in Tab, left'[u] \subseteq left[u],
           stored' \in {stored, None} \/ stored'[1] \notin left'[u],
           page'[u].access \in {page[u].access, StoredAccess, None} \/ page'[u].access \notin left'[u],
           \/ boot'[u] = boot[u] /\ ("boot" \in late[u] => "boot" \in late'[u])
           \/ boot'[u].token \in {StoredAccess, None}
           \/ "boot" \in late'[u],
           \A s \in Session : Trades(u, s)' =>
               \/ s = StoredAccess \/ "refresh" \in late'[u]
               \/ Trades(u, s) /\ ("refresh" \in late[u] => "refresh" \in late'[u])
    PROVE  LeftSound(u)'
<1>1. LeftSound(u) /\ left[u] \subseteq Session /\ None \notin left[u]
  BY WebTypes, WebAssumption DEF WebInv
<1>2. StoredAccess' \notin left'[u]
  BY <1>1 DEF LeftSound, StoredAccess
<1>3. page'[u].access \notin left'[u]
  BY <1>1 DEF LeftSound
<1>4. boot'[u].token \in left'[u] => "boot" \in late'[u]
  BY <1>1 DEF LeftSound
<1>5. \A s \in left'[u] : Trades(u, s)' => "refresh" \in late'[u]
  BY <1>1 DEF LeftSound
<1> QED BY <1>2, <1>3, <1>4, <1>5 DEF LeftSound

\* A tab that is cleared takes nothing over any more that it started before.
LEMMA LeftCleared ==
    ASSUME WebInv, NEW t \in Tab, ClearKoraSession(t), left'[t] \subseteq Session,
           boot' = boot, \A u \in Tab \ {t} : refresh'[u] = refresh[u] /\ left'[u] = left[u]
    PROVE  \A u \in Tab : LeftSound(u)'
<1>1. /\ stored' = None /\ page'[t].access = None /\ late'[t] = Started(t)'
      /\ \A u \in Tab \ {t} : page'[u] = page[u] /\ late'[u] = late[u]
  BY StoreEffects DEF ClearKoraSession
<1>2. None \notin left'[t]
  BY WebAssumption
<1>3. LeftSound(t)'
  <2>1. boot'[t].token \in left'[t] => "boot" \in late'[t]
    BY <1>1, <1>2 DEF Started, NoJob, Job
  <2>2. \A s \in left'[t] : Trades(t, s)' => "refresh" \in late'[t]
    BY <1>1 DEF Started, NoJob, Job, Trades
  <2>3. StoredAccess' = None
    BY <1>1 DEF StoredAccess
  <2> QED BY <1>1, <1>2, <2>1, <2>2, <2>3 DEF LeftSound
<1>4. ASSUME NEW u \in Tab \ {t} PROVE LeftSound(u)'
  BY <1>1, LeftKept DEF Trades
<1> QED BY <1>3, <1>4

\* Only the current answers of a tab reach its memory and what is stored.
LEMMA LeftTabStep ==
    ASSUME WebInv, NEW t \in Tab,
           \/ Invalidate(t) \/ Bootstrap(t) \/ Hydrated(t) \/ Reload(t) \/ LoseRefresh(t)
           \/ Refreshed(t) \/ RefreshedLate(t) \/ RefreshRejected(t) \/ SubmitCode(t)
           \/ SaveSession(t) \/ SignInFails(t) \/ StartLogout(t) \/ LogoutAlone(t) \/ EndLogout(t)
    PROVE  \A u \in Tab : LeftSound(u)'
<1>1. \A u \in Tab : LeftSound(u) /\ left[u] \subseteq Session /\ None \notin left[u]
  BY WebTypes, WebAssumption DEF WebInv
<1>2. NoJob.pc = "none" /\ NoJob.token = None
  BY DEF NoJob
<1>3. refresh'[t] = NoJob => \A s : ~ Trades(t, s)'
  BY <1>2 DEF Trades
<1>4. CASE LogoutAlone(t)
  BY <1>1, <1>4, LeftCleared DEF LogoutAlone, jobs
<1>5. CASE Invalidate(t)
  <2>1. /\ boot' = boot /\ refresh' = refresh /\ left' = left /\ stored' = None
        /\ page'[t].access = None /\ late'[t] = Started(t)'
        /\ \A u \in Tab \ {t} : page'[u] = page[u] /\ late'[u] = late[u]
    BY <1>5, StoreEffects DEF Invalidate, jobs
  <2>2. boot'[t] = NoJob \/ "boot" \in late'[t]
    BY <2>1 DEF Started, Job
  <2>3. \A s : Trades(t, s)' => "refresh" \in late'[t]
    BY <1>3, <2>1 DEF Started, Job
  <2>4. LeftSound(t)'
    BY <1>2, <2>1, <2>2, <2>3, LeftKept
  <2>5. ASSUME NEW u \in Tab \ {t} PROVE LeftSound(u)'
    BY <2>1, LeftKept DEF Trades
  <2> QED BY <2>4, <2>5
<1>6. CASE RefreshRejected(t)
  <2>1. \A u \in Tab \ {t} : refresh'[u] = refresh[u]
    BY <1>6, StoreEffects DEF RefreshRejected
  <2> QED BY <1>1, <1>6, <2>1, LeftCleared DEF RefreshRejected
<1>7. CASE EndLogout(t)
  <2>1. logout[t].token \in Session
    BY <1>7 DEF EndLogout, WebInv, LogoutSound
  <2>2. left'[t] = left[t] \cup {logout[t].token} /\ \A u \in Tab \ {t} : left'[u] = left[u]
    BY <1>7, WebTypes DEF EndLogout
  <2> QED BY <1>1, <1>7, <2>1, <2>2, LeftCleared DEF EndLogout
<1>8. CASE Bootstrap(t)
  <2>1. /\ refresh' = refresh /\ late' = late /\ left' = left /\ stored' = stored
        /\ \A u \in Tab : /\ page'[u].access = page[u].access
                          /\ boot'[u] = boot[u] \/ boot'[u].token = StoredAccess
    BY <1>8, WebTypes DEF Bootstrap, PageRow, BootRow
  <2> QED BY <2>1, LeftKept DEF Trades
<1>9. CASE Hydrated(t)
  <2>1. /\ refresh' = refresh /\ left' = left /\ stored' = stored
        /\ \A u \in Tab \ {t} : page'[u] = page[u] /\ boot'[u] = boot[u] /\ late'[u] = late[u]
        /\ boot'[t].token = None /\ late'[t] = late[t] \ {"boot"}
    BY <1>2, <1>9, StoreEffects, WebTypes DEF Hydrated
  <2>2. page'[t].access \in {page[t].access, None} \/ page'[t].access \notin left'[t]
    <3>1. CASE IsCurrent(t, "boot")
      <4>1. page'[t].access = boot[t].token
        BY <1>9, <3>1, WebTypes DEF Hydrated, PageRow
      <4> QED BY <1>1, <2>1, <3>1, <4>1 DEF IsCurrent, LeftSound
    <3>2. CASE ~ IsCurrent(t, "boot")
      BY <1>9, <3>2, WebTypes DEF Hydrated
    <3> QED BY <3>1, <3>2
  <2>3. LeftSound(t)'
    BY <2>1, <2>2, LeftKept DEF Trades
  <2>4. ASSUME NEW u \in Tab \ {t} PROVE LeftSound(u)'
    BY <2>1, LeftKept DEF Trades
  <2> QED BY <2>3, <2>4
<1>10. CASE Reload(t)
  <2>1. /\ left' = left /\ stored' = stored /\ refresh'[t] = NoJob
        /\ boot'[t].token = None /\ page'[t].access = None
        /\ \A u \in Tab \ {t} : /\ page'[u] = page[u] /\ boot'[u] = boot[u]
                                /\ late'[u] = late[u] /\ refresh'[u] = refresh[u]
    BY <1>2, <1>10, WebTypes DEF Reload, Unknown
  <2>2. LeftSound(t)'
    BY <1>3, <2>1, LeftKept
  <2>3. ASSUME NEW u \in Tab \ {t} PROVE LeftSound(u)'
    BY <2>1, LeftKept DEF Trades
  <2> QED BY <2>2, <2>3
<1>11. CASE LoseRefresh(t) \/ RefreshedLate(t)
  <2>1. /\ page' = page /\ boot' = boot /\ left' = left /\ stored' = stored /\ refresh'[t] = NoJob
        /\ late'[t] = late[t] \ {"refresh"}
        /\ \A u \in Tab \ {t} : late'[u] = late[u] /\ refresh'[u] = refresh[u]
    BY <1>11, StoreEffects DEF LoseRefresh, RefreshedLate, memory
  <2>2. LeftSound(t)'
    BY <1>3, <2>1, LeftKept
  <2>3. ASSUME NEW u \in Tab \ {t} PROVE LeftSound(u)'
    BY <2>1, LeftKept DEF Trades
  <2> QED BY <2>2, <2>3
<1>12. CASE Refreshed(t)
  <2>1. PICK k \in Token : k = refresh[t].token /\ k[1] \in Session /\ Trades(t, k[1])
    BY <1>12, TokensOut DEF Refreshed
  <2>2. k[1] \notin left[t]
    BY <1>1, <1>12, <2>1 DEF Refreshed, IsCurrent, LeftSound
  <2>3. /\ boot' = boot /\ stored' = k /\ refresh'[t] = NoJob /\ page'[t].access = k[1]
        /\ late'[t] = late[t] \ {"refresh"} /\ left'[t] = left[t]
        /\ \A u \in Tab \ {t} : /\ page'[u] = page[u] /\ late'[u] = late[u]
                                /\ refresh'[u] = refresh[u] /\ left'[u] = left[u] \ {k[1]}
    BY <1>12, <2>1, StoreEffects DEF Refreshed
  <2>4. LeftSound(t)'
    BY <1>3, <2>2, <2>3, LeftKept
  <2>5. ASSUME NEW u \in Tab \ {t} PROVE LeftSound(u)'
    BY <2>3, LeftKept DEF Trades
  <2> QED BY <2>4, <2>5
<1>13. CASE SubmitCode(t)
  <2>1. page' = page /\ refresh' = refresh /\ boot' = boot /\ left' = left /\ late' = late /\ stored' = stored
    BY <1>13 DEF SubmitCode, Keep, memory
  <2> QED BY <2>1, LeftKept DEF Trades
<1>14. CASE SaveSession(t)
  <2>1. PICK k \in Token : k = signin[t].token /\ k[1] \in Session
    BY <1>14, TokensOut DEF SaveSession
  <2>2. \A u \in Tab : k[1] \notin left[u]
    BY <1>14, <2>1, TokensOut DEF SaveSession, SignInSound, Known
  <2>3. /\ boot' = boot /\ refresh' = refresh /\ left' = left /\ stored' = k /\ page'[t].access = k[1]
        /\ late'[t] = Started(t)'
        /\ \A u \in Tab \ {t} : page'[u] = page[u] /\ late'[u] = late[u]
    BY <1>14, <2>1, StoreEffects, WebTypes DEF SaveSession, Advance
  <2>4. boot'[t] = NoJob \/ "boot" \in late'[t]
    BY <2>3 DEF Started, Job
  <2>5. \A s : Trades(t, s)' => "refresh" \in late'[t]
    BY <1>3, <2>3 DEF Started, Job
  <2>6. LeftSound(t)'
    BY <1>2, <2>2, <2>3, <2>4, <2>5, LeftKept
  <2>7. ASSUME NEW u \in Tab \ {t} PROVE LeftSound(u)'
    BY <2>2, <2>3, LeftKept DEF Trades
  <2> QED BY <2>6, <2>7
<1>15. CASE SignInFails(t)
  <2>1. /\ page' = page /\ refresh' = refresh /\ boot' = boot /\ left' = left /\ stored' = stored
        /\ late'[t] = late[t] \ {"signin"} /\ \A u \in Tab \ {t} : late'[u] = late[u]
    BY <1>15, StoreEffects DEF SignInFails, memory
  <2>2. \A u \in Tab : /\ "boot" \in late[u] => "boot" \in late'[u]
                       /\ "refresh" \in late[u] => "refresh" \in late'[u]
    BY <2>1
  <2> QED BY <2>1, <2>2, LeftKept DEF Trades
<1>16. CASE StartLogout(t)
  <2>1. /\ refresh' = refresh /\ boot' = boot /\ left' = left /\ late' = late /\ stored' = stored
        /\ \A u \in Tab : page'[u].access \in {page[u].access, StoredAccess}
    BY <1>16, StoreEffects DEF StartLogout
  <2> QED BY <2>1, LeftKept DEF Trades
<1> QED BY <1>4, <1>5, <1>6, <1>7, <1>8, <1>9, <1>10, <1>11, <1>12, <1>13, <1>14, <1>15, <1>16

\* The requests of a tab.
LEMMA LeftCallStep ==
    ASSUME WebInv, NEW t \in Tab, NEW c \in Caller,
           \/ Send(t, c) \/ Answered(t, c) \/ StartRefresh(t, c) \/ JoinRefresh(t, c)
           \/ NothingStored(t, c) \/ RetryRefused(t, c)
    PROVE  \A u \in Tab : LeftSound(u)'
<1>1. CASE Send(t, c)
  <2>1. /\ refresh' = refresh /\ boot' = boot /\ left' = left /\ late' = late /\ stored' = stored
        /\ \A u \in Tab : page'[u].access \in {page[u].access, StoredAccess}
    BY <1>1, StoreEffects DEF Send
  <2> QED BY <2>1, LeftKept DEF Trades
<1>2. CASE Answered(t, c) \/ JoinRefresh(t, c)
  <2>1. page' = page /\ refresh' = refresh /\ boot' = boot /\ left' = left /\ late' = late /\ stored' = stored
    BY <1>2 DEF Answered, JoinRefresh, Keep, memory
  <2> QED BY <2>1, LeftKept DEF Trades
<1>3. CASE StartRefresh(t, c)
  <2>1. /\ page' = page /\ boot' = boot /\ left' = left /\ late' = late /\ stored' = stored /\ stored # None
        /\ refresh'[t].token = stored /\ \A u \in Tab \ {t} : refresh'[u] = refresh[u]
    BY <1>3, WebTypes DEF StartRefresh, memory
  <2>2. \A u \in Tab, s \in Session : Trades(u, s)' => s = StoredAccess \/ Trades(u, s)
    BY <2>1 DEF Trades, StoredAccess
  <2> QED BY <2>1, <2>2, LeftKept
<1>4. CASE NothingStored(t, c) \/ RetryRefused(t, c)
  <2>1. left' = left /\ left[t] \subseteq Session
    BY <1>4, WebTypes DEF NothingStored, RetryRefused
  <2> QED BY <1>4, <2>1, LeftCleared DEF NothingStored, RetryRefused
<1> QED BY <1>1, <1>2, <1>3, <1>4

\* What the server does gives no tab anything it did not wait for.
LEMMA LeftServerStep ==
    ASSUME WebInv,
           \/ \E t \in Tab : \/ ServeRefresh(t) \/ ServeLogout(t)
                             \/ \E s \in Session : ServeSignIn(t, s)
           \/ \E s \in Session : RevokeRemotely(s)
           \/ \E k \in Token : ServeGivenUp(k)
    PROVE  \A u \in Tab : LeftSound(u)'
<1>1. UNCHANGED <<stored, page, boot, late, left>>
  BY DEF ServeRefresh, ServeLogout, ServeSignIn, RevokeRemotely, ServeGivenUp, Keep, memory, jobs
<1>2. ASSUME NEW t \in Tab, ServeRefresh(t)
      PROVE  \A u \in Tab, s \in Session : Trades(u, s)' => Trades(u, s)
  <2>1. /\ \A u \in Tab \ {t} : refresh'[u] = refresh[u]
        /\ refresh'[t].pc = "rejected" \/ refresh'[t].token[1] = refresh[t].token[1]
    BY <1>2, WebTypes DEF ServeRefresh
  <2> QED BY <1>2, <2>1 DEF Trades, ServeRefresh
<1>3. ASSUME UNCHANGED refresh
      PROVE  \A u \in Tab, s \in Session : Trades(u, s)' => Trades(u, s)
  BY <1>3 DEF Trades
<1>4. \A u \in Tab, s \in Session : Trades(u, s)' => Trades(u, s)
  BY <1>2, <1>3 DEF ServeLogout, ServeSignIn, RevokeRemotely, ServeGivenUp, jobs
<1> QED BY <1>1, <1>4, LeftKept

\* Nothing is signed in at the start.
LEMMA WebStart == WebInit => WebInv
<1> SUFFICES ASSUME WebInit PROVE WebInv
  OBVIOUS
<1>1. WebTypeOK
  BY WebAssumption DEF WebInit, FamilyInit, WebTypeOK, FamilyTypeOK, Unknown, NoJob
<1>2. TokensSound
  BY WebAssumption DEF WebInit, NoJob, Unknown, TokensSound, TradeAlone, BrowserSound, TradeSound, SignInSound, Trades,
         KnownSound, Known, StraysAtRisk
<1>3. \A t \in Tab : LogoutSound(t) /\ LeftSound(t)
  BY DEF WebInit, NoJob, LogoutSound, LeftSound
<1> QED BY <1>1, <1>2, <1>3 DEF WebInv

\* Every step keeps the invariant.
LEMMA WebStep == WebInv /\ [WebNext]_webVars => WebInv'
<1> SUFFICES ASSUME WebInv, [WebNext]_webVars PROVE WebInv'
  OBVIOUS
<1>1. ASSUME NEW t \in Tab,
             \/ Invalidate(t) \/ Bootstrap(t) \/ Hydrated(t) \/ Reload(t) \/ LoseRefresh(t)
             \/ Refreshed(t) \/ RefreshedLate(t) \/ RefreshRejected(t) \/ SubmitCode(t)
             \/ SaveSession(t) \/ SignInFails(t) \/ StartLogout(t) \/ LogoutAlone(t) \/ EndLogout(t)
      PROVE  WebTypeOK' /\ TokensSound' /\ \A u \in Tab : LeftSound(u)'
  BY <1>1, TabTypeStep, TokensTabStep, LeftTabStep
<1>2. ASSUME NEW t \in Tab, NEW c \in Caller,
             \/ Send(t, c) \/ Answered(t, c) \/ StartRefresh(t, c) \/ JoinRefresh(t, c)
             \/ NothingStored(t, c) \/ RetryRefused(t, c)
      PROVE  WebTypeOK' /\ TokensSound' /\ \A u \in Tab : LeftSound(u)'
  BY <1>2, CallTypeStep, TokensCallStep, LeftCallStep
<1>3. ASSUME \/ \E t \in Tab : \/ ServeRefresh(t) \/ ServeLogout(t)
                               \/ \E s \in Session : ServeSignIn(t, s)
             \/ \E s \in Session : RevokeRemotely(s)
             \/ \E k \in Token : ServeGivenUp(k)
      PROVE  WebTypeOK' /\ TokensSound' /\ \A u \in Tab : LeftSound(u)'
  BY <1>3, ServerTypeStep, TokensServerStep, LeftServerStep
<1>4. CASE WebNext
  <2>1. WebTypeOK' /\ TokensSound' /\ \A u \in Tab : LeftSound(u)'
    BY <1>1, <1>2, <1>3, <1>4 DEF WebNext
  <2>2. \A u \in Tab : LogoutSound(u)'
    BY <1>4, LogoutStep
  <2> QED BY <2>1, <2>2 DEF WebInv
<1>5. CASE UNCHANGED webVars
  <2>1. WebTypeOK'
    BY <1>5 DEF webVars, familyVars, memory, jobs, risk, WebInv, WebTypeOK, FamilyTypeOK
  <2>2. TokensSound' /\ \A t \in Tab : LogoutSound(t)' /\ LeftSound(t)'
    BY <1>5 DEF webVars, familyVars, memory, jobs, risk, WebInv, TokensSound, TradeAlone, BrowserSound,
                TradeSound, SignInSound, KnownSound, Known, StraysAtRisk, LogoutSound, LeftSound, Trades,
                Sound, AtRisk, StoredAccess
  <2> QED BY <2>1, <2>2 DEF WebInv
<1> QED BY <1>4, <1>5

\* The invariant of the browser, whatever the number of tabs, requests and sessions: the
\* types, which tokens the server still takes, and what of a session a tab has left may
\* still be on its way to it.
THEOREM WebInvariant == WebSpec => []WebInv
BY WebStart, WebStep, PTL DEF WebSpec

\* A session a tab has logged out of comes back neither into its memory nor into
\* localStorage, however late a refresh, a verification or a hydration of the tab ends
\* and however often the page is loaded again, unless another tab's refresh stores it.
THEOREM LogoutIsFinal == WebSpec => []LogoutFinal
<1>1. WebInv => LogoutFinal
  BY DEF WebInv, LeftSound, LogoutFinal
<1> QED BY <1>1, WebInvariant, PTL

\* Requests of a tab refused together never cost the user the session: the server takes a
\* refresh for a stolen one only after one was given up, its answer lost or still to come,
\* or after two tabs refreshed at once.
THEOREM OneTabIsHarmless == WebSpec => OneTabKeepsSession
<1>1. ASSUME WebInv, WebNext
      PROVE  \A s \in Session : family[s] = "open" /\ family'[s] = "revoked" =>
                s \in exposed \/ RevokeRemotely(s) \/ \E t \in Tab : ServeLogout(t)
  <2>1. SUFFICES ASSUME NEW s \in Session, family[s] = "open", family'[s] = "revoked"
                 PROVE  s \in exposed \/ RevokeRemotely(s) \/ \E t \in Tab : ServeLogout(t)
    OBVIOUS
  <2>2. ASSUME NEW k \in Token, Trade(k), Sound(k) PROVE s \in exposed
    <3>1. /\ \A u \in Session \ {k[1]} : family'[u] = family[u]
          /\ family' = family \/ k[2] # current[k[1]] \/ family[k[1]] # "open"
      BY <1>1, <2>2, Traded, WebTypes
    <3>2. k[1] = s
      BY <2>1, <3>1
    <3>3. k[2] # current[s]
      BY <2>1, <3>1, <3>2
    <3> QED BY <2>1, <2>2, <3>2, <3>3 DEF Sound, AtRisk
  <2>3. ASSUME NEW t \in Tab, ServeRefresh(t) PROVE s \in exposed
    <3>1. PICK k \in Token : k = refresh[t].token /\ Sound(k)
      BY <1>1, <2>3, TokensOut DEF ServeRefresh
    <3> QED BY <2>2, <2>3, <3>1 DEF ServeRefresh
  <2>4. ASSUME NEW k \in Token, ServeGivenUp(k) PROVE s \in exposed
    <3>1. family[k[1]] = "open" /\ k[1] \in exposed
      BY <1>1, <2>4 DEF ServeGivenUp, WebInv, TokensSound, StraysAtRisk
    <3>2. Sound(k)
      BY <3>1 DEF Sound, AtRisk
    <3> QED BY <2>2, <2>4, <3>2 DEF ServeGivenUp
  <2>5. ASSUME NEW u \in Session, RevokeRemotely(u) PROVE RevokeRemotely(s)
    <3>1. u = s
      BY <2>1, <2>5 DEF RevokeRemotely, Revoke
    <3> QED BY <2>5, <3>1
  <2>6. ASSUME NEW t \in Tab, NEW u \in Session, ServeSignIn(t, u) PROVE FALSE
    BY <1>1, <2>1, <2>6, WebTypes DEF ServeSignIn, Open
  <2>7. ASSUME NEW t \in Tab, NEW c \in Caller,
               \/ Send(t, c) \/ Answered(t, c) \/ StartRefresh(t, c) \/ JoinRefresh(t, c)
               \/ NothingStored(t, c) \/ RetryRefused(t, c)
        PROVE  FALSE
    BY <2>1, <2>7 DEF Send, Answered, StartRefresh, JoinRefresh, NothingStored, RetryRefused, familyVars
  <2>8. ASSUME NEW t \in Tab,
               \/ Invalidate(t) \/ Bootstrap(t) \/ Hydrated(t) \/ Reload(t) \/ LoseRefresh(t)
               \/ Refreshed(t) \/ RefreshedLate(t) \/ RefreshRejected(t) \/ SubmitCode(t)
               \/ SaveSession(t) \/ SignInFails(t) \/ StartLogout(t) \/ LogoutAlone(t) \/ EndLogout(t)
        PROVE  FALSE
    BY <2>1, <2>8 DEF Invalidate, Bootstrap, Hydrated, Reload, LoseRefresh, Refreshed, RefreshedLate,
         RefreshRejected, SubmitCode, SaveSession, SignInFails, StartLogout, LogoutAlone, EndLogout, familyVars
  <2> QED BY <1>1, <2>3, <2>4, <2>5, <2>6, <2>7, <2>8 DEF WebNext
<1>2. WebInv /\ [WebNext]_webVars =>
         [\A s \in Session : family[s] = "open" /\ family'[s] = "revoked" =>
             s \in exposed \/ RevokeRemotely(s) \/ \E t \in Tab : ServeLogout(t)]_webVars
  BY <1>1
<1> QED BY <1>2, WebInvariant, PTL DEF WebSpec, OneTabKeepsSession
=============================================================================
