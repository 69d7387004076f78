----------------------------- MODULE WebSession -----------------------------
(***************************************************************************)
(* The signed-in session of the web client: the tabs of one browser, each  *)
(* with its in-memory auth store (store.ts), and the session they share in *)
(* localStorage (session.ts).  A request refused with 401 makes its tab    *)
(* trade the stored refresh token (kora-api.ts); a tab that signs out      *)
(* tells the others over a channel (channel.ts).  The server behind them   *)
(* is SessionFamily.                                                       *)
(*                                                                         *)
(* Everything between two awaits of a tab is one step; tabs run side by    *)
(* side, and answers and channel messages take any time.  A generation is  *)
(* only ever compared with the one a job started in, so of each job the    *)
(* model keeps whether the generation has moved since.  An access token is *)
(* named by its session, a refresh token by its session and the position   *)
(* in its chain; what is stored is named by its refresh token.             *)
(***************************************************************************)
EXTENDS SessionClient, FiniteSets

CONSTANTS
    Tab,
    MaxPending,  \* bound: channel messages on their way to one tab
    MaxStray,    \* bound: refresh requests given up that the server may still get
    MaxJobs      \* bound: jobs under way and refreshes given up, when another job starts

ASSUME WebAssumption ==
    /\ MaxPending \in Nat \ {0} /\ MaxJobs \in Nat /\ MaxStray \in Nat
    /\ None \notin Session

VARIABLES
    stored,    \* localStorage, kora.auth.session
    page,      \* the store of each tab, and whether it listens to the channel
    boot,      \* bootstrapPromise of each tab, and the session it has read
    refresh,   \* refreshPromise of each tab
    call,      \* the requests of each tab
    signin,    \* the verification of a code under way in each tab
    logout,    \* logoutKoraSession under way in each tab
    pending,   \* channel messages on their way to each tab
    late,      \* jobs of each tab whose generation is no longer the tab's
    left       \* history: sessions each tab has logged out of and no other tab restored

memory == <<stored, page>>
jobs == <<boot, refresh, call, signin, logout>>
risk == <<exposed, stray>>
webVars == <<familyVars, memory, jobs, pending, late, risk, left>>

Job == {"boot", "refresh", "signin"}

Unknown == [state |-> "UNKNOWN", access |-> None, listening |-> FALSE]
NoJob == [pc |-> "none", token |-> None]

WebTypeOK ==
    /\ FamilyTypeOK
    /\ stored \in Token \cup {None}
    /\ page \in [Tab -> [state : {"UNKNOWN", "AUTHENTICATED", "UNAUTHENTICATED"},
                         access : Session \cup {None}, listening : BOOLEAN]]
    /\ boot \in [Tab -> [pc : {"none", "read"}, token : Session \cup {None}]]
    /\ refresh \in [Tab -> [pc : {"none", "wire", "reply", "rejected"}, token : Token \cup {None}]]
    /\ call \in [Tab -> [Caller -> [pc : {"none", "sent", "waiting", "retry"},
                                    token : Session \cup {None}]]]
    /\ signin \in [Tab -> [pc : {"none", "wire", "reply"}, token : Token \cup {None}]]
    /\ logout \in [Tab -> [pc : {"none", "wire"}, token : Session \cup {None}]]
    /\ pending \in [Tab -> 0 .. MaxPending]
    /\ late \in [Tab -> SUBSET Job]
    /\ exposed \subseteq Session /\ stray \subseteq Token
    /\ left \in [Tab -> SUBSET Session]

WebInit ==
    /\ FamilyInit
    /\ stored = None
    /\ page = [t \in Tab |-> Unknown]
    /\ boot = [t \in Tab |-> NoJob]
    /\ refresh = [t \in Tab |-> NoJob]
    /\ call = [t \in Tab |-> [c \in Caller |-> NoJob]]
    /\ signin = [t \in Tab |-> NoJob]
    /\ logout = [t \in Tab |-> NoJob]
    /\ pending = [t \in Tab |-> 0]
    /\ late = [t \in Tab |-> {}]
    /\ exposed = {} /\ stray = {}
    /\ left = [t \in Tab |-> {}]
-----------------------------------------------------------------------------
(* The store, the stored session and the channel                           *)

Started(t) == {j \in Job : \/ j = "boot" /\ boot[t] # NoJob
                           \/ j = "refresh" /\ refresh[t] # NoJob
                           \/ j = "signin" /\ signin[t] # NoJob}

\* A change without an expected generation advances the tab's generation.
Advance(t) == late' = [late EXCEPT ![t] = Started(t)']

Finish(t, job) == late' = [late EXCEPT ![t] = @ \ {job}]

\* Mutant: results are committed whatever became of the tab.
AlwaysCurrent(t, job) == job \in Job

\* isCurrentGeneration, for the generation the job started in.
IsCurrent(t, job) == job \notin late[t]

Authenticate(t, session) ==
    page' = [page EXCEPT ![t].state = "AUTHENTICATED", ![t].access = session]

ClearAuthenticated(t) ==
    /\ page' = [page EXCEPT ![t].state = "UNAUTHENTICATED", ![t].access = None]
    /\ Advance(t)

Broadcast(t) ==
    pending' = [u \in Tab |->
        IF u # t /\ page[u].listening /\ pending[u] < MaxPending
        THEN pending[u] + 1 ELSE pending[u]]

\* clearKoraSession: the memory, the stored session, a message to the others.
ClearKoraSession(t) == ClearAuthenticated(t) /\ stored' = None /\ Broadcast(t)

Keep == UNCHANGED <<memory, pending, late>>

\* A refresh is under way for a request, and is not counted beside it.
Room == Cardinality({t \in Tab : boot[t] # NoJob}) + Cardinality({t \in Tab : signin[t] # NoJob})
          + Cardinality({t \in Tab : logout[t] # NoJob})
          + Cardinality({w \in Tab \X Caller : call[w[1]][w[2]] # NoJob})
          + Cardinality(stray) < MaxJobs

\* handleCrossTabInvalidation, for whatever message arrives.
Invalidate(t) ==
    /\ pending[t] > 0
    /\ pending' = [pending EXCEPT ![t] = @ - 1]
    /\ stored' = None
    /\ UNCHANGED <<familyVars, jobs, risk, left>>
    /\ ClearAuthenticated(t)

\* readLegacyKoraSession, as far as the memory takes it over.
StoredAccess == IF stored = None THEN None ELSE stored[1]

\* WorkspaceShell: bootstrapAuth listens from now on; in a tab that does not know
\* yet, and is not about to, it reads the stored session ...
Bootstrap(t) ==
    LET reads == page[t].state = "UNKNOWN" /\ boot[t] = NoJob
    IN  /\ reads \/ ~page[t].listening
        /\ page' = [page EXCEPT ![t].listening = TRUE]
        /\ reads => Room
        /\ boot' = IF reads THEN [boot EXCEPT ![t] = [pc |-> "read", token |-> StoredAccess]] ELSE boot
        /\ UNCHANGED <<familyVars, stored, refresh, call, signin, logout, pending, late, risk, left>>

\* ... and after an await takes it over, if the generation is still the same.  Whatever
\* else the tab does may come in between, which is more than one microtask lets pass.
Hydrated(t) ==
    /\ boot[t].pc = "read"
    /\ page' = [page EXCEPT ![t] =
          IF ~IsCurrent(t, "boot") THEN @
          ELSE [@ EXCEPT !.state = IF boot[t].token = None THEN "UNAUTHENTICATED" ELSE "AUTHENTICATED",
                         !.access = boot[t].token]]
    /\ boot' = [boot EXCEPT ![t] = NoJob]
    /\ Finish(t, "boot")
    /\ UNCHANGED <<familyVars, stored, refresh, call, signin, logout, pending, risk, left>>

\* The refresh of t goes without an answer; the server may get its request late.
Abandon(t) ==
    LET k == refresh[t].token
    IN  /\ refresh[t].pc = "wire" => Cardinality(stray) < MaxStray
        /\ Kept(IF refresh[t].pc = "wire" THEN stray \cup {k} ELSE stray,
                IF refresh[t].pc \in {"wire", "reply"} THEN {k[1]} ELSE {})

\* The page is loaded again, as every logout does at its end: what was on its way
\* to the tab finds nobody.  A verification served after that opens a session that
\* nobody holds; a logout served after that is RevokeRemotely.
Reload(t) ==
    /\ page' = [page EXCEPT ![t] = Unknown]
    /\ boot' = [boot EXCEPT ![t] = NoJob]
    /\ refresh' = [refresh EXCEPT ![t] = NoJob]
    /\ call' = [call EXCEPT ![t] = [c \in Caller |-> NoJob]]
    /\ signin' = [signin EXCEPT ![t] = NoJob]
    /\ logout' = [logout EXCEPT ![t] = NoJob]
    /\ pending' = [pending EXCEPT ![t] = 0]
    /\ late' = [late EXCEPT ![t] = {}]
    /\ UNCHANGED <<familyVars, stored, left>>
    /\ Abandon(t)
-----------------------------------------------------------------------------
(* A request, and the 401 that makes its tab refresh                       *)

\* getKoraAccessToken: the memory, and the stored session before it is known.
AccessToken(t) ==
    IF page[t].access # None \/ page[t].state # "UNKNOWN" THEN page[t].access ELSE StoredAccess

Hydrate(t) == IF AccessToken(t) = page[t].access THEN UNCHANGED page
              ELSE Authenticate(t, AccessToken(t))

Becomes(t, c, pc, token) == call' = [call EXCEPT ![t][c] = [pc |-> pc, token |-> token]]

Send(t, c) ==
    /\ call[t][c] = NoJob
    /\ AccessToken(t) # None
    /\ Room
    /\ Hydrate(t)
    /\ Becomes(t, c, "sent", None)
    /\ UNCHANGED <<familyVars, stored, boot, refresh, signin, logout, pending, late, risk, left>>

Answered(t, c) ==
    /\ call[t][c].pc \in {"sent", "retry"}
    /\ call' = [call EXCEPT ![t][c] = NoJob]
    /\ Keep
    /\ UNCHANGED <<familyVars, boot, refresh, signin, logout, risk, left>>

InFlight(t) == refresh[t] # NoJob

\* Refreshes of s in other tabs whose answer is still out.
RefreshedElsewhere(t, s) ==
    \E u \in Tab \ {t} : refresh[u].pc \in {"wire", "reply"} /\ refresh[u].token[1] = s

\* refreshKoraSession: one refresh per tab, whose result all its callers await.
StartRefresh(t, c) ==
    /\ call[t][c].pc = "sent"
    /\ ~InFlight(t)
    /\ stored # None
    /\ refresh' = [refresh EXCEPT ![t] = [pc |-> "wire", token |-> stored]]
    /\ Becomes(t, c, "waiting", None)
    /\ UNCHANGED <<familyVars, memory, boot, signin, logout, pending, late, left>>
    /\ Kept(stray, {s \in Session : s = stored[1] /\ RefreshedElsewhere(t, s)})

JoinRefresh(t, c) ==
    /\ call[t][c].pc = "sent"
    /\ InFlight(t)
    /\ Becomes(t, c, "waiting", None)
    /\ Keep
    /\ UNCHANGED <<familyVars, boot, refresh, signin, logout, risk, left>>

NothingStored(t, c) ==
    /\ call[t][c].pc = "sent"
    /\ ~InFlight(t)
    /\ stored = None
    /\ call' = [call EXCEPT ![t][c] = NoJob]
    /\ UNCHANGED <<familyVars, boot, refresh, signin, logout, risk, left>>
    /\ ClearKoraSession(t)

\* The server trades the token, or takes it for a stolen one.
ServeRefresh(t) ==
    /\ refresh[t].pc = "wire"
    /\ Trade(refresh[t].token)
    /\ refresh' = IF current' # current
                  THEN [refresh EXCEPT ![t] = [pc |-> "reply",
                          token |-> <<refresh[t].token[1], refresh[t].token[2] + 1>>]]
                  ELSE [refresh EXCEPT ![t] = [pc |-> "rejected", token |-> None]]
    /\ Keep
    /\ UNCHANGED <<boot, call, signin, logout, left>>
    /\ Kept(stray, {})

\* A request given up by its tab arrives late.
ServeGivenUp(k) ==
    /\ k \in stray
    /\ Trade(k)
    /\ Keep
    /\ UNCHANGED <<jobs, left>>
    /\ Kept(stray \ {k}, {})

\* The refresh of t is over; the requests that awaited it go on with `token'.
Settle(t, pc, token) ==
    /\ refresh' = [refresh EXCEPT ![t] = NoJob]
    /\ call' = [call EXCEPT ![t] = [c \in Caller |->
          IF call[t][c].pc # "waiting" THEN call[t][c]
          ELSE [pc |-> pc, token |-> token]]]

\* A network failure or a 5xx: nothing is cleared, and nothing is known of the request.
LoseRefresh(t) ==
    /\ refresh[t].pc \in {"wire", "reply", "rejected"}
    /\ Settle(t, "none", None)
    /\ Finish(t, "refresh")
    /\ UNCHANGED <<familyVars, memory, boot, signin, logout, pending, left>>
    /\ Abandon(t)

\* Mutant: the new session is mirrored into memory and not stored.
RefreshedUnsaved(t) ==
    /\ refresh[t].pc = "reply"
    /\ IsCurrent(t, "refresh")
    /\ Authenticate(t, refresh[t].token[1])
    /\ Settle(t, "retry", refresh[t].token[1])
    /\ Finish(t, "refresh")
    /\ UNCHANGED <<familyVars, stored, boot, signin, logout, pending, risk, left>>

\* mirrorKoraSession and persistKoraSession, if the generation is still the same.  The
\* session is back for every other tab that has logged out of it.
Refreshed(t) ==
    /\ refresh[t].pc = "reply"
    /\ IsCurrent(t, "refresh")
    /\ Authenticate(t, refresh[t].token[1])
    /\ stored' = refresh[t].token
    /\ left' = [u \in Tab |-> IF u = t THEN left[u] ELSE left[u] \ {refresh[t].token[1]}]
    /\ Settle(t, "retry", refresh[t].token[1])
    /\ Finish(t, "refresh")
    /\ UNCHANGED <<familyVars, boot, signin, logout, pending, risk>>

\* The session changed while it was being refreshed: the answer is dropped.
RefreshedLate(t) ==
    /\ refresh[t].pc = "reply"
    /\ ~IsCurrent(t, "refresh")
    /\ Settle(t, "none", None)
    /\ Finish(t, "refresh")
    /\ UNCHANGED <<familyVars, memory, boot, signin, logout, pending, left>>
    /\ Abandon(t)

\* A 401 ends the session of the tab, whatever the tab's session is by now.
RefreshRejected(t) ==
    /\ refresh[t].pc = "rejected"
    /\ Settle(t, "none", None)
    /\ UNCHANGED <<familyVars, boot, signin, logout, risk, left>>
    /\ ClearKoraSession(t)

\* The request is refused again, with the access token just issued.
RetryRefused(t, c) ==
    /\ call[t][c].pc = "retry"
    /\ family[call[t][c].token] = "revoked"
    /\ call' = [call EXCEPT ![t][c] = NoJob]
    /\ UNCHANGED <<familyVars, boot, refresh, signin, logout, risk, left>>
    /\ ClearKoraSession(t)
-----------------------------------------------------------------------------
(* Signing in and out                                                      *)

\* submitVerify
SubmitCode(t) ==
    /\ signin[t] = NoJob
    /\ Room
    /\ signin' = [signin EXCEPT ![t].pc = "wire"]
    /\ Keep
    /\ UNCHANGED <<familyVars, boot, refresh, call, logout, risk, left>>

ServeSignIn(t, s) ==
    /\ signin[t].pc = "wire"
    /\ Open(s)
    /\ signin' = [signin EXCEPT ![t] = [pc |-> "reply", token |-> <<s, 1>>]]
    /\ Keep
    /\ UNCHANGED <<boot, refresh, call, logout, risk, left>>

\* saveKoraSession: a newly completed login advances the generation.
SaveSession(t) ==
    /\ signin[t].pc = "reply"
    /\ IsCurrent(t, "signin")
    /\ Authenticate(t, signin[t].token[1])
    /\ stored' = signin[t].token
    /\ signin' = [signin EXCEPT ![t] = NoJob]
    /\ UNCHANGED <<familyVars, boot, refresh, call, logout, pending, risk, left>>
    /\ Advance(t)

\* The code is wrong, the answer is lost, or the session changed meanwhile.
SignInFails(t) ==
    /\ signin[t] # NoJob
    /\ signin' = [signin EXCEPT ![t] = NoJob]
    /\ Finish(t, "signin")
    /\ UNCHANGED <<familyVars, memory, boot, refresh, call, logout, pending, risk, left>>

\* logoutKoraSession sends the access token of the moment, and refreshes none;
\* a tab without one signs out at once.
StartLogout(t) ==
    /\ logout[t] = NoJob
    /\ AccessToken(t) # None
    /\ Room
    /\ Hydrate(t)
    /\ logout' = [logout EXCEPT ![t] = [pc |-> "wire", token |-> AccessToken(t)]]
    /\ UNCHANGED <<familyVars, stored, boot, refresh, call, signin, pending, late, risk, left>>

LogoutAlone(t) ==
    /\ logout[t] = NoJob
    /\ AccessToken(t) = None
    /\ UNCHANGED <<familyVars, jobs, risk, left>>
    /\ ClearKoraSession(t)

ServeLogout(t) ==
    /\ logout[t].pc = "wire"
    /\ family[logout[t].token] = "open"
    /\ Revoke({logout[t].token})
    /\ Keep
    /\ UNCHANGED <<jobs, left>>
    /\ Kept(stray, {})

\* Answered, refused or lost: the tab signs out.
EndLogout(t) ==
    /\ logout[t] # NoJob
    /\ logout' = [logout EXCEPT ![t] = NoJob]
    /\ left' = [left EXCEPT ![t] = @ \cup {logout[t].token}]
    /\ UNCHANGED <<familyVars, boot, refresh, call, signin, risk>>
    /\ ClearKoraSession(t)

\* The session is ended from another device.
RevokeRemotely(s) ==
    /\ family[s] = "open"
    /\ Revoke({s})
    /\ Keep
    /\ UNCHANGED <<jobs, left>>
    /\ Kept(stray, {})

WebNext ==
    \/ \E t \in Tab :
          \/ Invalidate(t) \/ Bootstrap(t) \/ Hydrated(t) \/ Reload(t)
          \/ ServeRefresh(t) \/ LoseRefresh(t) \/ Refreshed(t) \/ RefreshedLate(t)
          \/ RefreshRejected(t)
          \/ SubmitCode(t) \/ SaveSession(t) \/ SignInFails(t)
          \/ StartLogout(t) \/ LogoutAlone(t) \/ ServeLogout(t) \/ EndLogout(t)
          \/ \E s \in Session : ServeSignIn(t, s)
          \/ \E c \in Caller :
                \/ Send(t, c) \/ Answered(t, c) \/ StartRefresh(t, c) \/ JoinRefresh(t, c)
                \/ NothingStored(t, c) \/ RetryRefused(t, c)
    \/ \E s \in Session : RevokeRemotely(s)
    \/ \E k \in Token : ServeGivenUp(k)

WebSpec == WebInit /\ [][WebNext]_webVars
-----------------------------------------------------------------------------
(* Properties                                                              *)

\* Nothing of its own brings a session a tab has logged out of back, neither into its
\* memory nor into localStorage, whether the server heard of the logout or not: not the
\* late answer of a refresh, of a verification or of a hydration, and not the page loaded
\* again.  Only the refresh of another tab, which the message of the logout has not
\* reached yet, can store it again (kora-api.ts:176-185).
LogoutFinal ==
    /\ WebTypeOK
    /\ \A t \in Tab : {StoredAccess, page[t].access} \cap left[t] = {}

\* Many requests of a tab refused at once never cost the user the session: the
\* server takes a refresh token for a stolen one only after a refresh was left without
\* its answer or if two tabs refreshed the session at once.
OneTabKeepsSession ==
    [][\A s \in Session : family[s] = "open" /\ family'[s] = "revoked" =>
          s \in exposed \/ RevokeRemotely(s) \/ \E t \in Tab : ServeLogout(t)]_webVars

\* What the documents say and the code does not do.

\* docs/HTTPONLY_AUTH_MIGRATION.md:67-69: a late refresh cannot restore a session
\* after the user has logged out (kora-api.ts:176-185).
LateRefreshRestoresNothing ==
    [][\A t, u \in Tab : Refreshed(t) => refresh[t].token[1] \notin left[u]]_webVars

\* A tab goes on with the account it signed in to: nothing but a new sign-in gives
\* it another session (kora-api.ts:108, where another tab's may be stored).
AccountKept ==
    [][\A t \in Tab : LET old == page[t].access new == page'[t].access IN
          old # None /\ new # None /\ new # old => SaveSession(t)]_webVars
=============================================================================
