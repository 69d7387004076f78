---------------------------- MODULE MobileSession ----------------------------
(***************************************************************************)
(* The signed-in session of the Android app and the server behind it:      *)
(* SessionManager, TokenAuthenticator, TokenStore and the screens that     *)
(* start a restoration, a sign-in or a logout.                             *)
(*                                                                         *)
(* Requests that fail with 401 refresh on their own OkHttp threads, one    *)
(* after another under refreshMutex; the screens' jobs run on the main     *)
(* thread without it.  The server is SessionFamily.  The network loses,    *)
(* delays and repeats; the process dies; SharedPreferences.apply writes to *)
(* disk some time later.  The access token and the refresh token of one    *)
(* reply are both named by the session and the position in its chain.      *)
(***************************************************************************)
EXTENDS SessionClient

CONSTANT Main   \* the job of the screens

ASSUME MobileAssumption == Main \notin Caller

VARIABLES
    access,   \* accessTokenInMemory
    store,    \* the refresh token in SharedPreferences
    disk,     \* what of it has reached the disk
    ui,       \* _sessionState, "out" while it is still unknown
    job       \* where each request and the screens' job stand, and their token

client == <<access, store, disk, ui>>
mobileVars == <<familyVars, client, job, stray, exposed>>

Process == Caller \cup {Main}

InMutex == {"load", "wire", "reply", "rejected", "save", "forget", "erase"}

MobileTypeOK ==
    /\ FamilyTypeOK
    /\ access \in Token \cup {None}
    /\ store \in Token \cup {None}
    /\ disk \in Token \cup {None}
    /\ ui \in {"out", "failed", "in"}
    /\ job \in [Process -> [pc : {"idle", "lock", "launch", "signin", "opened",
                                  "logout", "answered"} \cup InMutex,
                            token : Token \cup {None}]]
    /\ stray \subseteq Token
    /\ exposed \subseteq Session

Resting == [pc |-> "idle", token |-> None]

MobileInit ==
    /\ FamilyInit
    /\ access = None /\ store = None /\ disk = None /\ ui = "out"
    /\ job = [p \in Process |-> IF p = Main THEN [Resting EXCEPT !.pc = "launch"] ELSE Resting]
    /\ stray = {} /\ exposed = {}

Goto(p, pc) == job' = [job EXCEPT ![p].pc = pc]
Ends(p) == job' = [job EXCEPT ![p] = Resting]

\* Mutant: refreshes do not wait for each other.
NeverLocked == FALSE
Locked == \E c \in Caller : job[c].pc \in InMutex

\* A refresh of s whose new token has not reached the store.
Refreshing(p, s) == job[p].pc \in {"wire", "reply", "save"} /\ job[p].token[1] = s

\* authApi.refresh with the stored token.  The screens' job beside a request's
\* exposes the session.
SendRefresh(p) ==
    /\ job' = [job EXCEPT ![p] = [pc |-> "wire", token |-> store]]
    /\ exposed' = exposed \cup
         {s \in Session : s = store[1] /\ family[s] = "open"
                          /\ \E q \in Process \ {p} : Refreshing(q, s) /\ Main \in {p, q}}
-----------------------------------------------------------------------------
(* A request, and the 401 that makes it refresh *)

\* A request is sent with the access token of the moment, or none, and is
\* refused: the token has expired, or its session is gone.
Refused(c) ==
    /\ job[c].pc = "idle"
    /\ job[Main].pc \in {"idle", "logout"}
    /\ job' = [job EXCEPT ![c] = [pc |-> "lock", token |-> access]]
    /\ UNCHANGED <<familyVars, client, stray, exposed>>

\* refreshIfNeeded inside the mutex: another request may have refreshed already.
Lock(c) ==
    LET failed == job[c].token
    IN  /\ job[c].pc = "lock"
        /\ ~Locked
        /\ \/ /\ failed # None /\ access # None /\ access # failed
              /\ Ends(c)
           \/ /\ failed = None \/ access = None \/ access = failed
              /\ Goto(c, "load")
        /\ UNCHANGED <<familyVars, client, stray, exposed>>

Load(c) ==
    /\ job[c].pc = "load"
    /\ \/ store = None /\ Goto(c, "forget") /\ UNCHANGED exposed
       \/ store # None /\ SendRefresh(c)
    /\ UNCHANGED <<familyVars, client, stray>>
-----------------------------------------------------------------------------
(* The screens *)

\* The splash screen comes up again, or its retry is pressed.
Relaunch ==
    /\ job[Main].pc = "idle"
    /\ Goto(Main, "launch")
    /\ UNCHANGED <<familyVars, client, stray, exposed>>

\* restoreSession, which does not take the mutex.
Restore ==
    /\ job[Main].pc = "launch"
    /\ \/ store = None /\ ui' = "out" /\ Ends(Main) /\ UNCHANGED exposed
       \/ store # None /\ SendRefresh(Main) /\ UNCHANGED ui
    /\ UNCHANGED <<familyVars, access, store, disk, stray>>

SubmitSignIn ==
    /\ job[Main].pc = "idle"
    /\ ui = "out"
    /\ Goto(Main, "signin")
    /\ UNCHANGED <<familyVars, client, stray, exposed>>

\* The server verifies the code; the reply is on its way.
OpenSession(s) ==
    /\ job[Main].pc = "signin"
    /\ Open(s)
    /\ job' = [job EXCEPT ![Main] = [pc |-> "opened", token |-> <<s, 1>>]]
    /\ UNCHANGED <<client, stray, exposed>>

\* logout and logoutAll.  authApi is built on authOnlyOkHttpClient, which
\* carries no access token.
Logout ==
    /\ job[Main].pc = "idle"
    /\ ui = "in"
    /\ job' = [job EXCEPT ![Main] = [pc |-> "logout", token |-> store]]
    /\ UNCHANGED <<familyVars, client, stray, exposed>>

LogoutRefused ==
    /\ job[Main].pc = "logout"
    /\ Goto(Main, "answered")
    /\ UNCHANGED <<familyVars, client, stray, exposed>>
-----------------------------------------------------------------------------
(* The server and the network *)

Serve(p) ==
    /\ job[p].pc = "wire"
    /\ Trade(job[p].token)
    /\ job' = IF current' # current
              THEN [job EXCEPT ![p] = [pc |-> "reply",
                                       token |-> <<job[p].token[1], job[p].token[2] + 1>>]]
              ELSE [job EXCEPT ![p] = [pc |-> "rejected", token |-> None]]
    /\ Kept(stray, {})
    /\ UNCHANGED client

\* A request given up, or sent twice by the network, arrives late.
ServeStray(t) ==
    /\ t \in stray
    /\ Trade(t)
    /\ Kept(stray \ {t}, {})
    /\ UNCHANGED <<client, job>>

\* The session is ended from elsewhere.
RevokeElsewhere(s) ==
    /\ family[s] = "open"
    /\ Revoke({s})
    /\ Kept(stray, {})
    /\ UNCHANGED <<client, job>>

\* The requests of the processes P go without an answer.
Abandoned(P, lost) ==
    Kept(stray \cup {job[p].token : p \in {q \in P : job[q].pc = "wire"}},
         {s \in Session : s = lost[1] \/ \E p \in P : Refreshing(p, s)})

\* An IOException or a 5xx: nothing is learnt, and the stored session survives.
Timeout(p) ==
    /\ job[p].pc \in {"wire", "reply", "rejected", "signin", "opened", "logout", "answered"}
    /\ IF job[p].pc \in {"logout", "answered"} THEN Goto(p, "forget") ELSE Ends(p)
    /\ ui' = IF p = Main /\ job[p].pc \in {"wire", "reply", "rejected"} THEN "failed" ELSE ui
    /\ UNCHANGED <<familyVars, access, store, disk>>
    /\ Abandoned({p}, <<None>>)

\* The screen is left, as by an invitation link: its coroutine is cancelled.
Cancel ==
    /\ job[Main].pc \in {"wire", "reply", "rejected", "signin", "opened"}
    /\ Ends(Main)
    /\ UNCHANGED <<familyVars, client>>
    /\ Abandoned({Main}, <<None>>)
-----------------------------------------------------------------------------
(* applyAuthResult and clearSessionInternal: the memory is written, then the
   store and the state the screens show *)

Receive(p) ==
    /\ job[p].pc \in {"reply", "opened"}
    /\ access' = job[p].token
    /\ Goto(p, "save")
    /\ UNCHANGED <<familyVars, store, disk, ui, stray, exposed>>

\* Mutant: a refresh leaves the stored token of its session alone.
SaveFirst(p) ==
    /\ job[p].pc = "save"
    /\ store' = IF store = None THEN job[p].token ELSE store
    /\ ui' = "in"
    /\ Ends(p)
    /\ UNCHANGED <<familyVars, access, disk, stray, exposed>>

Save(p) ==
    /\ job[p].pc = "save"
    /\ store' = job[p].token
    /\ ui' = "in"
    /\ Ends(p)
    /\ UNCHANGED <<familyVars, access, disk, stray, exposed>>

Forget(p) ==
    /\ job[p].pc \in {"rejected", "answered", "forget"}
    /\ access' = None
    /\ job' = [job EXCEPT ![p] = [pc |-> "erase", token |-> None]]
    /\ UNCHANGED <<familyVars, store, disk, ui, stray, exposed>>

Erase(p) ==
    /\ job[p].pc = "erase"
    /\ store' = None
    /\ ui' = "out"
    /\ Ends(p)
    /\ UNCHANGED <<familyVars, access, disk, stray, exposed>>

\* SharedPreferences.apply: the disk follows in the background.
Flush ==
    /\ disk # store
    /\ disk' = store
    /\ UNCHANGED <<familyVars, access, store, ui, job, stray, exposed>>

\* The process dies and is started again.
Kill ==
    /\ UNCHANGED <<familyVars, disk>>
    /\ access' = None /\ store' = disk /\ ui' = "out"
    /\ job' = [p \in Process |-> IF p = Main THEN [Resting EXCEPT !.pc = "launch"] ELSE Resting]
    /\ Abandoned(Process, IF disk # store /\ disk # None THEN disk ELSE <<None>>)

Work(p) == Serve(p) \/ Timeout(p) \/ Receive(p) \/ Save(p) \/ Forget(p) \/ Erase(p)
CallerWork(c) == Lock(c) \/ Load(c) \/ Work(c)

MobileNext ==
    \/ \E c \in Caller : Refused(c) \/ CallerWork(c)
    \/ Work(Main) \/ Cancel \/ Relaunch \/ Restore \/ SubmitSignIn \/ Logout \/ LogoutRefused
    \/ \E s \in Session : OpenSession(s) \/ RevokeElsewhere(s)
    \/ \E t \in Token : ServeStray(t)
    \/ Flush \/ Kill

MobileSpec == MobileInit /\ [][MobileNext]_mobileVars
-----------------------------------------------------------------------------
(* Properties *)

\* Several requests refused at once never cost the user the session: unless it is
\* ended from elsewhere, the server revokes a session only if a refresh of it
\* went without its answer, died with the process or ran outside the mutex
\* (SessionManager.kt:87-98).
RefusalsKeepSession ==
    [][\A s \in Session : family[s] = "open" /\ family'[s] = "revoked" =>
         s \in exposed \/ RevokeElsewhere(s)]_mobileVars

\* Whatever logout, sign-in, restoration and refreshes write in between, the
\* stored token of a session that is still open is the one the server expects
\* next: the sign-in survives until a refresh of it goes astray.
StoredIsCurrent ==
    /\ MobileTypeOK
    /\ store # None =>
         LET s == store[1]
         IN  family[s] = "open" /\ s \notin exposed /\ (\A p \in Process : ~Refreshing(p, s))
               => store[2] = current[s]

\* docs/SECURITY.md:141: logout revokes the current session; so one whose
\* request was answered has (SessionManager.kt:125-133).
LogoutRevokes ==
    job[Main].pc = "answered" /\ job[Main].token # None =>
        family[job[Main].token[1]] = "revoked"
=============================================================================
