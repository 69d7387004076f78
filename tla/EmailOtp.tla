------------------------------ MODULE EmailOtp ------------------------------
(***************************************************************************)
(* Sign-in by a one-time code sent by email.  Asking for a code checks the *)
(* rate limits, withdraws the code in use, creates the next and sends it;  *)
(* submitting one checks it, consumes it, finds or creates the user and    *)
(* opens a session.  None of it runs in a transaction: every step below is *)
(* one statement of its own, and the requests of all API replicas          *)
(* interleave between them.                                                *)
(*                                                                         *)
(* The limit per address and hour stands for the limit per IP too, which   *)
(* has the same form; the hour does not end.  Users are created here only, *)
(* with a verified address.                                                *)
(***************************************************************************)
EXTENDS Naturals, FiniteSets

CONSTANTS
    Email,         \* normalized addresses
    Challenge,     \* challenge ids
    Request,       \* slots for the requests in progress
    MaxAttempts,   \* OTP_MAX_ATTEMPTS
    EmailLimit,    \* OTP_MAX_REQUESTS_PER_EMAIL_PER_HOUR
    None           \* nothing found

ASSUME OtpAssumption ==
    /\ MaxAttempts \in Nat \ {0}
    /\ EmailLimit \in Nat
    /\ None \notin Challenge \cup Email
    /\ IsFiniteSet(Challenge) /\ IsFiniteSet(Request) /\ Request # {}

VARIABLES
    challenge,  \* table email_otp_challenges
    cooling,    \* addresses whose last challenge is younger than the cooldown
    user,       \* table users: whether the address has one
    identity,   \* table auth_identities, likewise
    signIns,    \* sessions opened with each challenge
    req         \* each request in progress

vars == <<challenge, cooling, user, identity, signIns, req>>

Idle == [pc |-> "idle", email |-> None, challenge |-> None, seen |-> None]

\* `delivered': whether the person holds the code; `lapsed': expiresAt has passed.
Absent == [email |-> None, status |-> "none", attempts |-> 0,
           delivered |-> FALSE, lapsed |-> FALSE]

CodesOf(e) == {c \in Challenge : challenge[c].email = e}
Active(c) == challenge[c].status = "ACTIVE"

TypeOK ==
    /\ challenge \in [Challenge ->
         [email : Email \cup {None}, attempts : Nat, delivered : BOOLEAN, lapsed : BOOLEAN,
          status : {"none", "ACTIVE", "CONSUMED", "INVALIDATED", "LOCKED"}]]
    /\ cooling \subseteq Email
    /\ user \in [Email -> BOOLEAN]
    /\ identity \in [Email -> BOOLEAN]
    /\ signIns \in [Challenge -> Nat]
    /\ req \in [Request ->
         [pc : {"idle", "find", "replace", "create", "send", "consume", "user", "save",
                "identity", "session", "wrong", "lock"},
          email : Email \cup {None}, challenge : Challenge \cup {None},
          seen : Challenge \cup {None} \cup BOOLEAN]]

Init ==
    /\ challenge = [c \in Challenge |-> Absent]
    /\ cooling = {}
    /\ user \in [Email -> BOOLEAN]
    /\ identity = user
    /\ signIns = [c \in Challenge |-> 0]
    /\ req = [r \in Request |-> Idle]
-----------------------------------------------------------------------------
(* Asking for a code *)

\* Mutant: only the cooldown limits the requests.
AskCoolly(r, e) ==
    /\ req[r].pc = "idle"
    /\ e \notin cooling
    /\ req' = [req EXCEPT ![r] = [Idle EXCEPT !.pc = "find", !.email = e]]
    /\ UNCHANGED <<challenge, cooling, user, identity, signIns>>

\* enforceRequestRateLimits: counted now, created three statements later.
AskCode(r, e) ==
    /\ req[r].pc = "idle"
    /\ e \notin cooling
    /\ Cardinality(CodesOf(e)) < EmailLimit
    /\ req' = [req EXCEPT ![r] = [Idle EXCEPT !.pc = "find", !.email = e]]
    /\ UNCHANGED <<challenge, cooling, user, identity, signIns>>

\* findFirst of the active challenges of the address: any of them.
FindActive(r) ==
    LET active == {c \in CodesOf(req[r].email) : Active(c)}
    IN  /\ req[r].pc = "find"
        /\ \/ /\ active = {}
              /\ req' = [req EXCEPT ![r].pc = "create"]
           \/ \E c \in active :
                req' = [req EXCEPT ![r].pc = "replace", ![r].seen = c]
        /\ UNCHANGED <<challenge, cooling, user, identity, signIns>>

\* By its id, whatever became of it since.
Replace(r) ==
    /\ req[r].pc = "replace"
    /\ challenge' = [challenge EXCEPT ![req[r].seen].status = "INVALIDATED"]
    /\ req' = [req EXCEPT ![r].pc = "create"]
    /\ UNCHANGED <<cooling, user, identity, signIns>>

Create(r, c) ==
    /\ req[r].pc = "create"
    /\ challenge[c] = Absent
    /\ challenge' = [challenge EXCEPT ![c].email = req[r].email, ![c].status = "ACTIVE"]
    /\ cooling' = cooling \cup {req[r].email}
    /\ req' = [req EXCEPT ![r].pc = "send", ![r].challenge = c]
    /\ UNCHANGED <<user, identity, signIns>>

SendSucceeds(r) ==
    /\ req[r].pc = "send"
    /\ challenge' = [challenge EXCEPT ![req[r].challenge].delivered = TRUE]
    /\ req' = [req EXCEPT ![r] = Idle]
    /\ UNCHANGED <<cooling, user, identity, signIns>>

\* The sender reports a failure, of a message that may have left all the same:
\* the challenge is invalidated unless it is no longer active.
SendFails(r) ==
    LET c == req[r].challenge
    IN  /\ req[r].pc = "send"
        /\ \E arrived \in BOOLEAN :
             challenge' = [challenge EXCEPT
               ![c].delivered = arrived,
               ![c].status = IF @ = "ACTIVE" THEN "INVALIDATED" ELSE @]
        /\ req' = [req EXCEPT ![r] = Idle]
        /\ UNCHANGED <<cooling, user, identity, signIns>>

\* Time: the cooldown of an address ends; a challenge expires.
CooldownEnds(e) ==
    /\ e \in cooling
    /\ cooling' = cooling \ {e}
    /\ UNCHANGED <<challenge, user, identity, signIns, req>>

Expire(c) ==
    /\ Active(c)
    /\ ~challenge[c].lapsed
    /\ challenge' = [challenge EXCEPT ![c].lapsed = TRUE]
    /\ UNCHANGED <<cooling, user, identity, signIns, req>>
-----------------------------------------------------------------------------
(* Submitting a code *)

\* verifyChallenge reads the challenge once; what it read decides the rest.
Submit(r, c, pc) ==
    /\ req[r].pc = "idle"
    /\ Active(c)
    /\ ~challenge[c].lapsed
    /\ req' = [req EXCEPT ![r] = [Idle EXCEPT !.pc = pc, !.challenge = c,
                                              !.email = challenge[c].email]]
    /\ UNCHANGED <<challenge, cooling, user, identity, signIns>>

SubmitRight(r, c) == challenge[c].delivered /\ Submit(r, c, "consume")
SubmitWrong(r, c) == Submit(r, c, "wrong")

\* Mutant: the update consumes the challenge by its id alone.
ConsumeById(r) ==
    /\ req[r].pc = "consume"
    /\ challenge' = [challenge EXCEPT ![req[r].challenge].status = "CONSUMED"]
    /\ req' = [req EXCEPT ![r].pc = "user"]
    /\ UNCHANGED <<cooling, user, identity, signIns>>

\* The update guarded by status = ACTIVE; matching no row, it loses the race.
Consume(r) ==
    LET c == req[r].challenge
    IN  /\ req[r].pc = "consume"
        /\ \/ /\ Active(c)
              /\ challenge' = [challenge EXCEPT ![c].status = "CONSUMED"]
              /\ req' = [req EXCEPT ![r].pc = "user"]
           \/ /\ ~Active(c)
              /\ req' = [req EXCEPT ![r] = Idle]
              /\ UNCHANGED challenge
        /\ UNCHANGED <<cooling, user, identity, signIns>>

FindUser(r) ==
    /\ req[r].pc = "user"
    /\ req' = [req EXCEPT ![r].pc = "save", ![r].seen = user[req[r].email]]
    /\ UNCHANGED <<challenge, cooling, user, identity, signIns>>

\* A user created by another request in between breaks the unique address: the
\* request answers 500 and the code is spent.
SaveUser(r) ==
    LET e == req[r].email
        fails == ~req[r].seen /\ user[e]
    IN  /\ req[r].pc = "save"
        /\ user' = [user EXCEPT ![e] = TRUE]
        /\ req' = [req EXCEPT ![r] = IF fails THEN Idle ELSE [@ EXCEPT !.pc = "identity"]]
        /\ UNCHANGED <<challenge, cooling, identity, signIns>>

SaveIdentity(r) ==
    /\ req[r].pc = "identity"
    /\ identity' = [identity EXCEPT ![req[r].email] = TRUE]
    /\ req' = [req EXCEPT ![r].pc = "session"]
    /\ UNCHANGED <<challenge, cooling, user, signIns>>

\* issueSessionForVerifiedUser.
IssueSession(r) ==
    /\ req[r].pc = "session"
    /\ signIns' = [signIns EXCEPT ![req[r].challenge] = @ + 1]
    /\ req' = [req EXCEPT ![r] = Idle]
    /\ UNCHANGED <<challenge, cooling, user, identity>>

\* recordFailedAttempt: the attempt is counted, then the challenge is locked if
\* the count is reached and it is still active.
CountAttempt(r) ==
    LET c == req[r].challenge
        full == challenge[c].attempts + 1 >= MaxAttempts
    IN  /\ req[r].pc = "wrong"
        /\ challenge' = [challenge EXCEPT ![c].attempts = @ + 1]
        /\ req' = [req EXCEPT ![r] = IF full THEN [@ EXCEPT !.pc = "lock"] ELSE Idle]
        /\ UNCHANGED <<cooling, user, identity, signIns>>

LockChallenge(r) ==
    LET c == req[r].challenge
    IN  /\ req[r].pc = "lock"
        /\ challenge' = [challenge EXCEPT ![c].status = IF @ = "ACTIVE" THEN "LOCKED" ELSE @]
        /\ req' = [req EXCEPT ![r] = Idle]
        /\ UNCHANGED <<cooling, user, identity, signIns>>
-----------------------------------------------------------------------------
Step(r) ==
    \/ FindActive(r) \/ Replace(r) \/ SendSucceeds(r) \/ SendFails(r)
    \/ \E c \in Challenge : Create(r, c)
    \/ Consume(r) \/ FindUser(r) \/ SaveUser(r) \/ SaveIdentity(r) \/ IssueSession(r)
    \/ CountAttempt(r) \/ LockChallenge(r)

Next ==
    \/ \E e \in Email : CooldownEnds(e) \/ \E r \in Request : AskCode(r, e)
    \/ \E c \in Challenge : Expire(c)
                         \/ \E r \in Request : SubmitRight(r, c) \/ SubmitWrong(r, c)
    \/ \E r \in Request : Step(r)

Spec == Init /\ [][Next]_vars
-----------------------------------------------------------------------------
(* Properties *)

At(pc, c) == {r \in Request : req[r].pc = pc /\ req[r].challenge = c}

\* One code signs in at most once, although its consumption, the user and the
\* session are separate statements and a resend may overwrite the status of a
\* consumed challenge (email-otp.service.ts:94-100 and :371-375).
CodeUsedOnce ==
    /\ TypeOK
    /\ \A c \in Challenge : signIns[c] <= 1

\* A code takes the configured number of wrong attempts and at most one more for
\* each other request under way; and once the count is reached it is locked, or
\* a request is about to lock it (email-otp.service.ts:499-513).
AttemptsBounded ==
    \A c \in Challenge :
        /\ challenge[c].attempts < MaxAttempts + Cardinality(Request)
        /\ challenge[c].attempts >= MaxAttempts /\ Active(c) => At("lock", c) # {}

\* The limits are counted before the challenge is created, so concurrent
\* requests may overshoot them: by one challenge each (email-otp.service.ts:86).
CodesBounded ==
    \A e \in Email : Cardinality(CodesOf(e)) < EmailLimit + Cardinality(Request)

\* What the limits on codes and on attempts mean under concurrency: no request
\* passes them by more than the requests it raced (email-otp.service.ts:86, :499).
LimitsHold == AttemptsBounded /\ CodesBounded

\* Requesting a new code invalidates the one in use, "a resend, not a second
\* live code" (email-otp.service.ts:88-89).
OneLiveCode == \A e \in Email : Cardinality({c \in CodesOf(e) : Active(c)}) <= 1
=============================================================================
