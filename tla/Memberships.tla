----------------------------- MODULE Memberships -----------------------------
(***************************************************************************)
(* How a user becomes a member of an organization: by onboarding it, or by *)
(* accepting a staff invitation.  The plan limits the seats: active        *)
(* members and invitations that may still be accepted.  Creating an        *)
(* invitation counts both under a lock of the subscription row, which no   *)
(* other operation takes; sending its email comes after, and its outcome   *)
(* is written whatever became of the invitation meanwhile.                 *)
(*                                                                         *)
(* An organization is named by its slug, which stands for the whole of the *)
(* onboarding request.  An invitation goes to a user's verified address or *)
(* to a phone number, and then whoever holds its token may accept.  Branch *)
(* and staff profile follow the membership in the same transaction and are *)
(* left out.  Nothing suspends or removes a member yet.                    *)
(*                                                                         *)
(* The names are chosen apart from those of module EmailOtp, so that the   *)
(* theorems about who gets in (AccessProofs) can be about both.            *)
(***************************************************************************)
EXTENDS Naturals, Sequences, FiniteSets

CONSTANTS
    Organization,    \* slugs
    User,            \* accounts, each with a verified address
    Founder,         \* bound: the users who onboard an organization
    Key,             \* idempotency keys of onboarding requests
    Role,            \* roles an invitation may grant; never the owner's
    Owner,           \* the owner's role
    Task,            \* slots for the requests in progress
    StaffMax,        \* the plan's staff.max
    MaxInvitations,  \* bound: invitations created
    MaxToken,        \* bound: resends, each with a token of its own
    Nobody           \* a phone number, or nobody

ASSUME MembershipsAssumption ==
    /\ {StaffMax, MaxInvitations, MaxToken} \subseteq Nat
    /\ StaffMax > 0 /\ MaxToken > 0
    /\ Owner \notin Role
    /\ Founder \subseteq User
    /\ Nobody \notin User \cup Organization

VARIABLES
    owner,       \* table organizations: created_by_user_id, Nobody while there is none
    key,         \* table organization_idempotency_keys: the organization of a user's key
    member,      \* tables organization_memberships and membership_roles: roles held
    invitation,  \* table staff_invitations
    task,        \* each request in progress
    unseen       \* seats of each organization taken past the check of the limit

membershipVars == <<owner, key, member, invitation, task, unseen>>

Row == [organization : Organization, target : User \cup {Nobody}, role : Role,
        status : {"PENDING", "ACCEPTED", "DECLINED", "REVOKED"}, expired : BOOLEAN,
        delivery : {"PENDING", "DELIVERED", "FAILED"}, retryable : BOOLEAN,
        token : 1 .. MaxToken]

NoTask == [pc |-> "idle"]

MembershipsTypeOK ==
    /\ owner \in [Organization -> User \cup {Nobody}]
    /\ key \in [User \X Key -> Organization \cup {Nobody}]
    /\ member \in [Organization -> [User -> SUBSET (Role \cup {Owner})]]
    /\ invitation \in Seq(Row)
    /\ unseen \in [Organization -> Nat]
    /\ \A r \in Task : task[r].pc \in {"idle", "onboard", "count", "insert", "attempt",
                                        "send", "lookup", "join", "decide"}

MembershipsInit ==
    /\ owner = [o \in Organization |-> Nobody]
    /\ key = [uk \in User \X Key |-> Nobody]
    /\ member = [o \in Organization |-> [u \in User |-> {}]]
    /\ invitation = <<>>
    /\ task = [r \in Task |-> NoTask]
    /\ unseen = [o \in Organization |-> 0]

Begin(r, command) ==
    /\ task[r] = NoTask
    /\ task' = [task EXCEPT ![r] = command]
    /\ UNCHANGED <<owner, key, member, invitation, unseen>>

End(r) == task' = [task EXCEPT ![r] = NoTask]

Members(o) == {u \in User : member[o][u] # {}}

\* The invitations assertWithinStaffLimit counts: those that may yet be accepted.
Holds(i) == /\ i.status = "PENDING" /\ ~i.expired
            /\ i.delivery = "FAILED" => i.retryable
Held(rows, o) == {i \in DOMAIN rows : rows[i].organization = o /\ Holds(rows[i])}
Seats(o) == Cardinality(Members(o)) + Cardinality(Held(invitation, o))
-----------------------------------------------------------------------------
(* Onboarding *)

\* The key is looked up first; one that is known answers with its organization.
Onboard(r, u, k, o) ==
    /\ key[<<u, k>>] = Nobody
    /\ Begin(r, [pc |-> "onboard", user |-> u, key |-> k, organization |-> o])

\* One transaction.  The slug is inserted first and the key last: either may turn
\* out taken, and everything is rolled back.
KeyFree(u, k) == key[<<u, k>>] = Nobody

CommitOnboard(r) ==
    LET u == task[r].user
        o == task[r].organization
        granted == owner[o] = Nobody /\ KeyFree(u, task[r].key)
    IN  /\ task[r].pc = "onboard"
        /\ IF granted
           THEN /\ owner' = [owner EXCEPT ![o] = u]
                /\ key' = [key EXCEPT ![<<u, task[r].key>>] = o]
                /\ member' = [member EXCEPT ![o][u] = {Owner}]
           ELSE UNCHANGED <<owner, key, member>>
        /\ End(r)
        /\ UNCHANGED <<invitation, unseen>>
-----------------------------------------------------------------------------
(* Creating and resending an invitation *)

\* Mutant: the counts are taken without the lock.
SubscriptionKnown(o) == owner[o] # Nobody
SubscriptionFree(o) ==
    \A q \in Task : task[q].pc \in {"count", "insert"} => task[q].organization # o

\* create: the subscription row is locked, then the members are counted.
Invite(r, o, target, role) ==
    /\ owner[o] # Nobody
    /\ SubscriptionFree(o)
    /\ Begin(r, [pc |-> "count", organization |-> o, target |-> target, role |-> role,
                 members |-> Cardinality(Members(o))])

NewInvitation(c) ==
    [organization |-> c.organization, target |-> c.target, role |-> c.role,
     status |-> "PENDING", expired |-> FALSE, delivery |-> "PENDING", retryable |-> TRUE,
     token |-> 1]

\* The invitations are counted by a later statement, which sees what committed in
\* between; too many seats end the request.
CountInvitations(r) ==
    LET held == Cardinality(Held(invitation, task[r].organization))
    IN  /\ task[r].pc = "count"
        /\ \/ task[r].members + held < StaffMax /\ task' = [task EXCEPT ![r].pc = "insert"]
           \/ task[r].members + held >= StaffMax /\ End(r)
        /\ UNCHANGED <<owner, key, member, invitation, unseen>>

CommitCreate(r) ==
    /\ task[r].pc = "insert"
    /\ Len(invitation) < MaxInvitations
    /\ invitation' = Append(invitation, NewInvitation(task[r]))
    /\ task' = [task EXCEPT ![r] = IF task[r].target = Nobody THEN NoTask
                                 ELSE [pc |-> "attempt", id |-> Len(invitation) + 1]]
    /\ UNCHANGED <<owner, key, member, unseen>>

\* Changing an invitation may give back a seat that was written off.
Update(i, row) ==
    LET o == row.organization
    IN  /\ invitation' = [invitation EXCEPT ![i] = row]
        /\ unseen' = IF Holds(row) /\ ~Holds(invitation[i])
                     THEN [unseen EXCEPT ![o] = @ + 1] ELSE unseen
        /\ UNCHANGED <<owner, key, member>>

Sending(row, token) == [row EXCEPT !.delivery = "PENDING", !.retryable = TRUE,
                                   !.token = token]

\* beginDeliveryAttempt, by the invitation's id alone.
BeginAttempt(r) ==
    /\ task[r].pc = "attempt"
    /\ Update(task[r].id, Sending(invitation[task[r].id], invitation[task[r].id].token))
    /\ task' = [task EXCEPT ![r].pc = "send"]

\* resend: decided and written under the row's lock, once the cooldown, a time
\* that the model does not measure, is over.
Resend(r, i) ==
    LET row == invitation[i]
    IN  /\ task[r] = NoTask
        /\ row.status = "PENDING" /\ ~row.expired
        /\ row.target # Nobody
        /\ row.delivery = "FAILED" => row.retryable
        /\ row.token < MaxToken
        /\ Update(i, Sending(row, row.token + 1))
        /\ task' = [task EXCEPT ![r] = [pc |-> "send", id |-> i]]

\* The provider accepted the message.
MarkDelivered(r) ==
    /\ task[r].pc = "send"
    /\ Update(task[r].id, [invitation[task[r].id] EXCEPT !.delivery = "DELIVERED",
                                                       !.retryable = FALSE])
    /\ End(r)

\* It did not, for now or for good.
MarkFailed(r) ==
    /\ task[r].pc = "send"
    /\ \E retryable \in BOOLEAN :
         Update(task[r].id, [invitation[task[r].id] EXCEPT
           !.delivery = "FAILED", !.retryable = retryable])
    /\ End(r)

\* Time: the seven days of an invitation pass, which matters while it is pending.
Lapse(i) ==
    /\ invitation[i].status = "PENDING"
    /\ ~invitation[i].expired
    /\ Update(i, [invitation[i] EXCEPT !.expired = TRUE])
    /\ UNCHANGED task
-----------------------------------------------------------------------------
(* Answering an invitation *)

\* Nobody has the token before its message is sent, or before create returns it.
TokenOut(i) == \A q \in Task : task[q].pc = "attempt" => task[q].id # i

Usable(i) == invitation[i].status = "PENDING" /\ ~invitation[i].expired

\* Mutant: whoever holds the token may accept.
ForAnyone(i, u) == Usable(i)
Addressed(i, u) == invitation[i].target \in {u, Nobody}

\* accept: the invitation is read, without a lock, inside the transaction.
Accept(r, i, u) ==
    /\ TokenOut(i)
    /\ Usable(i)
    /\ Addressed(i, u)
    /\ Begin(r, [pc |-> "lookup", id |-> i, user |-> u])

\* The membership and its roles are looked up.
LookUp(r) ==
    LET row == invitation[task[r].id]
    IN  /\ task[r].pc = "lookup"
        /\ task' = [task EXCEPT ![r] = [pc |-> "join", id |-> @.id, user |-> @.user,
                                      roles |-> member[row.organization][@.user]]]
        /\ UNCHANGED <<owner, key, member, invitation, unseen>>

\* A create between its two counts has not seen this member and will not see the
\* invitation; one that no longer held a seat gives one all the same.
Unseen(row) ==
    \/ ~Holds(row)
    \/ \E q \in Task : task[q].pc = "count" /\ task[q].organization = row.organization

\* The membership, profile and role are created where the lookup found none, which
\* the unique indexes refuse if another request was faster; the invitation is
\* marked by its id.
CommitAccept(r) ==
    LET i == task[r].id
        u == task[r].user
        row == invitation[i]
        o == row.organization
        raced == \/ task[r].roles = {} /\ member[o][u] # {}
                 \/ row.role \in member[o][u] \ task[r].roles
    IN  /\ task[r].pc = "join"
        /\ IF raced THEN UNCHANGED <<member, invitation, unseen>>
           ELSE /\ member' = [member EXCEPT ![o][u] = @ \cup {row.role}]
                /\ invitation' = [invitation EXCEPT ![i].status = "ACCEPTED"]
                /\ unseen' = IF task[r].roles = {} /\ Unseen(row)
                             THEN [unseen EXCEPT ![o] = @ + 1] ELSE unseen
        /\ End(r)
        /\ UNCHANGED <<owner, key>>

\* reject and revoke: read, and then written by the invitation's id.
Reject(r, i) ==
    /\ TokenOut(i)
    /\ Usable(i)
    /\ Begin(r, [pc |-> "decide", id |-> i, to |-> "DECLINED"])

Revoke(r, i) ==
    /\ invitation[i].status = "PENDING"
    /\ Begin(r, [pc |-> "decide", id |-> i, to |-> "REVOKED"])

CommitDecision(r) ==
    /\ task[r].pc = "decide"
    /\ Update(task[r].id, [invitation[task[r].id] EXCEPT !.status = task[r].to])
    /\ End(r)
-----------------------------------------------------------------------------
MembershipsNext ==
    \/ \E r \in Task :
         \/ \E u \in Founder, k \in Key, o \in Organization : Onboard(r, u, k, o)
         \/ \E o \in Organization, target \in User \cup {Nobody}, role \in Role :
              Invite(r, o, target, role)
         \/ \E i \in DOMAIN invitation :
              \/ Resend(r, i) \/ Reject(r, i) \/ Revoke(r, i)
              \/ \E u \in User : Accept(r, i, u)
         \/ CommitOnboard(r) \/ CountInvitations(r) \/ CommitCreate(r) \/ BeginAttempt(r)
         \/ MarkDelivered(r) \/ MarkFailed(r)
         \/ LookUp(r) \/ CommitAccept(r) \/ CommitDecision(r)
    \/ \E i \in DOMAIN invitation : Lapse(i)

MembershipsSpec == MembershipsInit /\ [][MembershipsNext]_membershipVars
-----------------------------------------------------------------------------
(* Properties *)

\* An organization passes its plan's limit only by what the check could not see:
\* a member who joined between the two counts of a create, or by an invitation
\* that was no longer held against the limit, or an invitation that came back
\* when an older attempt to send it ended.  Creates alone never pass it
\* (staff-invitation.service.ts:455-493, SECURITY.md:1327-1341).
SeatsWithinLimit ==
    MembershipsTypeOK /\ \A o \in Organization : Seats(o) <= StaffMax + unseen[o]

\* Whoever is a member onboarded the organization or holds, for each of their
\* roles, an invitation that was meant for them and that names it; nobody else
\* than the creator is an owner (staff-invitation.service.ts:107-117, :527-560).
MembersWereInvited ==
    \A o \in Organization, u \in User : \A role \in member[o][u] :
        IF role = Owner THEN u = owner[o]
        ELSE \E i \in DOMAIN invitation :
               /\ invitation[i].organization = o
               /\ invitation[i].role = role
               /\ invitation[i].target \in {u, Nobody}

\* A key stands for one organization of its user, and each organization has one
\* owner and the key it was created with, whichever of two requests for it comes
\* first (onboarding.service.ts:250-257 and :285-309).
OneOrganizationPerKey ==
    \A o \in Organization : owner[o] # Nobody =>
        /\ Owner \in member[o][owner[o]]
        /\ Cardinality({k \in Key : key[<<owner[o], k>>] = o}) = 1

\* Every membership can be accounted for: by the one onboarding its key stands
\* for, or by an invitation to that person, however the requests race
\* (onboarding.service.ts:285-309, staff-invitation.service.ts:527-652).
MembershipsJustified == MembersWereInvited /\ OneOrganizationPerKey

\* "Only a still-pending invitation can be revoked" (docs/API_SPEC.md:254-256): the
\* invitation of somebody who joined is not turned into a revoked one.
AcceptedStays ==
    [][\A i \in DOMAIN invitation :
         invitation[i].status = "ACCEPTED" => invitation'[i].status = "ACCEPTED"]_membershipVars
=============================================================================
