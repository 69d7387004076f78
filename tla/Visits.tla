------------------------------- MODULE Visits -------------------------------
(***************************************************************************)
(* One branch on one business date: the appointments due, the live queue,  *)
(* and the service sessions.  A customer present at the branch is a queue  *)
(* entry, from a walk-in or from the check-in of an appointment; the work  *)
(* done for them is a service session.                                     *)
(*                                                                         *)
(* Every command reads, decides, and then writes in one transaction whose  *)
(* first update is conditional on what was read.  The other rows it        *)
(* writes are updated under that row's lock and no two commands take them  *)
(* in opposite orders, so the transaction is one step.                     *)
(*                                                                         *)
(* Entries are named by their ticket, allocated with them; sessions by the *)
(* order of their start.  Left out are the services asked for, which every *)
(* provider performs here, and the provider assigned to an entry, whom a   *)
(* start may replace by any other.                                         *)
(***************************************************************************)
EXTENDS Naturals, Sequences, FiniteSets, Functions

CONSTANTS
    Appointment,  \* ids of the appointments
    Staff,        \* staff profiles
    Key,          \* idempotency keys
    Request,      \* slots for the commands in progress
    MaxTicket,    \* bound: tickets issued
    MaxSession,   \* bound: sessions started
    MaxRevision,  \* bound: from this revision on, only sessions under way are read
    MaxItems,     \* bound: replacements of the items of a session
    None          \* no key, no appointment, no status

ASSUME VisitsAssumption ==
    /\ {MaxTicket, MaxSession, MaxRevision, MaxItems} \subseteq Nat
    /\ None \notin Appointment \cup Staff \cup Key

VARIABLES
    appointment,  \* table appointments; LATER is confirmed for another date
    entry,        \* table queue_entries with the newest row of its status history
    session,      \* table service_sessions
    revision,     \* BranchQueueDay.revision
    key,          \* table queue_intake_idempotency_keys: the entry a key stands for
    req           \* each command in progress, with the row it read

vars == <<appointment, entry, session, revision, key, req>>

EntryStatus == {"WAITING", "CALLED", "IN_SERVICE", "COMPLETED", "CANCELLED", "NO_SHOW"}

\* What a queue command may do; IN_SERVICE and COMPLETED are the sessions' own.
Allowed(from) ==
    CASE from = "WAITING" -> {"CALLED", "IN_SERVICE", "CANCELLED", "NO_SHOW"}
      [] from = "CALLED"  -> {"WAITING", "IN_SERVICE", "CANCELLED", "NO_SHOW"}
      [] from = "IN_SERVICE" -> {"COMPLETED"}
      [] OTHER -> {}

AppointmentStatus == {"CONFIRMED", "LATER", "CANCELLED", "NO_SHOW"}
EntryRow == [appointment : Appointment \cup {None},
             status : EntryStatus, version : Nat \ {0},
             last : (EntryStatus \cup {None}) \X EntryStatus]
SessionRow == [entry : 1 .. MaxTicket, staff : Staff, version : Nat \ {0},
               status : {"IN_PROGRESS", "COMPLETED", "CANCELLED"}]

Idle == [op |-> "idle"]
Op == {"walkIn", "checkIn", "move", "assign", "start", "items", "end"}

TypeOK ==
    /\ appointment \in [Appointment -> AppointmentStatus]
    /\ entry \in Seq(EntryRow)
    /\ session \in Seq(SessionRow)
    /\ revision \in Nat
    /\ key \in [Key -> 0 .. MaxTicket]
    /\ \A r \in Request : req[r].op \in Op \cup {"idle"}

Init ==
    /\ appointment = [a \in Appointment |-> "CONFIRMED"]
    /\ entry = <<>>
    /\ session = <<>>
    /\ revision = 0
    /\ key = [k \in Key |-> 0]
    /\ req = [r \in Request |-> Idle]
-----------------------------------------------------------------------------
(* The tables *)

Begin(r, command) ==
    /\ req[r] = Idle
    /\ req' = [req EXCEPT ![r] = command]
    /\ UNCHANGED <<appointment, entry, session, revision, key>>

End(r) == req' = [req EXCEPT ![r] = Idle]

\* A command refused at its write leaves every table as it was.
Refuse(r) == End(r) /\ UNCHANGED <<entry, session, revision, key>>

\* An update of the queue: the row's next version, a row of history when its
\* status changes, the day's next revision.
ToStatus(e, from, to) ==
    /\ entry' = [entry EXCEPT ![e].status = to, ![e].last = <<from, to>>, ![e].version = @ + 1]
    /\ revision' = revision + 1

Active(s) == session[s].status = "IN_PROGRESS"
Serving(p) == \E s \in DOMAIN session : Active(s) /\ session[s].staff = p
InService(e) == \E s \in DOMAIN session : Active(s) /\ session[s].entry = e
CheckedIn(a) == \E e \in DOMAIN entry : entry[e].appointment = a

\* allocateQueueTicket and the new entry, waiting.
Admit(r, a) ==
    /\ Len(entry) < MaxTicket
    /\ entry' = Append(entry, [appointment |-> a, status |-> "WAITING",
                               version |-> 1, last |-> <<None, "WAITING">>])
    /\ revision' = revision + 1
    /\ key' = IF req[r].key = None THEN key ELSE [key EXCEPT ![req[r].key] = Len(entry')]
-----------------------------------------------------------------------------
(* Appointments: none of these looks at the queue, and the queue reads an  *)
(* appointment to check it in and never again, so they stop there.         *)

Appoint(a, status) ==
    /\ appointment[a] = "CONFIRMED"
    /\ ~CheckedIn(a)
    /\ appointment' = [appointment EXCEPT ![a] = status]
    /\ UNCHANGED <<entry, session, revision, key, req>>

CancelAppointment(a) == Appoint(a, "CANCELLED")
MarkNoShow(a) == Appoint(a, "NO_SHOW")
RescheduleLater(a) == Appoint(a, "LATER")
-----------------------------------------------------------------------------
(* Intake *)

\* A key seen before answers with its entry and changes nothing.
Unused(k) == k # None => key[k] = 0

WalkIn(r, k) ==
    /\ Unused(k)
    /\ Begin(r, [op |-> "walkIn", key |-> k])

AdmitWalkIn(r) ==
    /\ req[r].op = "walkIn"
    /\ \/ Unused(req[r].key) /\ Admit(r, None) /\ End(r) /\ UNCHANGED session
       \/ ~Unused(req[r].key) /\ Refuse(r)
    /\ UNCHANGED appointment

CheckIn(r, a, k) ==
    /\ appointment[a] = "CONFIRMED"
    /\ Unused(k)
    /\ ~CheckedIn(a)
    /\ Begin(r, [op |-> "checkIn", appointment |-> a, key |-> k])

\* Mutant: the appointment may be in the queue already.
KeyStillUnused(r, a) == Unused(req[r].key)
Admissible(r, a) == Unused(req[r].key) /\ ~CheckedIn(a)

\* The appointment is not read again; the unique indexes on the appointment and on the key decide a race.
AdmitAppointment(r) ==
    /\ req[r].op = "checkIn"
    /\ LET a == req[r].appointment
       IN  \/ Admissible(r, a) /\ Admit(r, a) /\ End(r) /\ UNCHANGED session
           \/ ~Admissible(r, a) /\ Refuse(r)
    /\ UNCHANGED appointment
-----------------------------------------------------------------------------
(* Queue commands *)

Version(e) == [status |-> entry[e].status, version |-> entry[e].version]

Move(r, e, to) ==
    /\ revision < MaxRevision
    /\ to \in Allowed(entry[e].status)
    /\ Begin(r, [op |-> "move", entry |-> e, read |-> Version(e), to |-> to])

Call(r, e) == Move(r, e, "CALLED")
ReturnToWaiting(r, e) == Move(r, e, "WAITING")
CancelEntry(r, e) == Move(r, e, "CANCELLED")
NoShow(r, e) == Move(r, e, "NO_SHOW")

\* Mutant: the update looks for the row alone.
RowExists(r) == req[r].entry \in DOMAIN entry
Unchanged(r) == Version(req[r].entry) = req[r].read

Transition(r) ==
    /\ req[r].op = "move"
    /\ \/ /\ Unchanged(r)
          /\ ToStatus(req[r].entry, req[r].read.status, req[r].to)
          /\ End(r)
          /\ UNCHANGED <<session, key>>
       \/ ~Unchanged(r) /\ Refuse(r)
    /\ UNCHANGED appointment

Assign(r, e) ==
    /\ revision < MaxRevision
    /\ entry[e].status \in {"WAITING", "CALLED"}
    /\ Begin(r, [op |-> "assign", entry |-> e, read |-> Version(e)])

\* Conditional on the version alone.
SaveAssignment(r) ==
    /\ req[r].op = "assign"
    /\ LET e == req[r].entry
           same == entry[e].version = req[r].read.version
       IN  \/ /\ same
              /\ entry' = [entry EXCEPT ![e].version = @ + 1]
              /\ revision' = revision + 1
              /\ End(r)
              /\ UNCHANGED <<session, key>>
           \/ ~same /\ Refuse(r)
    /\ UNCHANGED appointment
-----------------------------------------------------------------------------
(* Service sessions *)

\* The provider is the one named by the caller, who may, or the one assigned.
Start(r, e, p) ==
    /\ revision < MaxRevision
    /\ entry[e].status \in {"WAITING", "CALLED"}
    /\ Begin(r, [op |-> "start", entry |-> e, read |-> Version(e), staff |-> p])

\* The claim of the entry, and the session, which two unique indexes may refuse.
OpenSession(r) ==
    /\ req[r].op = "start"
    /\ LET e == req[r].entry
           p == req[r].staff
           granted == Unchanged(r) /\ ~Serving(p) /\ ~InService(e)
       IN  \/ /\ granted
              /\ Len(session) < MaxSession
              /\ ToStatus(e, req[r].read.status, "IN_SERVICE")
              /\ session' = Append(session, [entry |-> e, staff |-> p, version |-> 1,
                                             status |-> "IN_PROGRESS"])
              /\ End(r)
              /\ UNCHANGED key
           \/ ~granted /\ Refuse(r)
    /\ UNCHANGED appointment

\* Mutant: the update looks for the session alone.
SessionExists(r) == req[r].session \in DOMAIN session

\* The guard of every session update on the session it read.
SameSession(r) == LET s == req[r].session
                  IN  Active(s) /\ session[s].version = req[r].version

ReplaceItems(r, s) ==
    /\ Active(s)
    /\ session[s].version <= MaxItems
    /\ Begin(r, [op |-> "items", session |-> s, version |-> session[s].version])

SaveItems(r) ==
    /\ req[r].op = "items"
    /\ \/ /\ SameSession(r)
          /\ session' = [session EXCEPT ![req[r].session].version = @ + 1]
          /\ End(r)
          /\ UNCHANGED <<entry, revision, key>>
       \/ ~SameSession(r) /\ Refuse(r)
    /\ UNCHANGED appointment

EndSession(r, s, to, entryTo) ==
    /\ Active(s)
    /\ Begin(r, [op |-> "end", session |-> s, version |-> session[s].version,
                 to |-> to, entryTo |-> entryTo])

Complete(r, s) == EndSession(r, s, "COMPLETED", "COMPLETED")
ReturnToQueue(r, s) == EndSession(r, s, "CANCELLED", "WAITING")
CancelVisit(r, s) == EndSession(r, s, "CANCELLED", "CANCELLED")

CloseSession(r) ==
    /\ req[r].op = "end"
    /\ LET s == req[r].session
           e == session[s].entry
           granted == SameSession(r) /\ entry[e].status = "IN_SERVICE"
       IN  \/ /\ granted
              /\ session' = [session EXCEPT ![s].status = req[r].to, ![s].version = @ + 1]
              /\ ToStatus(e, "IN_SERVICE", req[r].entryTo)
              /\ End(r)
              /\ UNCHANGED key
           \/ ~granted /\ Refuse(r)
    /\ UNCHANGED appointment
-----------------------------------------------------------------------------
Next ==
    \/ \E a \in Appointment :
         \/ CancelAppointment(a) \/ MarkNoShow(a) \/ RescheduleLater(a)
    \/ \E r \in Request :
         \/ \E k \in Key \cup {None} : WalkIn(r, k) \/ \E a \in Appointment : CheckIn(r, a, k)
         \/ \E e \in DOMAIN entry :
              \/ Call(r, e) \/ ReturnToWaiting(r, e) \/ CancelEntry(r, e) \/ NoShow(r, e)
              \/ Assign(r, e)
              \/ \E p \in Staff : Start(r, e, p)
         \/ \E s \in DOMAIN session :
              ReplaceItems(r, s) \/ Complete(r, s) \/ ReturnToQueue(r, s) \/ CancelVisit(r, s)
         \/ AdmitWalkIn(r) \/ AdmitAppointment(r) \/ Transition(r) \/ SaveAssignment(r)
         \/ OpenSession(r) \/ SaveItems(r) \/ CloseSession(r)

Spec == Init /\ [][Next]_vars
-----------------------------------------------------------------------------
(* Properties *)

SessionsOf(e, status) == {s \in DOMAIN session : session[s].entry = e /\ session[s].status = status}

\* A customer is in service exactly while one session is under way for them and
\* completed exactly when one session was; a provider serves one customer at a
\* time.  A start, a completion, a return to the queue and queue commands on
\* the same entry all decide on what they read before
\* (service-sessions.service.ts:126-163, :306-326, queue-commands.service.ts:229).
VisitMatchesSessions ==
    /\ TypeOK
    /\ \A e \in DOMAIN entry :
         /\ Cardinality(SessionsOf(e, "IN_PROGRESS")) = IF entry[e].status = "IN_SERVICE" THEN 1 ELSE 0
         /\ Cardinality(SessionsOf(e, "COMPLETED")) = IF entry[e].status = "COMPLETED" THEN 1 ELSE 0
    /\ \A s, t \in DOMAIN session : Active(s) /\ Active(t) /\ session[s].staff = session[t].staff
                                      => s = t

\* The revision clients poll counts the changes of the day's queue, one for one:
\* none is missed and a refused command counts for nothing
\* (queue-ticket.util.ts:52-64).
RevisionCountsChanges ==
    revision = SumFunction([e \in DOMAIN entry |-> entry[e].version])

\* A finished visit is never taken up again, by whatever command read it before
\* it was; and the history gains a row, from the status it had, exactly when the
\* status changes (queue-commands.service.ts:227-249).
HistoryFollows ==
    [][\A e \in DOMAIN entry :
         IF entry'[e].status = entry[e].status
         THEN entry'[e].last = entry[e].last
         ELSE /\ entry'[e].last = <<entry[e].status, entry'[e].status>>
              /\ entry[e].status \notin {"COMPLETED", "CANCELLED", "NO_SHOW"}]_vars

\* Every change of the queue is on record, once: in the revision and in the history
\* (queue-commands.service.ts:227-262, queue-ticket.util.ts:52-64).
ChangesOnRecord == []RevisionCountsChanges /\ HistoryFollows

\* An appointment enters the queue once, and an intake key stands for one entry
\* however often and whenever it is sent again (queue-intake.service.ts:209-232).
CheckedInOnce ==
    [][/\ \A a \in Appointment : Cardinality({e \in DOMAIN entry' : entry'[e].appointment = a}) <= 1
       /\ \A k \in Key : key[k] # 0 => key'[k] = key[k]]_vars

\* Check-in "rejects a cancelled/no-show appointment" (docs/API_SPEC.md:460).
OnlyConfirmedCheckedIn ==
    [][\A a \in Appointment : CheckedIn(a)' /\ ~CheckedIn(a) => appointment[a] = "CONFIRMED"]_vars
=============================================================================
