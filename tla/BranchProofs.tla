---------------------------- MODULE BranchProofs ----------------------------
(***************************************************************************)
(* What holds of a branch's day for every number of appointments,          *)
(* providers, keys, entries, sessions and requests: of the queue and the   *)
(* work done (module Visits), then of the appointments made for the day    *)
(* (module Booking).                                                       *)
(***************************************************************************)
EXTENDS Visits, Booking, SumTheorems, SequenceTheorems, WellFoundedInduction

-----------------------------------------------------------------------------
(* The inductive invariant.                                                *)

\* Who is being served, and what a visit came to: the status of an entry says
\* whether a session is under way for it and whether one was completed.
SessionsSound ==
    /\ \A s \in DOMAIN session : session[s].entry \in DOMAIN entry
    /\ \A s \in DOMAIN session :
          /\ session[s].status = "IN_PROGRESS" => entry[session[s].entry].status = "IN_SERVICE"
          /\ session[s].status = "COMPLETED" => entry[session[s].entry].status = "COMPLETED"
    /\ \A e \in DOMAIN entry :
          /\ entry[e].status = "IN_SERVICE" =>
                \E s \in DOMAIN session : session[s].entry = e /\ session[s].status = "IN_PROGRESS"
          /\ entry[e].status = "COMPLETED" =>
                \E s \in DOMAIN session : session[s].entry = e /\ session[s].status = "COMPLETED"
    /\ \A s, t \in DOMAIN session :
          session[s].entry = session[t].entry /\ session[s].status = session[t].status
            /\ session[s].status # "CANCELLED" => s = t

\* A provider serves one customer at a time.
ProvidersSound ==
    \A s, t \in DOMAIN session :
        Active(s) /\ Active(t) /\ session[s].staff = session[t].staff => s = t

\* An appointment has at most one entry.
EntriesSound ==
    \A e, f \in DOMAIN entry :
        entry[e].appointment = entry[f].appointment /\ entry[e].appointment # None => e = f

\* What a command holds between what it read and its write.
Holding(q) ==
    /\ q.op \in {"move", "start"} =>
          q.entry \in DOMAIN entry /\ q.read.status \in {"WAITING", "CALLED"}
    /\ q.op = "move" => q.to \in {"WAITING", "CALLED", "CANCELLED", "NO_SHOW"} \ {q.read.status}
    /\ q.op = "start" => q.staff \in Staff
    /\ q.op = "assign" => q.entry \in DOMAIN entry
    /\ q.op \in {"items", "end"} => q.session \in DOMAIN session
    /\ q.op = "end" => <<q.to, q.entryTo>> \in {<<"COMPLETED", "COMPLETED">>,
                                                <<"CANCELLED", "WAITING">>, <<"CANCELLED", "CANCELLED">>}
    /\ q.op \in {"walkIn", "checkIn"} => q.key \in Key \cup {None}
    /\ q.op = "checkIn" => q.appointment \in Appointment

RequestsSound ==
    /\ DOMAIN req = Request
    /\ \A r \in Request : req[r].op \in Op \cup {"idle"} /\ Holding(req[r])

TablesTyped ==
    /\ entry \in Seq(EntryRow) /\ Len(entry) <= MaxTicket
    /\ session \in Seq(SessionRow)
    /\ revision \in Nat
    /\ key \in [Key -> 0 .. MaxTicket]
    /\ appointment \in [Appointment -> AppointmentStatus]

DayInv ==
    /\ TablesTyped
    /\ SessionsSound
    /\ ProvidersSound
    /\ EntriesSound
    /\ RequestsSound
-----------------------------------------------------------------------------
(* The requests.                                                           *)

\* The tables only grow, so what a command holds stays in them.
LEMMA RequestsKept ==
    ASSUME RequestsSound, NEW r \in Request, NEW q, req' = [req EXCEPT ![r] = q],
           DOMAIN entry \subseteq DOMAIN entry', DOMAIN session \subseteq DOMAIN session',
           q.op \in Op \cup {"idle"}, Holding(q)
    PROVE  RequestsSound'
<1>1. ASSUME NEW p, Holding(p) PROVE Holding(p)'
  BY <1>1 DEF Holding
<1>2. \A s \in Request : req'[s] = req[s] \/ req'[s] = q
  BY DEF RequestsSound
<1>3. DOMAIN req' = Request
  BY DEF RequestsSound
<1>4. ASSUME NEW s \in Request
      PROVE  req'[s].op \in Op \cup {"idle"} /\ Holding(req'[s])
  BY <1>2 DEF RequestsSound
<1>5. ASSUME NEW s \in Request
      PROVE  req'[s].op \in Op \cup {"idle"} /\ Holding(req[s])'
  <2>1. req'[s].op \in Op \cup {"idle"}
    BY <1>4
  <2>2. PICK p : p = req'[s]
    OBVIOUS
  <2>3. Holding(p)'
    BY <1>1, <1>4, <2>2
  <2>4. Holding(req[s])'
    BY <2>2, <2>3 DEF Holding
  <2> QED BY <2>1, <2>4
<1> QED BY <1>3, <1>5 DEF RequestsSound

\* A command that begins with rows it holds rightly keeps the invariant.
LEMMA BeginKeeps ==
    ASSUME DayInv, NEW r \in Request, NEW q, Begin(r, q), q.op \in Op, Holding(q)
    PROVE  DayInv'
<1>1. /\ entry' = entry /\ session' = session /\ revision' = revision
      /\ key' = key /\ appointment' = appointment /\ req' = [req EXCEPT ![r] = q]
  BY DEF Begin
<1>2. RequestsSound'
  BY <1>1, RequestsKept DEF DayInv
<1>3. TablesTyped' /\ SessionsSound' /\ ProvidersSound' /\ EntriesSound'
  BY <1>1 DEF DayInv, TablesTyped, SessionsSound, ProvidersSound, EntriesSound, Active
<1> QED BY <1>2, <1>3 DEF DayInv

\* A command that ends holds nothing.
LEMMA EndKeeps ==
    ASSUME RequestsSound, NEW r \in Request, End(r),
           DOMAIN entry \subseteq DOMAIN entry', DOMAIN session \subseteq DOMAIN session'
    PROVE  RequestsSound'
<1>1. req' = [req EXCEPT ![r] = Idle] /\ Idle.op = "idle"
  BY DEF End, Idle
<1>2. Holding(Idle)
  BY DEF Holding, Idle
<1> QED BY <1>1, <1>2, RequestsKept

\* A refusal keeps the invariant.
LEMMA RefuseKeeps ==
    ASSUME DayInv, NEW r \in Request, Refuse(r), appointment' = appointment
    PROVE  DayInv'
<1>1. entry' = entry /\ session' = session /\ revision' = revision /\ key' = key /\ End(r)
  BY DEF Refuse
<1>2. RequestsSound'
  BY <1>1, EndKeeps DEF DayInv
<1>3. TablesTyped' /\ SessionsSound' /\ ProvidersSound' /\ EntriesSound'
  BY <1>1 DEF DayInv, TablesTyped, SessionsSound, ProvidersSound, EntriesSound, Active
<1> QED BY <1>2, <1>3 DEF DayInv
-----------------------------------------------------------------------------
(* What the transactions do to the queue and to the sessions.              *)

\* A new entry, for an appointment that has none.
LEMMA AdmitKeeps ==
    ASSUME DayInv, NEW r \in Request, NEW a \in Appointment \cup {None}, Admit(r, a), End(r),
           a # None => ~CheckedIn(a),
           req[r].key \in Key \cup {None}, session' = session, appointment' = appointment
    PROVE  DayInv'
<1> DEFINE row == [appointment |-> a, status |-> "WAITING", version |-> 1, last |-> <<None, "WAITING">>]
           n == Len(entry) + 1
<1>1. TablesTyped /\ SessionsSound /\ ProvidersSound /\ EntriesSound /\ RequestsSound
  BY DEF DayInv
<1>2. entry \in Seq(EntryRow) /\ Len(entry) \in Nat /\ Len(entry) < MaxTicket /\ MaxTicket \in Nat
  BY <1>1, VisitsAssumption DEF Admit, TablesTyped
<1>3. row \in EntryRow
  BY DEF EntryRow, EntryStatus
<1>4. entry' = Append(entry, row)
  BY DEF Admit
<1> HIDE DEF row
<1>5. /\ entry' \in Seq(EntryRow) /\ Len(entry') = n /\ DOMAIN entry = 1 .. Len(entry)
      /\ DOMAIN entry' = 1 .. n /\ entry'[n] = row
      /\ \A e \in DOMAIN entry : entry'[e] = entry[e]
  BY <1>2, <1>3, <1>4
<1>6. DOMAIN entry' = DOMAIN entry \cup {n} /\ n \notin DOMAIN entry
  BY <1>2, <1>5
<1>7. TablesTyped'
  <2>1. key' \in [Key -> 0 .. MaxTicket]
    <3>1. key' = IF req[r].key = None THEN key ELSE [key EXCEPT ![req[r].key] = n]
      BY <1>5 DEF Admit
    <3>2. n \in 0 .. MaxTicket
      BY <1>2
    <3> QED BY <1>1, <3>1, <3>2 DEF TablesTyped
  <2>2. revision' \in Nat
    BY <1>1 DEF Admit, TablesTyped
  <2> QED BY <1>1, <1>2, <1>5, <2>1, <2>2 DEF TablesTyped
<1>8. row.status = "WAITING" /\ row.appointment = a
  BY DEF row
<1>9. SessionsSound'
  BY <1>1, <1>5, <1>6, <1>8 DEF SessionsSound
<1>10. ProvidersSound'
  BY <1>1 DEF ProvidersSound, Active
<1>11. EntriesSound'
  <2>1. a # None => \A e \in DOMAIN entry : entry[e].appointment # a
    BY DEF CheckedIn
  <2> QED BY <1>1, <1>5, <1>6, <1>8, <2>1 DEF EntriesSound
<1>12. RequestsSound'
  BY <1>1, <1>6, EndKeeps
<1> QED BY <1>7, <1>9, <1>10, <1>11, <1>12 DEF DayInv

\* The row of an entry after an update of its status, and after one of its version.
LEMMA StatusTable ==
    ASSUME TablesTyped, NEW e \in DOMAIN entry, NEW from \in EntryStatus, NEW to \in EntryStatus,
           ToStatus(e, from, to)
    PROVE  /\ entry' \in Seq(EntryRow) /\ Len(entry') = Len(entry) /\ DOMAIN entry' = DOMAIN entry
           /\ entry'[e].status = to /\ entry'[e].appointment = entry[e].appointment
           /\ entry'[e].last = <<from, to>> /\ entry'[e].version = entry[e].version + 1
           /\ \A f \in DOMAIN entry \ {e} : entry'[f] = entry[f]
           /\ revision' = revision + 1
<1> DEFINE row == [entry[e] EXCEPT !.status = to, !.last = <<from, to>>, !.version = @ + 1]
<1>1. entry \in Seq(EntryRow) /\ DOMAIN entry = 1 .. Len(entry) /\ Len(entry) \in Nat
  BY DEF TablesTyped
<1>2. entry[e] \in EntryRow
  BY <1>1
<1>3. row = [appointment |-> entry[e].appointment, status |-> to,
             version |-> entry[e].version + 1, last |-> <<from, to>>]
  <2>1. DOMAIN entry[e] = {"appointment", "status", "version", "last"}
    BY <1>2 DEF EntryRow
  <2>2. /\ row = [f \in DOMAIN entry[e] |-> row[f]] /\ row.appointment = entry[e].appointment
        /\ row.status = to /\ row.version = entry[e].version + 1 /\ row.last = <<from, to>>
    BY <2>1
  <2> HIDE DEF row
  <2> QED BY <2>1, <2>2
<1>4. row \in EntryRow
  BY <1>2, <1>3 DEF EntryRow
<1>5. /\ row.status = to /\ row.appointment = entry[e].appointment /\ row.last = <<from, to>>
      /\ row.version = entry[e].version + 1
  BY <1>3
<1>6. entry' = [entry EXCEPT ![e] = row] /\ revision' = revision + 1
  BY <1>1 DEF ToStatus
<1> HIDE DEF row
<1>7. entry' \in Seq(EntryRow) /\ Len(entry') = Len(entry) /\ DOMAIN entry' = DOMAIN entry
      /\ entry'[e] = row /\ \A f \in DOMAIN entry \ {e} : entry'[f] = entry[f]
  BY <1>1, <1>4, <1>6
<1> QED BY <1>5, <1>6, <1>7

\* A queue command moves an entry that is not in service to where it is not either.
LEMMA MoveKeeps ==
    ASSUME DayInv, NEW r \in Request, NEW e \in DOMAIN entry,
           NEW to \in {"WAITING", "CALLED", "CANCELLED", "NO_SHOW"},
           entry[e].status \in {"WAITING", "CALLED"}, ToStatus(e, entry[e].status, to), End(r),
           session' = session, key' = key, appointment' = appointment
    PROVE  DayInv'
<1>1. TablesTyped /\ SessionsSound /\ ProvidersSound /\ EntriesSound /\ RequestsSound
  BY DEF DayInv
<1>2. to \in EntryStatus /\ entry[e].status \in EntryStatus
  BY DEF EntryStatus
<1>3. /\ entry' \in Seq(EntryRow) /\ Len(entry') = Len(entry) /\ DOMAIN entry' = DOMAIN entry
      /\ entry'[e].status = to /\ entry'[e].appointment = entry[e].appointment
      /\ \A f \in DOMAIN entry \ {e} : entry'[f] = entry[f]
      /\ revision' = revision + 1
  BY <1>1, <1>2, StatusTable
<1>4. TablesTyped'
  BY <1>1, <1>3 DEF TablesTyped
<1>5. SessionsSound'
  BY <1>1, <1>3 DEF SessionsSound
<1>6. ProvidersSound'
  BY <1>1 DEF ProvidersSound, Active
<1>7. EntriesSound'
  BY <1>1, <1>3 DEF EntriesSound
<1>8. RequestsSound'
  BY <1>1, <1>3, EndKeeps
<1> QED BY <1>4, <1>5, <1>6, <1>7, <1>8 DEF DayInv

\* An assignment changes the version of an entry and nothing else.
LEMMA AssignTable ==
    ASSUME TablesTyped, NEW e \in DOMAIN entry, entry' = [entry EXCEPT ![e].version = @ + 1]
    PROVE  /\ entry' \in Seq(EntryRow) /\ Len(entry') = Len(entry) /\ DOMAIN entry' = DOMAIN entry
           /\ entry'[e].status = entry[e].status /\ entry'[e].appointment = entry[e].appointment
           /\ entry'[e].last = entry[e].last /\ entry'[e].version = entry[e].version + 1
           /\ \A f \in DOMAIN entry \ {e} : entry'[f] = entry[f]
<1> DEFINE row == [entry[e] EXCEPT !.version = @ + 1]
<1>1. entry \in Seq(EntryRow) /\ DOMAIN entry = 1 .. Len(entry) /\ Len(entry) \in Nat
  BY DEF TablesTyped
<1>2. entry[e] \in EntryRow
  BY <1>1
<1>3. row = [appointment |-> entry[e].appointment, status |-> entry[e].status,
             version |-> entry[e].version + 1, last |-> entry[e].last]
  BY <1>2 DEF EntryRow
<1>4. row \in EntryRow
  BY <1>2, <1>3 DEF EntryRow
<1>5. /\ row.status = entry[e].status /\ row.appointment = entry[e].appointment
      /\ row.last = entry[e].last /\ row.version = entry[e].version + 1
  BY <1>3
<1>6. entry' = [entry EXCEPT ![e] = row]
  BY <1>1
<1> HIDE DEF row
<1>7. entry' \in Seq(EntryRow) /\ Len(entry') = Len(entry) /\ DOMAIN entry' = DOMAIN entry
      /\ entry'[e] = row /\ \A f \in DOMAIN entry \ {e} : entry'[f] = entry[f]
  BY <1>1, <1>4, <1>6
<1> QED BY <1>5, <1>7

\* A change of an entry that is none of its status keeps the invariant.
LEMMA AssignKeeps ==
    ASSUME DayInv, NEW r \in Request, NEW e \in DOMAIN entry,
           entry' = [entry EXCEPT ![e].version = @ + 1], revision' = revision + 1, End(r),
           session' = session, key' = key, appointment' = appointment
    PROVE  DayInv'
<1>1. TablesTyped /\ SessionsSound /\ ProvidersSound /\ EntriesSound /\ RequestsSound
  BY DEF DayInv
<1>2. /\ entry' \in Seq(EntryRow) /\ Len(entry') = Len(entry) /\ DOMAIN entry' = DOMAIN entry
      /\ \A f \in DOMAIN entry : /\ entry'[f].status = entry[f].status
                                 /\ entry'[f].appointment = entry[f].appointment
  BY <1>1, AssignTable
<1>3. TablesTyped'
  BY <1>1, <1>2 DEF TablesTyped
<1>4. SessionsSound'
  BY <1>1, <1>2 DEF SessionsSound
<1>5. ProvidersSound'
  BY <1>1 DEF ProvidersSound, Active
<1>6. EntriesSound'
  BY <1>1, <1>2 DEF EntriesSound
<1>7. RequestsSound'
  BY <1>1, <1>2, EndKeeps
<1> QED BY <1>3, <1>4, <1>5, <1>6, <1>7 DEF DayInv

\* A session is opened for a customer who is waiting, by a provider who is free.
LEMMA OpenKeeps ==
    ASSUME DayInv, NEW r \in Request, NEW e \in DOMAIN entry, NEW p \in Staff,
           entry[e].status \in {"WAITING", "CALLED"}, ~Serving(p), ~InService(e),
           ToStatus(e, entry[e].status, "IN_SERVICE"), End(r),
           session' = Append(session, [entry |-> e, staff |-> p, version |-> 1,
                                       status |-> "IN_PROGRESS"]),
           key' = key, appointment' = appointment
    PROVE  DayInv'
<1> DEFINE row == [entry |-> e, staff |-> p, version |-> 1, status |-> "IN_PROGRESS"]
           n == Len(session) + 1
<1>1. TablesTyped /\ SessionsSound /\ ProvidersSound /\ EntriesSound /\ RequestsSound
  BY DEF DayInv
<1>2. entry[e].status \in EntryStatus /\ "IN_SERVICE" \in EntryStatus
  BY DEF EntryStatus
<1>3. /\ entry' \in Seq(EntryRow) /\ Len(entry') = Len(entry) /\ DOMAIN entry' = DOMAIN entry
      /\ entry'[e].status = "IN_SERVICE" /\ entry'[e].appointment = entry[e].appointment
      /\ \A f \in DOMAIN entry \ {e} : entry'[f] = entry[f]
      /\ revision' = revision + 1
  BY <1>1, <1>2, StatusTable
<1>4. e \in 1 .. MaxTicket
  BY <1>1, VisitsAssumption DEF TablesTyped
<1>5. row \in SessionRow
  BY <1>4 DEF SessionRow
<1>6. row.entry = e /\ row.staff = p /\ row.status = "IN_PROGRESS"
  OBVIOUS
<1>7. session \in Seq(SessionRow) /\ session' = Append(session, row)
  BY <1>1 DEF TablesTyped
<1> HIDE DEF row
<1>8. /\ session' \in Seq(SessionRow) /\ DOMAIN session' = DOMAIN session \cup {n}
      /\ n \notin DOMAIN session /\ session'[n] = row
      /\ \A s \in DOMAIN session : session'[s] = session[s]
  <2>1. DOMAIN session = 1 .. Len(session) /\ Len(session) \in Nat
    BY <1>7
  <2>2. session' \in Seq(SessionRow) /\ DOMAIN session' = 1 .. n /\ session'[n] = row
        /\ \A s \in DOMAIN session : session'[s] = session[s]
    BY <1>5, <1>7, <2>1
  <2> QED BY <2>1, <2>2
<1>9. TablesTyped'
  BY <1>1, <1>3, <1>8 DEF TablesTyped
<1>10. \A s \in DOMAIN session :
          /\ ~(session[s].entry = e /\ session[s].status = "IN_PROGRESS")
          /\ ~(session[s].entry = e /\ session[s].status = "COMPLETED")
          /\ ~(session[s].staff = p /\ session[s].status = "IN_PROGRESS")
  BY <1>1 DEF SessionsSound, Serving, InService, Active
<1>11. SessionsSound'
  <2>1. \A s \in DOMAIN session' : session'[s].entry \in DOMAIN entry'
    BY <1>1, <1>3, <1>6, <1>8 DEF SessionsSound
  <2>2. \A s \in DOMAIN session' :
          /\ session'[s].status = "IN_PROGRESS" => entry'[session'[s].entry].status = "IN_SERVICE"
          /\ session'[s].status = "COMPLETED" => entry'[session'[s].entry].status = "COMPLETED"
    BY <1>1, <1>3, <1>6, <1>8, <1>10 DEF SessionsSound
  <2>3. \A f \in DOMAIN entry' :
          /\ entry'[f].status = "IN_SERVICE" =>
                \E s \in DOMAIN session' : session'[s].entry = f /\ session'[s].status = "IN_PROGRESS"
          /\ entry'[f].status = "COMPLETED" =>
                \E s \in DOMAIN session' : session'[s].entry = f /\ session'[s].status = "COMPLETED"
    BY <1>1, <1>3, <1>6, <1>8 DEF SessionsSound
  <2>4. \A s, t \in DOMAIN session' :
          session'[s].entry = session'[t].entry /\ session'[s].status = session'[t].status
            /\ session'[s].status # "CANCELLED" => s = t
    BY <1>1, <1>6, <1>8, <1>10 DEF SessionsSound
  <2> QED BY <2>1, <2>2, <2>3, <2>4 DEF SessionsSound
<1>12. ProvidersSound'
  BY <1>1, <1>6, <1>8, <1>10 DEF ProvidersSound, Active
<1>13. EntriesSound'
  BY <1>1, <1>3 DEF EntriesSound
<1>14. RequestsSound'
  BY <1>1, <1>3, <1>8, EndKeeps
<1> QED BY <1>9, <1>11, <1>12, <1>13, <1>14 DEF DayInv

\* The row of a session after an update of its status, or of its version alone.
LEMMA SessionTable ==
    ASSUME session \in Seq(SessionRow), NEW s \in DOMAIN session,
           NEW to \in {"IN_PROGRESS", "COMPLETED", "CANCELLED"},
           \/ session' = [session EXCEPT ![s].status = to, ![s].version = @ + 1]
           \/ to = session[s].status /\ session' = [session EXCEPT ![s].version = @ + 1]
    PROVE  /\ session' \in Seq(SessionRow) /\ DOMAIN session' = DOMAIN session
           /\ session'[s].status = to /\ session'[s].entry = session[s].entry
           /\ session'[s].staff = session[s].staff
           /\ \A t \in DOMAIN session \ {s} : session'[t] = session[t]
<1> DEFINE row == [entry |-> session[s].entry, staff |-> session[s].staff,
                   version |-> session[s].version + 1, status |-> to]
<1>1. DOMAIN session = 1 .. Len(session) /\ Len(session) \in Nat
  OBVIOUS
<1>2. session[s] \in SessionRow
  BY <1>1
<1>3. DOMAIN session[s] = {"entry", "staff", "version", "status"}
  BY <1>2 DEF SessionRow
<1>4. row \in SessionRow
  BY <1>2 DEF SessionRow
<1>5. row.status = to /\ row.entry = session[s].entry /\ row.staff = session[s].staff
  OBVIOUS
<1>6. session' = [session EXCEPT ![s] = row]
  <2>1. CASE session' = [session EXCEPT ![s].status = to, ![s].version = @ + 1]
    <3> DEFINE new == [session[s] EXCEPT !.status = to, !.version = @ + 1]
    <3>1. /\ new = [f \in DOMAIN session[s] |-> new[f]] /\ new.entry = session[s].entry
          /\ new.staff = session[s].staff /\ new.version = session[s].version + 1 /\ new.status = to
      BY <1>3
    <3>2. session' = [session EXCEPT ![s] = new]
      BY <2>1
    <3> HIDE DEF new
    <3>3. new = row
      BY <1>3, <3>1
    <3> QED BY <3>2, <3>3
  <2>2. CASE to = session[s].status /\ session' = [session EXCEPT ![s].version = @ + 1]
    <3> DEFINE new == [session[s] EXCEPT !.version = @ + 1]
    <3>1. /\ new = [f \in DOMAIN session[s] |-> new[f]] /\ new.entry = session[s].entry
          /\ new.staff = session[s].staff /\ new.version = session[s].version + 1 /\ new.status = to
      BY <1>3, <2>2
    <3>2. session' = [session EXCEPT ![s] = new]
      BY <2>2
    <3> HIDE DEF new
    <3>3. new = row
      BY <1>3, <3>1
    <3> QED BY <3>2, <3>3
  <2> QED BY <2>1, <2>2
<1> HIDE DEF row
<1>7. DOMAIN session' = DOMAIN session /\ session'[s] = row
      /\ \A t \in DOMAIN session \ {s} : session'[t] = session[t]
  BY <1>6
<1>8. session' \in Seq(SessionRow)
  BY <1>1, <1>4, <1>6
<1> QED BY <1>5, <1>7, <1>8

\* Its items are replaced, which is a new version of the session.
LEMMA ItemsKeep ==
    ASSUME DayInv, NEW r \in Request, NEW s \in DOMAIN session,
           session' = [session EXCEPT ![s].version = @ + 1], End(r),
           entry' = entry, revision' = revision, key' = key, appointment' = appointment
    PROVE  DayInv'
<1>1. TablesTyped /\ SessionsSound /\ ProvidersSound /\ EntriesSound /\ RequestsSound
  BY DEF DayInv
<1>2. session \in Seq(SessionRow)
  BY <1>1 DEF TablesTyped
<1>3. session[s].status \in {"IN_PROGRESS", "COMPLETED", "CANCELLED"}
  <2>1. session[s] \in SessionRow
    BY <1>2
  <2> QED BY <2>1 DEF SessionRow
<1>4. /\ session' \in Seq(SessionRow) /\ DOMAIN session' = DOMAIN session
      /\ \A t \in DOMAIN session : /\ session'[t].status = session[t].status
                                   /\ session'[t].entry = session[t].entry
                                   /\ session'[t].staff = session[t].staff
  BY <1>2, <1>3, SessionTable
<1>5. TablesTyped'
  BY <1>1, <1>4 DEF TablesTyped
<1>6. SessionsSound'
  BY <1>1, <1>4 DEF SessionsSound
<1>7. ProvidersSound'
  BY <1>1, <1>4 DEF ProvidersSound, Active
<1>8. EntriesSound'
  BY <1>1 DEF EntriesSound
<1>9. RequestsSound'
  BY <1>1, <1>4, EndKeeps
<1> QED BY <1>5, <1>6, <1>7, <1>8, <1>9 DEF DayInv

Ends(s, to) == session' = [session EXCEPT ![s].status = to, ![s].version = @ + 1]

\* A session ends with its entry: completed with it, or cancelled, and then the
\* customer waits again or has left.
LEMMA CloseKeeps ==
    ASSUME DayInv, NEW r \in Request, NEW s \in DOMAIN session, NEW to, NEW entryTo,
           <<to, entryTo>> \in {<<"COMPLETED", "COMPLETED">>,
                                <<"CANCELLED", "WAITING">>, <<"CANCELLED", "CANCELLED">>},
           Active(s), entry[session[s].entry].status = "IN_SERVICE",
           Ends(s, to),
           ToStatus(session[s].entry, "IN_SERVICE", entryTo), End(r),
           key' = key, appointment' = appointment
    PROVE  DayInv'
<1> DEFINE e == session[s].entry
<1>1. TablesTyped /\ SessionsSound /\ ProvidersSound /\ EntriesSound /\ RequestsSound
  BY DEF DayInv
<1>2. /\ e \in DOMAIN entry /\ to \in {"COMPLETED", "CANCELLED"}
      /\ "IN_SERVICE" \in EntryStatus /\ entryTo \in EntryStatus /\ entryTo # "IN_SERVICE"
      /\ to = "COMPLETED" <=> entryTo = "COMPLETED"
  BY <1>1 DEF SessionsSound, EntryStatus
<1>3. /\ entry' \in Seq(EntryRow) /\ Len(entry') = Len(entry) /\ DOMAIN entry' = DOMAIN entry
      /\ entry'[e].status = entryTo /\ entry'[e].appointment = entry[e].appointment
      /\ \A f \in DOMAIN entry \ {e} : entry'[f] = entry[f]
      /\ revision' = revision + 1
  BY <1>1, <1>2, StatusTable
<1>4. session \in Seq(SessionRow)
  BY <1>1 DEF TablesTyped
<1>5. /\ session' \in Seq(SessionRow) /\ DOMAIN session' = DOMAIN session
      /\ session'[s].status = to /\ session'[s].entry = e /\ session'[s].staff = session[s].staff
      /\ \A t \in DOMAIN session \ {s} : session'[t] = session[t]
  BY <1>2, <1>4, SessionTable DEF Ends
<1>6. /\ entry[e].status = "IN_SERVICE" /\ session[s].status = "IN_PROGRESS"
      /\ \A t \in DOMAIN session \ {s} : session[t].entry = e => session[t].status \notin {"IN_PROGRESS", "COMPLETED"}
  BY <1>1 DEF SessionsSound, Active
<1> HIDE DEF e
<1>7. TablesTyped'
  BY <1>1, <1>3, <1>5 DEF TablesTyped
<1>8. SessionsSound'
  <2>1. \A t \in DOMAIN session' : session'[t].entry = session[t].entry
    BY <1>5 DEF e
  <2>2. \A t \in DOMAIN session' : session'[t].entry \in DOMAIN entry'
    BY <1>1, <1>3, <1>5, <2>1 DEF SessionsSound
  <2>3. \A t \in DOMAIN session' :
          /\ session'[t].status = "IN_PROGRESS" => entry'[session'[t].entry].status = "IN_SERVICE"
          /\ session'[t].status = "COMPLETED" => entry'[session'[t].entry].status = "COMPLETED"
    <3>1. SUFFICES ASSUME NEW t \in DOMAIN session
                   PROVE  /\ session'[t].status = "IN_PROGRESS" => entry'[session'[t].entry].status = "IN_SERVICE"
                          /\ session'[t].status = "COMPLETED" => entry'[session'[t].entry].status = "COMPLETED"
      BY <1>5
    <3>2. CASE t = s
      BY <1>2, <1>3, <1>5, <3>2
    <3>3. CASE t # s
      BY <1>1, <1>3, <1>5, <1>6, <3>3 DEF SessionsSound
    <3> QED BY <3>2, <3>3
  <2>4. \A f \in DOMAIN entry' :
          /\ entry'[f].status = "IN_SERVICE" =>
                \E t \in DOMAIN session' : session'[t].entry = f /\ session'[t].status = "IN_PROGRESS"
          /\ entry'[f].status = "COMPLETED" =>
                \E t \in DOMAIN session' : session'[t].entry = f /\ session'[t].status = "COMPLETED"
    <3>1. SUFFICES ASSUME NEW f \in DOMAIN entry
                   PROVE  /\ entry'[f].status = "IN_SERVICE" =>
                                \E t \in DOMAIN session' : session'[t].entry = f /\ session'[t].status = "IN_PROGRESS"
                          /\ entry'[f].status = "COMPLETED" =>
                                \E t \in DOMAIN session' : session'[t].entry = f /\ session'[t].status = "COMPLETED"
      BY <1>3
    <3>2. CASE f = e
      BY <1>2, <1>3, <1>5, <3>2
    <3>3. CASE f # e
      <4>1. entry'[f].status = entry[f].status /\ s \in DOMAIN session /\ session[s].entry = e
        BY <1>3, <3>3 DEF e
      <4>2. \A t \in DOMAIN session : session[t].entry = f => session'[t] = session[t]
        BY <1>5, <3>3, <4>1
      <4>3. /\ entry[f].status = "IN_SERVICE" =>
                 \E t \in DOMAIN session : session[t].entry = f /\ session[t].status = "IN_PROGRESS"
            /\ entry[f].status = "COMPLETED" =>
                 \E t \in DOMAIN session : session[t].entry = f /\ session[t].status = "COMPLETED"
        BY <1>1, <3>1 DEF SessionsSound
      <4>4. DOMAIN session' = DOMAIN session
        BY <1>5
      <4> QED BY <4>1, <4>2, <4>3, <4>4
    <3> QED BY <3>2, <3>3
  <2>5. \A t, u \in DOMAIN session' :
          session'[t].entry = session'[u].entry /\ session'[t].status = session'[u].status
            /\ session'[t].status # "CANCELLED" => t = u
    BY <1>1, <1>2, <1>5, <1>6 DEF SessionsSound
  <2> QED BY <2>2, <2>3, <2>4, <2>5 DEF SessionsSound
<1>9. ProvidersSound'
  BY <1>1, <1>2, <1>5 DEF ProvidersSound, Active
<1>10. EntriesSound'
  BY <1>1, <1>3 DEF EntriesSound
<1>11. RequestsSound'
  BY <1>1, <1>3, <1>5, EndKeeps
<1> QED BY <1>7, <1>8, <1>9, <1>10, <1>11 DEF DayInv
-----------------------------------------------------------------------------
(* Every action.                                                           *)

\* The commands that only read.
LEMMA ReadsKeep ==
    ASSUME DayInv, NEW r \in Request
    PROVE  /\ \A k \in Key \cup {None} : WalkIn(r, k) => DayInv'
           /\ \A k \in Key \cup {None}, a \in Appointment : CheckIn(r, a, k) => DayInv'
           /\ \A e \in DOMAIN entry :
                 /\ Call(r, e) \/ ReturnToWaiting(r, e) \/ CancelEntry(r, e) \/ NoShow(r, e) => DayInv'
                 /\ Assign(r, e) => DayInv'
                 /\ \A p \in Staff : Start(r, e, p) => DayInv'
           /\ \A s \in DOMAIN session :
                 ReplaceItems(r, s) \/ Complete(r, s) \/ ReturnToQueue(r, s) \/ CancelVisit(r, s) => DayInv'
<1>1. ASSUME NEW k \in Key \cup {None}, WalkIn(r, k) PROVE DayInv'
  <2> DEFINE q == [op |-> "walkIn", key |-> k]
  <2>1. q.op \in Op /\ Holding(q) /\ Begin(r, q)
    BY <1>1 DEF Op, Holding, WalkIn
  <2> HIDE DEF q
  <2> QED BY <2>1, BeginKeeps
<1>2. ASSUME NEW k \in Key \cup {None}, NEW a \in Appointment, CheckIn(r, a, k) PROVE DayInv'
  <2> DEFINE q == [op |-> "checkIn", appointment |-> a, key |-> k]
  <2>1. q.op \in Op /\ Holding(q) /\ Begin(r, q)
    BY <1>2 DEF Op, Holding, CheckIn
  <2> HIDE DEF q
  <2> QED BY <2>1, BeginKeeps
<1>3. ASSUME NEW e \in DOMAIN entry, NEW to \in {"WAITING", "CALLED", "CANCELLED", "NO_SHOW"}, Move(r, e, to)
      PROVE  DayInv'
  <2> DEFINE q == [op |-> "move", entry |-> e, read |-> Version(e), to |-> to]
  <2>1. q.op \in Op /\ Begin(r, q)
    BY <1>3 DEF Op, Move
  <2>2. entry[e].status \in {"WAITING", "CALLED"} /\ to # entry[e].status
    <3>1. entry[e] \in EntryRow
      BY DEF DayInv, TablesTyped
    <3>2. entry[e].status \in EntryStatus
      BY <3>1 DEF EntryRow
    <3> QED BY <1>3, <3>2 DEF Move, Allowed, EntryStatus
  <2>3. Holding(q)
    BY <2>2 DEF Holding, Version
  <2> HIDE DEF q
  <2> QED BY <2>1, <2>3, BeginKeeps
<1>4. ASSUME NEW e \in DOMAIN entry, Assign(r, e) PROVE DayInv'
  <2> DEFINE q == [op |-> "assign", entry |-> e, read |-> Version(e)]
  <2>1. q.op \in Op /\ Holding(q) /\ Begin(r, q)
    BY <1>4 DEF Op, Holding, Assign
  <2> HIDE DEF q
  <2> QED BY <2>1, BeginKeeps
<1>5. ASSUME NEW e \in DOMAIN entry, NEW p \in Staff, Start(r, e, p) PROVE DayInv'
  <2> DEFINE q == [op |-> "start", entry |-> e, read |-> Version(e), staff |-> p]
  <2>1. q.op \in Op /\ Holding(q) /\ Begin(r, q)
    BY <1>5 DEF Op, Holding, Start, Version
  <2> HIDE DEF q
  <2> QED BY <2>1, BeginKeeps
<1>6. ASSUME NEW s \in DOMAIN session, ReplaceItems(r, s) PROVE DayInv'
  <2> DEFINE q == [op |-> "items", session |-> s, version |-> session[s].version]
  <2>1. q.op \in Op /\ Holding(q) /\ Begin(r, q)
    BY <1>6 DEF Op, Holding, ReplaceItems
  <2> HIDE DEF q
  <2> QED BY <2>1, BeginKeeps
<1>7. ASSUME NEW s \in DOMAIN session, NEW to, NEW entryTo, EndSession(r, s, to, entryTo),
             <<to, entryTo>> \in {<<"COMPLETED", "COMPLETED">>,
                                  <<"CANCELLED", "WAITING">>, <<"CANCELLED", "CANCELLED">>}
      PROVE  DayInv'
  <2> DEFINE q == [op |-> "end", session |-> s, version |-> session[s].version,
                   to |-> to, entryTo |-> entryTo]
  <2>1. q.op \in Op /\ Holding(q) /\ Begin(r, q)
    BY <1>7 DEF Op, Holding, EndSession
  <2> HIDE DEF q
  <2> QED BY <2>1, BeginKeeps
<1>8. ASSUME NEW e \in DOMAIN entry, Call(r, e) \/ ReturnToWaiting(r, e) \/ CancelEntry(r, e) \/ NoShow(r, e)
      PROVE  DayInv'
  BY <1>3, <1>8 DEF Call, ReturnToWaiting, CancelEntry, NoShow
<1>9. ASSUME NEW s \in DOMAIN session, Complete(r, s) \/ ReturnToQueue(r, s) \/ CancelVisit(r, s)
      PROVE  DayInv'
  BY <1>7, <1>9 DEF Complete, ReturnToQueue, CancelVisit
<1> QED BY <1>1, <1>2, <1>4, <1>5, <1>6, <1>8, <1>9

\* What a command held at its write.
LEMMA Held ==
    ASSUME DayInv, NEW r \in Request
    PROVE  Holding(req[r])
BY DEF DayInv, RequestsSound

\* The commands that write.
LEMMA WritesKeep ==
    ASSUME DayInv, NEW r \in Request
    PROVE  /\ AdmitWalkIn(r) => DayInv'
           /\ AdmitAppointment(r) => DayInv'
           /\ Transition(r) => DayInv'
           /\ SaveAssignment(r) => DayInv'
           /\ OpenSession(r) => DayInv'
           /\ SaveItems(r) => DayInv'
           /\ CloseSession(r) => DayInv'
<1>0. Holding(req[r])
  BY Held
<1>1. ASSUME AdmitWalkIn(r) PROVE DayInv'
  <2>1. req[r].key \in Key \cup {None} /\ appointment' = appointment
    BY <1>0, <1>1 DEF Holding, AdmitWalkIn
  <2>2. CASE Admit(r, None) /\ End(r) /\ session' = session
    BY <2>1, <2>2, AdmitKeeps
  <2>3. CASE Refuse(r)
    BY <2>1, <2>3, RefuseKeeps
  <2> QED BY <1>1, <2>2, <2>3 DEF AdmitWalkIn
<1>2. ASSUME AdmitAppointment(r) PROVE DayInv'
  <2> DEFINE a == req[r].appointment
  <2>1. req[r].key \in Key \cup {None} /\ a \in Appointment /\ appointment' = appointment
    BY <1>0, <1>2 DEF Holding, AdmitAppointment
  <2>2. CASE Admissible(r, a) /\ Admit(r, a) /\ End(r) /\ session' = session
    <3>1. ~CheckedIn(a)
      BY <2>2 DEF Admissible
    <3> HIDE DEF a
    <3> QED BY <2>1, <2>2, <3>1, AdmitKeeps
  <2>3. CASE Refuse(r)
    BY <2>1, <2>3, RefuseKeeps
  <2> QED BY <1>2, <2>2, <2>3 DEF AdmitAppointment
<1>3. ASSUME Transition(r) PROVE DayInv'
  <2> DEFINE e == req[r].entry
             to == req[r].to
  <2>1. /\ e \in DOMAIN entry /\ req[r].read.status \in {"WAITING", "CALLED"}
        /\ to \in {"WAITING", "CALLED", "CANCELLED", "NO_SHOW"} /\ appointment' = appointment
    BY <1>0, <1>3 DEF Holding, Transition
  <2>2. CASE /\ Unchanged(r) /\ ToStatus(e, req[r].read.status, to) /\ End(r)
             /\ session' = session /\ key' = key
    <3>1. entry[e].status = req[r].read.status
      BY <2>2 DEF Unchanged, Version
    <3> HIDE DEF e, to
    <3> QED BY <2>1, <2>2, <3>1, MoveKeeps
  <2>3. CASE Refuse(r)
    BY <2>1, <2>3, RefuseKeeps
  <2> QED BY <1>3, <2>2, <2>3 DEF Transition
<1>4. ASSUME SaveAssignment(r) PROVE DayInv'
  <2> DEFINE e == req[r].entry
  <2>1. e \in DOMAIN entry /\ appointment' = appointment
    BY <1>0, <1>4 DEF Holding, SaveAssignment
  <2>2. CASE /\ entry' = [entry EXCEPT ![e].version = @ + 1] /\ revision' = revision + 1 /\ End(r)
             /\ session' = session /\ key' = key
    <3> HIDE DEF e
    <3> QED BY <2>1, <2>2, AssignKeeps
  <2>3. CASE Refuse(r)
    BY <2>1, <2>3, RefuseKeeps
  <2> QED BY <1>4, <2>2, <2>3 DEF SaveAssignment
<1>5. ASSUME OpenSession(r) PROVE DayInv'
  <2> DEFINE e == req[r].entry
             p == req[r].staff
  <2>1. /\ e \in DOMAIN entry /\ p \in Staff /\ req[r].read.status \in {"WAITING", "CALLED"}
        /\ appointment' = appointment
    BY <1>0, <1>5 DEF Holding, OpenSession
  <2>2. CASE /\ Unchanged(r) /\ ~Serving(p) /\ ~InService(e)
             /\ ToStatus(e, req[r].read.status, "IN_SERVICE") /\ End(r) /\ key' = key
             /\ session' = Append(session, [entry |-> e, staff |-> p, version |-> 1,
                                            status |-> "IN_PROGRESS"])
    <3>1. entry[e].status = req[r].read.status
      BY <2>2 DEF Unchanged, Version
    <3> HIDE DEF e, p
    <3> QED BY <2>1, <2>2, <3>1, OpenKeeps
  <2>3. CASE Refuse(r)
    BY <2>1, <2>3, RefuseKeeps
  <2> QED BY <1>5, <2>2, <2>3 DEF OpenSession
<1>6. ASSUME SaveItems(r) PROVE DayInv'
  <2> DEFINE s == req[r].session
  <2>1. s \in DOMAIN session /\ appointment' = appointment
    BY <1>0, <1>6 DEF Holding, SaveItems
  <2>2. CASE /\ session' = [session EXCEPT ![s].version = @ + 1] /\ End(r)
             /\ entry' = entry /\ revision' = revision /\ key' = key
    <3> HIDE DEF s
    <3> QED BY <2>1, <2>2, ItemsKeep
  <2>3. CASE Refuse(r)
    BY <2>1, <2>3, RefuseKeeps
  <2> QED BY <1>6, <2>2, <2>3 DEF SaveItems
<1>7. ASSUME CloseSession(r) PROVE DayInv'
  <2> DEFINE s == req[r].session
             to == req[r].to
             entryTo == req[r].entryTo
  <2>1. /\ s \in DOMAIN session /\ appointment' = appointment
        /\ <<to, entryTo>> \in {<<"COMPLETED", "COMPLETED">>,
                                <<"CANCELLED", "WAITING">>, <<"CANCELLED", "CANCELLED">>}
    BY <1>0, <1>7 DEF Holding, CloseSession
  <2>2. CASE /\ Active(s) /\ entry[session[s].entry].status = "IN_SERVICE"
             /\ session' = [session EXCEPT ![s].status = to, ![s].version = @ + 1]
             /\ ToStatus(session[s].entry, "IN_SERVICE", entryTo) /\ End(r) /\ key' = key
    <3> HIDE DEF s, to, entryTo
    <3>1. Ends(s, to)
      BY <2>2 DEF Ends
    <3> QED BY <2>1, <2>2, <3>1, CloseKeeps
  <2>3. CASE Refuse(r)
    BY <2>1, <2>3, RefuseKeeps
  <2> QED BY <1>7, <2>2, <2>3 DEF CloseSession, SameSession
<1> QED BY <1>1, <1>2, <1>3, <1>4, <1>5, <1>6, <1>7

\* What happens to an appointment leaves the queue alone.
LEMMA AppointKeeps ==
    ASSUME DayInv, NEW a \in Appointment, NEW status \in AppointmentStatus, Appoint(a, status)
    PROVE  DayInv'
<1>1. /\ appointment' = [appointment EXCEPT ![a] = status]
      /\ entry' = entry /\ session' = session /\ revision' = revision /\ key' = key /\ req' = req
  BY DEF Appoint
<1>2. appointment' \in [Appointment -> AppointmentStatus]
  BY <1>1 DEF DayInv, TablesTyped
<1>3. TablesTyped'
  BY <1>1, <1>2 DEF DayInv, TablesTyped
<1>4. RequestsSound'
  BY <1>1 DEF DayInv, RequestsSound, Holding
<1>5. SessionsSound' /\ ProvidersSound' /\ EntriesSound'
  BY <1>1 DEF DayInv, SessionsSound, ProvidersSound, EntriesSound, Active
<1> QED BY <1>3, <1>4, <1>5 DEF DayInv

\* The day begins empty.
LEMMA InitDay == Init => DayInv
<1> SUFFICES ASSUME Init PROVE DayInv
  OBVIOUS
<1>1. TablesTyped
  BY VisitsAssumption DEF Init, TablesTyped, AppointmentStatus
<1>2. DOMAIN entry = {} /\ DOMAIN session = {}
  BY DEF Init
<1>3. SessionsSound /\ ProvidersSound /\ EntriesSound
  BY <1>2 DEF SessionsSound, ProvidersSound, EntriesSound
<1>4. RequestsSound
  BY DEF Init, RequestsSound, Holding, Idle
<1> QED BY <1>1, <1>3, <1>4 DEF DayInv

\* Every step keeps the invariant.
LEMMA NextKeepsDay == DayInv /\ [Next]_vars => DayInv'
<1> SUFFICES ASSUME DayInv, [Next]_vars PROVE DayInv'
  OBVIOUS
<1>1. ASSUME NEW a \in Appointment, CancelAppointment(a) \/ MarkNoShow(a) \/ RescheduleLater(a)
      PROVE  DayInv'
  <2>1. \E status \in AppointmentStatus : Appoint(a, status)
    BY <1>1 DEF CancelAppointment, MarkNoShow, RescheduleLater, AppointmentStatus
  <2> QED BY <2>1, AppointKeeps
<1>2. ASSUME NEW r \in Request,
             \/ \E k \in Key \cup {None} : WalkIn(r, k) \/ \E a \in Appointment : CheckIn(r, a, k)
             \/ \E e \in DOMAIN entry :
                  \/ Call(r, e) \/ ReturnToWaiting(r, e) \/ CancelEntry(r, e) \/ NoShow(r, e)
                  \/ Assign(r, e)
                  \/ \E p \in Staff : Start(r, e, p)
             \/ \E s \in DOMAIN session :
                  ReplaceItems(r, s) \/ Complete(r, s) \/ ReturnToQueue(r, s) \/ CancelVisit(r, s)
      PROVE  DayInv'
  BY <1>2, ReadsKeep
<1>3. ASSUME NEW r \in Request,
             \/ AdmitWalkIn(r) \/ AdmitAppointment(r) \/ Transition(r) \/ SaveAssignment(r)
             \/ OpenSession(r) \/ SaveItems(r) \/ CloseSession(r)
      PROVE  DayInv'
  BY <1>3, WritesKeep
<1>4. CASE UNCHANGED vars
  BY <1>4 DEF vars, DayInv, TablesTyped, SessionsSound, ProvidersSound, EntriesSound,
              RequestsSound, Holding, Active
<1> QED BY <1>1, <1>2, <1>3, <1>4 DEF Next

\* Hence it always holds.
LEMMA DayHolds == Spec => []DayInv
BY InitDay, NextKeepsDay, PTL DEF Spec
-----------------------------------------------------------------------------
(* Who is served.                                                          *)

\* The tables of a day are finite.
LEMMA DayFinite ==
    ASSUME DayInv
    PROVE  IsFiniteSet(DOMAIN entry) /\ IsFiniteSet(DOMAIN session)
<1>1. /\ DOMAIN entry = 1 .. Len(entry) /\ Len(entry) \in Nat
      /\ DOMAIN session = 1 .. Len(session) /\ Len(session) \in Nat
  BY DEF DayInv, TablesTyped
<1> QED BY <1>1, FS_Interval

\* A set with at most one element counts one or nothing.
LEMMA AtMostOne ==
    ASSUME NEW S, \A x, y \in S : x = y
    PROVE  /\ S # {} => Cardinality(S) = 1
           /\ S = {} => Cardinality(S) = 0
           /\ Cardinality(S) <= 1
<1>1. CASE S = {}
  BY <1>1, FS_EmptySet
<1>2. CASE S # {}
  <2>1. PICK x \in S : TRUE
    BY <1>2
  <2>2. S = {x}
    BY <2>1
  <2> QED BY <2>2, FS_Singleton
<1> QED BY <1>1, <1>2

\* An entry IN_SERVICE has one session in progress, a COMPLETED one a completed session.
LEMMA VisitCounts ==
    ASSUME DayInv, NEW e \in DOMAIN entry, NEW st \in {"IN_SERVICE", "COMPLETED"}
    PROVE  Cardinality(SessionsOf(e, IF st = "IN_SERVICE" THEN "IN_PROGRESS" ELSE "COMPLETED"))
              = IF entry[e].status = st THEN 1 ELSE 0
<1> DEFINE status == IF st = "IN_SERVICE" THEN "IN_PROGRESS" ELSE "COMPLETED"
           S == {s \in DOMAIN session : session[s].entry = e /\ session[s].status = status}
<1>1. SessionsSound /\ status # "CANCELLED"
  BY DEF DayInv
<1>2. \A s, t \in S : s = t
  BY <1>1 DEF SessionsSound
<1>3. entry[e].status = st => S # {}
  BY <1>1 DEF SessionsSound
<1>4. S # {} => entry[e].status = st
  BY <1>1 DEF SessionsSound
<1>5. S = SessionsOf(e, status)
  BY DEF SessionsOf
<1> HIDE DEF S, status
<1>6. Cardinality(S) = IF entry[e].status = st THEN 1 ELSE 0
  BY <1>2, <1>3, <1>4, AtMostOne
<1> QED BY <1>5, <1>6 DEF status

\* A customer is in service exactly while one session is under way for them and
\* completed exactly when one was completed; no provider serves two customers.
THEOREM VisitsMatch == Spec => []VisitMatchesSessions
<1>1. DayInv => VisitMatchesSessions
  <2> SUFFICES ASSUME DayInv PROVE VisitMatchesSessions
    OBVIOUS
  <2>1. TypeOK
    BY DEF DayInv, TablesTyped, RequestsSound, TypeOK
  <2>2. ASSUME NEW e \in DOMAIN entry
        PROVE  /\ Cardinality(SessionsOf(e, "IN_PROGRESS")) = IF entry[e].status = "IN_SERVICE" THEN 1 ELSE 0
               /\ Cardinality(SessionsOf(e, "COMPLETED")) = IF entry[e].status = "COMPLETED" THEN 1 ELSE 0
    BY VisitCounts
  <2>3. ProvidersSound
    BY DEF DayInv
  <2> QED BY <2>1, <2>2, <2>3 DEF VisitMatchesSessions, ProvidersSound
<1> QED BY <1>1, DayHolds, PTL
-----------------------------------------------------------------------------
(* What is on record.                                                      *)

\* An entry is updated: its version, and with its status the history, count it.
Touched(e) ==
    /\ DOMAIN entry' = DOMAIN entry
    /\ \A f \in DOMAIN entry \ {e} : entry'[f] = entry[f]
    /\ entry'[e].version = entry[e].version + 1
    /\ revision' = revision + 1
    /\ \/ entry'[e].status = entry[e].status /\ entry'[e].last = entry[e].last
       \/ /\ entry'[e].status # entry[e].status
          /\ entry'[e].last = <<entry[e].status, entry'[e].status>>
          /\ entry[e].status \notin {"COMPLETED", "CANCELLED", "NO_SHOW"}

\* An entry is added, at its first version.
Entered(e) ==
    /\ e \notin DOMAIN entry
    /\ DOMAIN entry' = DOMAIN entry \cup {e}
    /\ \A f \in DOMAIN entry : entry'[f] = entry[f]
    /\ entry'[e].version = 1
    /\ revision' = revision + 1

\* A change of a status is on record.
LEMMA TouchedByStatus ==
    ASSUME TablesTyped, NEW e \in DOMAIN entry, NEW from \in EntryStatus, NEW to \in EntryStatus,
           ToStatus(e, from, to), entry[e].status = from, from # to,
           from \notin {"COMPLETED", "CANCELLED", "NO_SHOW"}
    PROVE  Touched(e)
BY StatusTable DEF Touched

\* An admission is on record.
LEMMA EnteredByAdmission ==
    ASSUME TablesTyped, NEW r \in Request, NEW a, Admit(r, a)
    PROVE  Entered(Len(entry) + 1)
<1> DEFINE row == [appointment |-> a, status |-> "WAITING", version |-> 1, last |-> <<None, "WAITING">>]
           n == Len(entry) + 1
<1>1. Len(entry) \in Nat /\ DOMAIN entry = 1 .. Len(entry) /\ entry \in Seq(EntryRow)
  BY DEF TablesTyped
<1>2. row.version = 1
  OBVIOUS
<1>3. entry' = Append(entry, row) /\ revision' = revision + 1
  BY DEF Admit
<1> HIDE DEF row
<1>4. DOMAIN entry' = 1 .. n /\ entry'[n] = row /\ \A e \in DOMAIN entry : entry'[e] = entry[e]
  BY <1>1, <1>3
<1> QED BY <1>1, <1>2, <1>3, <1>4 DEF Entered

\* Every step leaves the queue alone, updates one entry or adds one.
LEMMA QueueSteps ==
    ASSUME DayInv, [Next]_vars
    PROVE  \/ entry' = entry /\ revision' = revision
           \/ \E e \in DOMAIN entry : Touched(e)
           \/ \E e : Entered(e)
<1> DEFINE Goal == \/ entry' = entry /\ revision' = revision
                   \/ \E e \in DOMAIN entry : Touched(e)
                   \/ \E e : Entered(e)
<1> SUFFICES Goal
  OBVIOUS
<1>0. TablesTyped
  BY DEF DayInv
<1>1. ASSUME NEW a \in Appointment, CancelAppointment(a) \/ MarkNoShow(a) \/ RescheduleLater(a)
      PROVE  Goal
  BY <1>1 DEF CancelAppointment, MarkNoShow, RescheduleLater, Appoint
<1>2. ASSUME NEW r \in Request, NEW q, Begin(r, q)
      PROVE  Goal
  BY <1>2 DEF Begin
<1>3. ASSUME NEW r \in Request, Refuse(r)
      PROVE  Goal
  BY <1>3 DEF Refuse
<1>4. ASSUME NEW r \in Request, AdmitWalkIn(r)
      PROVE  Goal
  BY <1>0, <1>3, <1>4, EnteredByAdmission DEF AdmitWalkIn
<1>5. ASSUME NEW r \in Request, AdmitAppointment(r)
      PROVE  Goal
  BY <1>0, <1>3, <1>5, EnteredByAdmission DEF AdmitAppointment
<1>6. ASSUME NEW r \in Request, Transition(r)
      PROVE  Goal
  <2> DEFINE e == req[r].entry
             to == req[r].to
             from == req[r].read.status
  <2>1. /\ e \in DOMAIN entry /\ from \in {"WAITING", "CALLED"}
        /\ to \in {"WAITING", "CALLED", "CANCELLED", "NO_SHOW"} \ {from}
    BY <1>6, Held DEF Holding, Transition
  <2>2. CASE Unchanged(r) /\ ToStatus(e, from, to)
    <3>1. entry[e].status = from
      BY <2>2 DEF Unchanged, Version
    <3>2. from \in EntryStatus /\ to \in EntryStatus
      BY <2>1 DEF EntryStatus
    <3> HIDE DEF e, to, from
    <3> QED BY <1>0, <2>1, <2>2, <3>1, <3>2, TouchedByStatus
  <2> QED BY <1>3, <1>6, <2>2 DEF Transition
<1>7. ASSUME NEW r \in Request, SaveAssignment(r)
      PROVE  Goal
  <2> DEFINE e == req[r].entry
  <2>1. e \in DOMAIN entry
    BY <1>7, Held DEF Holding, SaveAssignment
  <2>2. CASE entry' = [entry EXCEPT ![e].version = @ + 1] /\ revision' = revision + 1
    <3> HIDE DEF e
    <3>1. Touched(e)
      BY <1>0, <2>1, <2>2, AssignTable DEF Touched
    <3> QED BY <2>1, <3>1
  <2> QED BY <1>3, <1>7, <2>2 DEF SaveAssignment
<1>8. ASSUME NEW r \in Request, OpenSession(r)
      PROVE  Goal
  <2> DEFINE e == req[r].entry
             from == req[r].read.status
  <2>1. e \in DOMAIN entry /\ from \in {"WAITING", "CALLED"}
    BY <1>8, Held DEF Holding, OpenSession
  <2>2. CASE Unchanged(r) /\ ToStatus(e, from, "IN_SERVICE")
    <3>1. entry[e].status = from
      BY <2>2 DEF Unchanged, Version
    <3>2. from \in EntryStatus /\ "IN_SERVICE" \in EntryStatus
      BY <2>1 DEF EntryStatus
    <3> HIDE DEF e, from
    <3> QED BY <1>0, <2>1, <2>2, <3>1, <3>2, TouchedByStatus
  <2> QED BY <1>3, <1>8, <2>2 DEF OpenSession
<1>9. ASSUME NEW r \in Request, SaveItems(r)
      PROVE  Goal
  BY <1>3, <1>9 DEF SaveItems
<1>10. ASSUME NEW r \in Request, CloseSession(r)
       PROVE  Goal
  <2> DEFINE s == req[r].session
             e == session[s].entry
             to == req[r].entryTo
  <2>1. s \in DOMAIN session /\ to \in {"COMPLETED", "WAITING", "CANCELLED"}
    BY <1>10, Held DEF Holding, CloseSession
  <2>2. e \in DOMAIN entry
    BY <2>1 DEF DayInv, SessionsSound
  <2>3. CASE entry[e].status = "IN_SERVICE" /\ ToStatus(e, "IN_SERVICE", to)
    <3>1. "IN_SERVICE" \in EntryStatus /\ to \in EntryStatus
      BY <2>1 DEF EntryStatus
    <3> HIDE DEF e, to
    <3>2. Touched(e)
      BY <1>0, <2>1, <2>2, <2>3, <3>1, TouchedByStatus
    <3> QED BY <2>2, <3>2
  <2> QED BY <1>3, <1>10, <2>3 DEF CloseSession
<1>11. CASE UNCHANGED vars
  BY <1>11 DEF vars
<1>12. ASSUME NEW r \in Request,
              \/ \E k \in Key \cup {None} : WalkIn(r, k) \/ \E a \in Appointment : CheckIn(r, a, k)
              \/ \E e \in DOMAIN entry :
                   \/ Call(r, e) \/ ReturnToWaiting(r, e) \/ CancelEntry(r, e) \/ NoShow(r, e)
                   \/ Assign(r, e)
                   \/ \E p \in Staff : Start(r, e, p)
              \/ \E s \in DOMAIN session :
                   ReplaceItems(r, s) \/ Complete(r, s) \/ ReturnToQueue(r, s) \/ CancelVisit(r, s)
       PROVE  Goal
  BY <1>2, <1>12 DEF WalkIn, CheckIn, Call, ReturnToWaiting, CancelEntry, NoShow, Move, Assign,
                     Start, ReplaceItems, Complete, ReturnToQueue, CancelVisit, EndSession
<1> HIDE DEF Goal
<1>13. ASSUME NEW r \in Request,
              \/ AdmitWalkIn(r) \/ AdmitAppointment(r) \/ Transition(r) \/ SaveAssignment(r)
              \/ OpenSession(r) \/ SaveItems(r) \/ CloseSession(r)
       PROVE  Goal
  BY <1>4, <1>5, <1>6, <1>7, <1>8, <1>9, <1>10, <1>13
<1> QED BY <1>1, <1>11, <1>12, <1>13 DEF Next

\* The revision grows by what the versions grow by.
LEMMA RevisionCounts ==
    ASSUME DayInv, DayInv', RevisionCountsChanges, [Next]_vars
    PROVE  RevisionCountsChanges'
<1> DEFINE old == [e \in DOMAIN entry |-> entry[e].version]
           new == [e \in DOMAIN entry' |-> entry'[e].version]
           D == DOMAIN entry
<1>1. revision = SumFunctionOnSet(old, D) /\ revision \in Int
  BY DEF RevisionCountsChanges, SumFunction, DayInv, TablesTyped
<1>2. IsFiniteSet(D)
  BY DayFinite
<1>3. \A e \in DOMAIN entry' : entry'[e].version \in Int
  <2>1. entry' \in Seq(EntryRow)
    BY DEF DayInv, TablesTyped
  <2>2. \A e \in DOMAIN entry' : entry'[e] \in EntryRow
    BY <2>1
  <2> QED BY <2>2 DEF EntryRow
<1>4. \A e \in D : entry[e].version \in Int
  <2>1. \A e \in D : entry[e] \in EntryRow
    BY DEF DayInv, TablesTyped
  <2> QED BY <2>1 DEF EntryRow
<1>5. /\ \A e \in D : old[e] = entry[e].version
      /\ \A e \in DOMAIN entry' : new[e] = entry'[e].version
      /\ DOMAIN new = DOMAIN entry'
  OBVIOUS
<1>6. SumFunction(new) = SumFunctionOnSet(new, DOMAIN entry')
  BY <1>5 DEF SumFunction
<1>7. SUFFICES revision' = SumFunctionOnSet(new, DOMAIN entry')
  BY <1>6 DEF RevisionCountsChanges
<1>8. CASE entry' = entry /\ revision' = revision
  BY <1>1, <1>8
<1>9. CASE \E e \in DOMAIN entry : Touched(e)
  <2>1. PICK e \in D : Touched(e)
    BY <1>9
  <2>2. /\ DOMAIN entry' = D /\ new[e] = old[e] + 1 /\ revision' = revision + 1
        /\ \A f \in D \ {e} : new[f] = old[f]
        /\ \A f \in D : old[f] \in Int /\ new[f] \in Int
    BY <1>3, <1>4, <1>5, <2>1 DEF Touched
  <2> HIDE DEF old, new, D
  <2>3. SumFunctionOnSet(new, D) = SumFunctionOnSet(old, D) - old[e] + new[e]
    BY <1>2, <2>1, <2>2, SumReplace
  <2> QED BY <1>1, <2>1, <2>2, <2>3
<1>10. CASE \E e : Entered(e)
  <2>1. PICK e : Entered(e)
    BY <1>10
  <2>2. /\ e \notin D /\ DOMAIN entry' = D \cup {e} /\ new[e] = 1 /\ revision' = revision + 1
        /\ \A f \in D : new[f] = old[f]
        /\ \A f \in D \cup {e} : new[f] \in Int
    BY <1>3, <1>5, <2>1 DEF Entered
  <2> HIDE DEF old, new, D
  <2>3. SumFunctionOnSet(new, D \cup {e}) = new[e] + SumFunctionOnSet(new, D)
    BY <1>2, <2>2, SumAdd
  <2>4. SumFunctionOnSet(new, D) = SumFunctionOnSet(old, D)
    BY <1>2, <2>2, SumSame
  <2> QED BY <1>1, <2>2, <2>3, <2>4
<1> HIDE DEF old, new, D
<1> QED BY <1>8, <1>9, <1>10, QueueSteps

\* A history row is written with every change of status and with nothing else,
\* and no finished visit is taken up again.
LEMMA HistoryStep ==
    ASSUME DayInv, [Next]_vars
    PROVE  \A e \in DOMAIN entry :
              IF entry'[e].status = entry[e].status
              THEN entry'[e].last = entry[e].last
              ELSE /\ entry'[e].last = <<entry[e].status, entry'[e].status>>
                   /\ entry[e].status \notin {"COMPLETED", "CANCELLED", "NO_SHOW"}
<1>1. CASE entry' = entry
  BY <1>1
<1>2. CASE \E e \in DOMAIN entry : Touched(e)
  BY <1>2 DEF Touched
<1>3. CASE \E e : Entered(e)
  BY <1>3 DEF Entered
<1> QED BY <1>1, <1>2, <1>3, QueueSteps

\* Every change of the queue is counted once by the revision clients poll, and
\* every change of status is in the history, for any number of entries.
THEOREM ChangesRecorded == Spec => ChangesOnRecord
<1>1. Init => RevisionCountsChanges
  <2> SUFFICES ASSUME Init PROVE RevisionCountsChanges
    OBVIOUS
  <2>1. DOMAIN entry = {} /\ revision = 0
    BY DEF Init
  <2>2. DOMAIN [e \in DOMAIN entry |-> entry[e].version] = {}
    BY <2>1
  <2> QED BY <2>1, <2>2, SumEmpty DEF RevisionCountsChanges, SumFunction
<1>2. Spec => []RevisionCountsChanges
  BY <1>1, RevisionCounts, DayHolds, PTL DEF Spec
<1>3. DayInv /\ [Next]_vars =>
        [\A e \in DOMAIN entry :
           IF entry'[e].status = entry[e].status
           THEN entry'[e].last = entry[e].last
           ELSE /\ entry'[e].last = <<entry[e].status, entry'[e].status>>
                /\ entry[e].status \notin {"COMPLETED", "CANCELLED", "NO_SHOW"}]_vars
  BY HistoryStep
<1>4. Spec => HistoryFollows
  BY <1>3, DayHolds, PTL DEF Spec, HistoryFollows
<1> QED BY <1>2, <1>4, PTL DEF ChangesOnRecord
-----------------------------------------------------------------------------
(* Who enters.                                                             *)

\* A key that stands for an entry stands for it for good.
LEMMA KeysStay ==
    ASSUME DayInv, [Next]_vars, NEW k \in Key, key[k] # 0
    PROVE  key'[k] = key[k]
<1>1. ASSUME NEW r \in Request, NEW a, Unused(req[r].key), Admit(r, a), req[r].key \in Key \cup {None}
      PROVE  key'[k] = key[k]
  <2>1. key \in [Key -> 0 .. MaxTicket]
    BY DEF DayInv, TablesTyped
  <2>2. req[r].key # None => req[r].key # k
    BY <1>1 DEF Unused
  <2> QED BY <1>1, <2>1, <2>2 DEF Admit
<1>2. ASSUME NEW r \in Request, AdmitWalkIn(r)
      PROVE  key'[k] = key[k]
  <2>1. req[r].key \in Key \cup {None}
    BY <1>2, Held DEF Holding, AdmitWalkIn
  <2> QED BY <1>1, <1>2, <2>1 DEF AdmitWalkIn, Refuse
<1>3. ASSUME NEW r \in Request, AdmitAppointment(r)
      PROVE  key'[k] = key[k]
  <2>1. req[r].key \in Key \cup {None}
    BY <1>3, Held DEF Holding, AdmitAppointment
  <2> QED BY <1>1, <1>3, <2>1 DEF AdmitAppointment, Admissible, Refuse
<1>4. ASSUME NEW r \in Request,
             Transition(r) \/ SaveAssignment(r) \/ OpenSession(r) \/ SaveItems(r) \/ CloseSession(r)
      PROVE  key' = key
  BY <1>4 DEF Transition, SaveAssignment, OpenSession, SaveItems, CloseSession, Refuse
<1>5. ASSUME NEW r \in Request,
             \/ \E j \in Key \cup {None} : WalkIn(r, j) \/ \E a \in Appointment : CheckIn(r, a, j)
             \/ \E e \in DOMAIN entry :
                  \/ Call(r, e) \/ ReturnToWaiting(r, e) \/ CancelEntry(r, e) \/ NoShow(r, e)
                  \/ Assign(r, e)
                  \/ \E p \in Staff : Start(r, e, p)
             \/ \E s \in DOMAIN session :
                  ReplaceItems(r, s) \/ Complete(r, s) \/ ReturnToQueue(r, s) \/ CancelVisit(r, s)
      PROVE  key' = key
  BY <1>5 DEF WalkIn, CheckIn, Call, ReturnToWaiting, CancelEntry, NoShow, Move, Assign,
              Start, ReplaceItems, Complete, ReturnToQueue, CancelVisit, EndSession, Begin
<1>6. ASSUME NEW a \in Appointment, CancelAppointment(a) \/ MarkNoShow(a) \/ RescheduleLater(a)
      PROVE  key' = key
  BY <1>6 DEF CancelAppointment, MarkNoShow, RescheduleLater, Appoint
<1>7. CASE UNCHANGED vars
  BY <1>7 DEF vars
<1> QED BY <1>2, <1>3, <1>4, <1>5, <1>6, <1>7 DEF Next

\* An appointment has one entry at most.
LEMMA OneEntryEach ==
    ASSUME DayInv, NEW a \in Appointment
    PROVE  Cardinality({e \in DOMAIN entry : entry[e].appointment = a}) <= 1
<1> DEFINE S == {e \in DOMAIN entry : entry[e].appointment = a}
<1>1. EntriesSound /\ a # None
  BY VisitsAssumption DEF DayInv
<1>2. \A e, f \in S : e = f
  BY <1>1 DEF EntriesSound
<1> HIDE DEF S
<1>3. Cardinality(S) <= 1
  BY <1>2, AtMostOne
<1> QED BY <1>3 DEF S

\* An appointment enters the queue once, and an intake key stands for one entry
\* however often it is sent.
THEOREM EnteredOnce == Spec => CheckedInOnce
<1>1. (\A a \in Appointment : Cardinality({e \in DOMAIN entry : entry[e].appointment = a}) <= 1)'
        <=> \A a \in Appointment : Cardinality({e \in DOMAIN entry' : entry'[e].appointment = a}) <= 1
  OBVIOUS
<1>2. DayInv => \A a \in Appointment : Cardinality({e \in DOMAIN entry : entry[e].appointment = a}) <= 1
  BY OneEntryEach
<1>3. DayInv' => (\A a \in Appointment : Cardinality({e \in DOMAIN entry : entry[e].appointment = a}) <= 1)'
  BY <1>2, PTL
<1>4. DayInv /\ [Next]_vars =>
        [/\ \A a \in Appointment : Cardinality({e \in DOMAIN entry' : entry'[e].appointment = a}) <= 1
         /\ \A k \in Key : key[k] # 0 => key'[k] = key[k]]_vars
  BY <1>1, <1>3, NextKeepsDay, KeysStay
<1> QED BY <1>4, DayHolds, PTL DEF Spec, CheckedInOnce
-----------------------------------------------------------------------------
(* Bookings: the inductive invariant.                                      *)

\* A row of table appointments.
AppointmentRow ==
    [provider : Provider, start : Time, length : Range(Duration), occupied : Int \X Int,
     key : CustomerKey \cup {NoKey}, version : Nat, status : {"CONFIRMED", "CANCELLED", "NO_SHOW"}]

\* The rows are rows, and each holds the window of its start and length.
TablesSound ==
    /\ now \in Time
    /\ usedKey \subseteq CustomerKey
    /\ booked \in Seq(AppointmentRow)
    /\ DOMAIN booked = 1 .. Len(booked) /\ Len(booked) \in Nat
    /\ \A a \in DOMAIN booked :
          /\ booked[a] \in AppointmentRow
          /\ booked[a].occupied = OccupiedWindow(booked[a].start, booked[a].length)

\* Every key on an appointment is taken, and on no other appointment.
KeysSound ==
    /\ \A a \in DOMAIN booked : booked[a].key \in usedKey \cup {NoKey}
    /\ OneAppointmentPerKey

\* What the exclusion constraint keeps.
WindowsApart ==
    \A a, b \in DOMAIN booked :
        a # b /\ Confirmed(a) /\ Confirmed(b) /\ booked[a].provider = booked[b].provider =>
            Minutes(booked[a].occupied) \cap Minutes(booked[b].occupied) = {}

\* A command while n appointments exist.
Asked(x, n) ==
    /\ x.op \in {"idle", "book", "cancel", "noShow", "reschedule"}
    /\ x.op = "book" => x \in [op : {"book"}, key : CustomerKey \cup {NoKey}, left : (SUBSET Provider) \ {{}}, start : Time]
    /\ x.op \in {"cancel", "noShow", "reschedule"} => x.id \in 1 .. n
    /\ x.op = "reschedule" => x.provider \in Provider /\ x.start \in Time

CommandsSound == DOMAIN command = Command /\ \A r \in Command : Asked(command[r], Len(booked))

\* Bookings stay sound because of what the two database constraints keep, the
\* exclusion of windows and the one use of a key, and because a command names a
\* row that stays.
BookInv == TablesSound /\ KeysSound /\ WindowsApart /\ CommandsSound
-----------------------------------------------------------------------------
\* Durations are positive, and an appointment occupies the time it is given in.
LEMMA BoundsTyped ==
    /\ \A p \in Provider : Duration[p] \in Range(Duration)
    /\ \A n \in Range(Duration) : n \in Nat \ {0}
    /\ \A t \in Time, n \in Range(Duration) :
          /\ OccupiedWindow(t, n) \in Int \X Int
          /\ Minutes(ServiceWindow(t, n)) \subseteq Minutes(OccupiedWindow(t, n))
<1>1. \A p \in Provider : Duration[p] \in Range(Duration)
  BY BookingAssumption DEF Range
<1>2. \A n \in Range(Duration) : n \in Nat \ {0}
  BY BookingAssumption DEF Range
<1>3. ASSUME NEW t \in Time, NEW n \in Range(Duration)
      PROVE  /\ OccupiedWindow(t, n) \in Int \X Int
             /\ Minutes(ServiceWindow(t, n)) \subseteq Minutes(OccupiedWindow(t, n))
  <2>1. t \in Int /\ n \in Int /\ BufferBefore \in Nat /\ BufferAfter \in Nat
    BY <1>2, BookingAssumption
  <2> QED BY <2>1 DEF OccupiedWindow, ServiceWindow, Minutes
<1> QED BY <1>1, <1>2, <1>3

\* The first provider left is one of them.
LEMMA FirstIsLeft ==
    ASSUME NEW S \in SUBSET Provider, S # {}
    PROVE  Min(S) \in S
<1>1. S \in SUBSET Nat
  BY BookingAssumption
<1>2. \E x \in S : \A y \in S : x <= y
  <2> DEFINE R == {z \in Nat \X Nat : z[1] < z[2]}
  <2>1. R = OpToRel(<, Nat)
    BY DEF OpToRel
  <2>2. IsWellFoundedOn(R, Nat)
    BY <2>1, NatLessThanWellFounded
  <2>3. S \subseteq Nat
    BY <1>1
  <2> HIDE DEF R
  <2>4. PICK n \in S : \A y \in S : ~ (<<y, n>> \in R)
    BY <2>2, <2>3, WFMin
  <2>5. \A y \in S : ~ (y < n)
    BY <2>3, <2>4 DEF R
  <2> QED BY <2>3, <2>4, <2>5
<1> QED BY <1>2 DEF Min

\* A command that moves while the tables stay.
LEMMA CommandMoves ==
    ASSUME BookInv, NEW r \in Command, NEW x, command' = [command EXCEPT ![r] = x],
           Asked(x, Len(booked)), UNCHANGED <<now, booked, usedKey>>
    PROVE  BookInv'
<1>1. TablesSound' /\ KeysSound' /\ WindowsApart'
  BY DEF BookInv, TablesSound, KeysSound, WindowsApart, OneAppointmentPerKey, Confirmed
<1>2. DOMAIN command' = Command /\ \A q \in Command : Asked(command'[q], Len(booked))
  BY DEF BookInv, CommandsSound
<1>3. Len(booked') = Len(booked)
  OBVIOUS
<1>4. CommandsSound'
  BY <1>2, <1>3 DEF CommandsSound
<1> QED BY <1>1, <1>4 DEF BookInv

\* A slot without a command.
LEMMA IdleAsked == ASSUME NEW n PROVE Asked(NoCommand, n)
BY DEF Asked, NoCommand

\* A booking that finds a free provider and its key unused.
LEMMA BookingKeeps ==
    ASSUME BookInv, NEW r \in Command, NEW p \in Provider, NEW t \in Time, NEW k \in CustomerKey \cup {NoKey},
           ~Excluded(p, OccupiedWindow(t, Duration[p]), 0), k \notin usedKey,
           booked' = Append(booked, NewAppointment(p, t, k)),
           usedKey' = usedKey \cup ({k} \ {NoKey}), EndCommand(r), now' = now
    PROVE  BookInv'
<1> DEFINE n == Len(booked)
           new == NewAppointment(p, t, k)
<1>1. /\ n \in Nat /\ DOMAIN booked = 1 .. n /\ Len(booked') = n + 1
      /\ DOMAIN booked' = 1 .. n + 1 /\ booked'[n + 1] = new
      /\ \A a \in 1 .. n : booked'[a] = booked[a]
      /\ booked' \in Seq(AppointmentRow)
  <2>1. booked \in Seq(AppointmentRow)
    BY DEF BookInv, TablesSound
  <2>2. new \in AppointmentRow
    BY BoundsTyped DEF NewAppointment, AppointmentRow
  <2>3. Append(booked, new) \in Seq(AppointmentRow)
    BY <2>1, <2>2, AppendProperties
  <2> QED BY <2>1, <2>2, <2>3, AppendProperties, LenProperties DEF BookInv, TablesSound
<1>2. new \in AppointmentRow /\ new.occupied = OccupiedWindow(new.start, new.length)
      /\ new.key = k /\ new.provider = p /\ new.status = "CONFIRMED"
      /\ new.occupied = OccupiedWindow(t, Duration[p])
  BY BoundsTyped DEF NewAppointment, AppointmentRow
<1> HIDE DEF n, new
<1>3. TablesSound'
  <2>1. now' \in Time /\ usedKey' \subseteq CustomerKey
    BY DEF BookInv, TablesSound
  <2>2. ASSUME NEW a \in 1 .. n + 1
        PROVE  /\ booked'[a] \in AppointmentRow
               /\ booked'[a].occupied = OccupiedWindow(booked'[a].start, booked'[a].length)
    <3>1. CASE a = n + 1
      BY <1>1, <1>2, <3>1
    <3>2. CASE a \in 1 .. n
      BY <1>1, <3>2 DEF BookInv, TablesSound
    <3> QED BY <1>1, <3>1, <3>2
  <2> QED BY <1>1, <2>1, <2>2 DEF TablesSound
<1>4. KeysSound'
  <2>1. \A a \in 1 .. n : booked[a].key \in usedKey \cup {NoKey}
    BY <1>1 DEF BookInv, KeysSound
  <2>2. \A a \in 1 .. n + 1 : booked'[a].key \in usedKey' \cup {NoKey}
    BY <1>1, <1>2, <2>1
  <2>3. \A a, b \in 1 .. n : booked[a].key # NoKey /\ booked[a].key = booked[b].key => a = b
    BY <1>1 DEF BookInv, KeysSound, OneAppointmentPerKey
  <2>4. \A a \in 1 .. n : booked'[a].key # NoKey => booked'[a].key # booked'[n + 1].key
    BY <1>1, <1>2, <2>1
  <2>5. \A a, b \in 1 .. n + 1 :
            booked'[a].key # NoKey /\ booked'[a].key = booked'[b].key => a = b
    BY <1>1, <2>3, <2>4
  <2> QED BY <1>1, <2>2, <2>5 DEF KeysSound, OneAppointmentPerKey
<1>5. WindowsApart'
  <2>1. \A a \in 1 .. n : Confirmed(a) /\ booked[a].provider = p =>
            Minutes(new.occupied) \cap Minutes(booked[a].occupied) = {}
    BY <1>1, <1>2 DEF Excluded
  <2>2. ASSUME NEW a \in 1 .. n + 1, NEW b \in 1 .. n + 1, a # b,
               booked'[a].status = "CONFIRMED", booked'[b].status = "CONFIRMED",
               booked'[a].provider = booked'[b].provider
        PROVE  Minutes(booked'[a].occupied) \cap Minutes(booked'[b].occupied) = {}
    <3>1. CASE a \in 1 .. n /\ b \in 1 .. n
      BY <1>1, <2>2, <3>1 DEF BookInv, WindowsApart, Confirmed
    <3>2. CASE a = n + 1 /\ b \in 1 .. n
      BY <1>1, <1>2, <2>1, <2>2, <3>2 DEF Confirmed
    <3>3. CASE b = n + 1 /\ a \in 1 .. n
      BY <1>1, <1>2, <2>1, <2>2, <3>3 DEF Confirmed
    <3>4. \A i \in 1 .. n + 1 : i \in 1 .. n \/ i = n + 1
      BY <1>1
    <3> QED BY <2>2, <3>1, <3>2, <3>3, <3>4
  <2> QED BY <1>1, <2>2 DEF WindowsApart, Confirmed
<1>6. CommandsSound'
  <2>1. \A q \in Command : Asked(command[q], n)
    BY DEF BookInv, CommandsSound, n
  <2>2. \A q \in Command : Asked(command[q], n + 1)
    <3>1. 1 .. n \subseteq 1 .. n + 1
      BY <1>1
    <3> QED BY <2>1, <3>1 DEF Asked
  <2>3. DOMAIN command = Command
    BY DEF BookInv, CommandsSound
  <2>4. DOMAIN command' = Command /\ \A q \in Command : Asked(command'[q], n + 1)
    BY <2>2, <2>3, IdleAsked DEF EndCommand
  <2> QED BY <1>1, <2>4 DEF CommandsSound
<1> QED BY <1>3, <1>4, <1>5, <1>6 DEF BookInv

\* A row rewritten under its key: freed, or moved where the constraint allows it.
LEMMA RewriteKeeps ==
    ASSUME BookInv, NEW r \in Command, NEW a \in DOMAIN booked, NEW row \in AppointmentRow,
           booked' = [booked EXCEPT ![a] = row],
           row.key = booked[a].key, row.occupied = OccupiedWindow(row.start, row.length),
           row.status = "CONFIRMED" => ~Excluded(row.provider, row.occupied, a),
           EndCommand(r), UNCHANGED <<now, usedKey>>
    PROVE  BookInv'
<1> DEFINE n == Len(booked)
<1>1. /\ n \in Nat /\ DOMAIN booked = 1 .. n /\ DOMAIN booked' = 1 .. n
      /\ booked'[a] = row /\ \A b \in 1 .. n : b # a => booked'[b] = booked[b]
      /\ a \in 1 .. n /\ Len(booked') = n /\ booked' \in Seq(AppointmentRow)
  <2>1. booked \in Seq(AppointmentRow)
    BY DEF BookInv, TablesSound
  <2>2. booked' \in Seq(AppointmentRow) /\ Len(booked') = n
    BY <2>1, ExceptSeq, LenProperties
  <2> QED BY <2>1, <2>2, LenProperties DEF BookInv, TablesSound
<1> HIDE DEF n
<1>2. TablesSound'
  <2>1. \A b \in 1 .. n :
            /\ booked[b] \in AppointmentRow
            /\ booked[b].occupied = OccupiedWindow(booked[b].start, booked[b].length)
    BY <1>1 DEF BookInv, TablesSound
  <2>2. \A b \in 1 .. n :
            /\ booked'[b] \in AppointmentRow
            /\ booked'[b].occupied = OccupiedWindow(booked'[b].start, booked'[b].length)
    BY <1>1, <2>1
  <2> QED BY <1>1, <2>2 DEF TablesSound, BookInv
<1>3. KeysSound'
  <2>1. \A b \in 1 .. n : booked'[b].key = booked[b].key
    BY <1>1
  <2> QED BY <1>1, <2>1 DEF BookInv, KeysSound, OneAppointmentPerKey
<1>4. WindowsApart'
  <2>1. row.status = "CONFIRMED" =>
          \A b \in 1 .. n : b # a /\ Confirmed(b) /\ booked[b].provider = row.provider =>
            Minutes(row.occupied) \cap Minutes(booked[b].occupied) = {}
    BY <1>1 DEF Excluded
  <2>2. ASSUME NEW b \in 1 .. n, NEW c \in 1 .. n, b # c,
               booked'[b].status = "CONFIRMED", booked'[c].status = "CONFIRMED",
               booked'[b].provider = booked'[c].provider
        PROVE  Minutes(booked'[b].occupied) \cap Minutes(booked'[c].occupied) = {}
    <3>1. CASE a # b /\ a # c
      BY <1>1, <2>2, <3>1 DEF BookInv, WindowsApart, Confirmed
    <3>2. CASE a = b
      BY <1>1, <2>1, <2>2, <3>2 DEF Confirmed
    <3>3. CASE a = c
      BY <1>1, <2>1, <2>2, <3>3 DEF Confirmed
    <3>4. (a # b /\ a # c) \/ a = b \/ a = c
      OBVIOUS
    <3> QED BY <3>1, <3>2, <3>3, <3>4
  <2>3. DOMAIN booked' = 1 .. n
    BY <1>1
  <2>4. \A b, c \in DOMAIN booked' :
            b # c /\ booked'[b].status = "CONFIRMED" /\ booked'[c].status = "CONFIRMED"
              /\ booked'[b].provider = booked'[c].provider =>
              Minutes(booked'[b].occupied) \cap Minutes(booked'[c].occupied) = {}
    BY <2>2, <2>3
  <2> QED BY <2>4 DEF WindowsApart, Confirmed
<1>5. CommandsSound'
  <2>1. DOMAIN command' = Command /\ \A q \in Command : Asked(command'[q], n)
    BY IdleAsked DEF BookInv, CommandsSound, EndCommand, n
  <2> QED BY <1>1, <2>1 DEF CommandsSound
<1> QED BY <1>2, <1>3, <1>4, <1>5 DEF BookInv

\* A row read while it is there.
LEMMA RowRead ==
    ASSUME BookInv, NEW a \in DOMAIN booked
    PROVE  /\ a \in 1 .. Len(booked) /\ booked[a] \in AppointmentRow
           /\ booked[a].occupied = OccupiedWindow(booked[a].start, booked[a].length)
BY DEF BookInv, TablesSound

\* The commands that begin.
LEMMA CommandBegins ==
    ASSUME BookInv, NEW r \in Command, NEW x, BeginCommand(r, x), Asked(x, Len(booked))
    PROVE  BookInv'
BY CommandMoves DEF BeginCommand

\* Trying a provider.
LEMMA TryKeeps ==
    ASSUME BookInv, NEW r \in Command, TryProvider(r)
    PROVE  BookInv'
<1> DEFINE x == command[r]
           p == Min(x.left)
<1>1. x \in [op : {"book"}, key : CustomerKey \cup {NoKey}, left : (SUBSET Provider) \ {{}}, start : Time]
  BY DEF TryProvider, BookInv, CommandsSound, Asked
<1>2. p \in x.left /\ p \in Provider
  <2>1. x.left \in SUBSET Provider /\ x.left # {}
    BY <1>1
  <2> QED BY <2>1, FirstIsLeft
<1>3. now' = now
  BY DEF TryProvider
<1>4. CASE /\ command' = [command EXCEPT ![r] = IF x.left = {p} THEN NoCommand ELSE [x EXCEPT !.left = x.left \ {p}]]
           /\ UNCHANGED <<booked, usedKey>>
  <2> DEFINE y == IF x.left = {p} THEN NoCommand ELSE [x EXCEPT !.left = x.left \ {p}]
  <2>1. Asked(y, Len(booked))
    <3>1. CASE x.left = {p}
      BY <3>1, IdleAsked
    <3>2. CASE x.left # {p}
      <4>1. x.left \ {p} \in (SUBSET Provider) \ {{}}
        BY <1>1, <1>2, <3>2
      <4>2. y = [x EXCEPT !.left = x.left \ {p}]
        BY <3>2
      <4>3. y \in [op : {"book"}, key : CustomerKey \cup {NoKey}, left : (SUBSET Provider) \ {{}}, start : Time]
        BY <1>1, <4>1, <4>2
      <4> QED BY <4>3 DEF Asked
    <3> QED BY <3>1, <3>2
  <2>2. command' = [command EXCEPT ![r] = y]
    BY <1>4
  <2> HIDE DEF y
  <2> QED BY <1>3, <1>4, <2>1, <2>2, CommandMoves
<1>5. CASE EndCommand(r) /\ UNCHANGED <<booked, usedKey>>
  BY <1>3, <1>5, IdleAsked, CommandMoves DEF EndCommand
<1>6. CASE /\ ~Excluded(p, OccupiedWindow(x.start, Duration[p]), 0) /\ ~KeyTaken(x.key)
           /\ booked' = Append(booked, NewAppointment(p, x.start, x.key))
           /\ usedKey' = usedKey \cup ({x.key} \ {NoKey}) /\ EndCommand(r)
  <2>1. x.start \in Time /\ x.key \in CustomerKey \cup {NoKey} /\ x.key \notin usedKey
    BY <1>1, <1>6 DEF KeyTaken
  <2> HIDE DEF x, p
  <2> QED BY <1>2, <1>3, <1>6, <2>1, BookingKeeps
<1>7. \/ /\ command' = [command EXCEPT ![r] = IF x.left = {p} THEN NoCommand ELSE [x EXCEPT !.left = x.left \ {p}]]
         /\ UNCHANGED <<booked, usedKey>>
      \/ EndCommand(r) /\ UNCHANGED <<booked, usedKey>>
      \/ /\ ~Excluded(p, OccupiedWindow(x.start, Duration[p]), 0) /\ ~KeyTaken(x.key)
         /\ booked' = Append(booked, NewAppointment(p, x.start, x.key))
         /\ usedKey' = usedKey \cup ({x.key} \ {NoKey}) /\ EndCommand(r)
  <2>1. CASE Excluded(p, OccupiedWindow(x.start, Duration[p]), 0)
    BY <2>1 DEF TryProvider
  <2>2. CASE ~Excluded(p, OccupiedWindow(x.start, Duration[p]), 0) /\ KeyTaken(x.key)
    BY <2>2 DEF TryProvider
  <2>3. CASE ~Excluded(p, OccupiedWindow(x.start, Duration[p]), 0) /\ ~KeyTaken(x.key)
    BY <2>3 DEF TryProvider
  <2> QED BY <2>1, <2>2, <2>3
<1> QED BY <1>4, <1>5, <1>6, <1>7

\* The columns of a row.
LEMMA RowColumns ==
    ASSUME NEW z \in AppointmentRow
    PROVE  /\ DOMAIN z = {"provider", "start", "length", "occupied", "key", "version", "status"}
           /\ z.provider \in Provider /\ z.start \in Time /\ z.length \in Range(Duration)
           /\ z.occupied \in Int \X Int /\ z.key \in CustomerKey \cup {NoKey} /\ z.version \in Nat
           /\ z.status \in {"CONFIRMED", "CANCELLED", "NO_SHOW"}
BY DEF AppointmentRow

\* A row whose columns are updated within their types is a row.
LEMMA RowUpdate ==
    ASSUME NEW z \in AppointmentRow, NEW y, DOMAIN y = DOMAIN z, y = [f \in DOMAIN y |-> y[f]],
           y.provider \in Provider, y.start \in Time, y.length \in Range(Duration),
           y.occupied \in Int \X Int, y.key \in CustomerKey \cup {NoKey}, y.version \in Nat,
           y.status \in {"CONFIRMED", "CANCELLED", "NO_SHOW"}
    PROVE  y \in AppointmentRow
<1>1. DOMAIN y = {"provider", "start", "length", "occupied", "key", "version", "status"}
  BY RowColumns
<1>2. y = [provider |-> y.provider, start |-> y.start, length |-> y.length, occupied |-> y.occupied,
           key |-> y.key, version |-> y.version, status |-> y.status]
  BY <1>1
<1> QED BY <1>2 DEF AppointmentRow

\* A row with another status.
LEMMA StatusRow ==
    ASSUME NEW z \in AppointmentRow, NEW to \in {"CANCELLED", "NO_SHOW"},
           z.occupied = OccupiedWindow(z.start, z.length),
           NEW y, y = [z EXCEPT !.status = to, !.version = @ + 1]
    PROVE  /\ y \in AppointmentRow /\ y.key = z.key /\ y.status # "CONFIRMED"
           /\ y.occupied = OccupiedWindow(y.start, y.length)
<1>1. /\ DOMAIN y = DOMAIN z /\ y = [f \in DOMAIN y |-> y[f]]
      /\ y.provider = z.provider /\ y.start = z.start /\ y.length = z.length
      /\ y.occupied = z.occupied /\ y.key = z.key /\ y.version = z.version + 1 /\ y.status = to
  BY RowColumns
<1>2. /\ y.provider \in Provider /\ y.start \in Time /\ y.length \in Range(Duration)
      /\ y.occupied \in Int \X Int /\ y.key \in CustomerKey \cup {NoKey} /\ y.version \in Nat
      /\ y.status \in {"CONFIRMED", "CANCELLED", "NO_SHOW"}
  BY <1>1, RowColumns
<1>3. DOMAIN y = DOMAIN z /\ y = [f \in DOMAIN y |-> y[f]]
  BY <1>1
<1>4. y \in AppointmentRow
  BY <1>2, <1>3, RowUpdate
<1> QED BY <1>1, <1>4

\* A row at another time, with the window of that time.
Relocated(z, p, t, w) == [z EXCEPT !.provider = p, !.start = t, !.version = @ + 1, !.occupied = w]

\* It is a row, with the key and the length it had.
LEMMA MovedRow ==
    ASSUME NEW z \in AppointmentRow, NEW p \in Provider, NEW t \in Time, NEW w \in Int \X Int,
           NEW y, y = Relocated(z, p, t, w)
    PROVE  /\ y \in AppointmentRow /\ y.key = z.key /\ y.occupied = w
           /\ y.start = t /\ y.length = z.length
<1>1. /\ DOMAIN y = DOMAIN z /\ y = [f \in DOMAIN y |-> y[f]]
      /\ y.provider = p /\ y.start = t /\ y.length = z.length
      /\ y.occupied = w /\ y.key = z.key /\ y.version = z.version + 1 /\ y.status = z.status
  BY RowColumns DEF Relocated
<1>2. /\ y.provider \in Provider /\ y.start \in Time /\ y.length \in Range(Duration)
      /\ y.occupied \in Int \X Int /\ y.key \in CustomerKey \cup {NoKey} /\ y.version \in Nat
      /\ y.status \in {"CONFIRMED", "CANCELLED", "NO_SHOW"}
  BY <1>1, RowColumns
<1>3. DOMAIN y = DOMAIN z /\ y = [f \in DOMAIN y |-> y[f]]
  BY <1>1
<1>4. y \in AppointmentRow
  BY <1>2, <1>3, RowUpdate
<1> QED BY <1>1, <1>4

\* A cancellation or a no-show.
LEMMA SaveStatusKeeps ==
    ASSUME BookInv, NEW r \in Command, SaveStatus(r)
    PROVE  BookInv'
<1> DEFINE a == command[r].id
           to == IF command[r].op = "cancel" THEN "CANCELLED" ELSE "NO_SHOW"
           row == [booked[a] EXCEPT !.status = to, !.version = @ + 1]
<1>1. a \in DOMAIN booked
  BY DEF SaveStatus, BookInv, CommandsSound, Asked, TablesSound
<1>2. CASE ~Confirmed(a)
  BY <1>2, IdleAsked, CommandMoves DEF SaveStatus, EndCommand
<1>3. CASE Confirmed(a)
  <2> DEFINE z == booked[a]
  <2>1. z \in AppointmentRow
        /\ z.occupied = OccupiedWindow(z.start, z.length)
    BY <1>1, RowRead
  <2>2. row \in AppointmentRow /\ row.key = booked[a].key /\ row.status # "CONFIRMED"
        /\ row.occupied = OccupiedWindow(row.start, row.length)
    <3>1. to \in {"CANCELLED", "NO_SHOW"}
      OBVIOUS
    <3>2. row = [z EXCEPT !.status = to, !.version = @ + 1]
      OBVIOUS
    <3>3. row.key = z.key => row.key = booked[a].key
      OBVIOUS
    <3> HIDE DEF to, z, row, a
    <3>4. row \in AppointmentRow /\ row.key = z.key /\ row.status # "CONFIRMED"
          /\ row.occupied = OccupiedWindow(row.start, row.length)
      BY <2>1, <3>1, <3>2, StatusRow
    <3> QED BY <3>3, <3>4
  <2>3. booked' = [booked EXCEPT ![a] = row] /\ EndCommand(r) /\ UNCHANGED <<now, usedKey>>
    BY <1>1, <1>3 DEF SaveStatus
  <2> HIDE DEF row, a
  <2> QED BY <1>1, <2>2, <2>3, RewriteKeeps
<1> QED BY <1>2, <1>3

\* A rescheduling.
LEMMA SaveRescheduleKeeps ==
    ASSUME BookInv, NEW r \in Command, SaveReschedule(r)
    PROVE  BookInv'
<1> DEFINE a == command[r].id
           row == Moved(a, command[r].provider, command[r].start)
<1>1. a \in DOMAIN booked /\ command[r].provider \in Provider /\ command[r].start \in Time
  BY DEF SaveReschedule, BookInv, CommandsSound, Asked, TablesSound
<1>2. CASE booked' = booked
  BY <1>2, IdleAsked, CommandMoves DEF SaveReschedule, EndCommand
<1>3. CASE ~Excluded(row.provider, row.occupied, a) /\ booked' = [booked EXCEPT ![a] = row]
  <2>1. booked[a] \in AppointmentRow
    BY <1>1, RowRead
  <2>2. OccupiedWindow(command[r].start, booked[a].length) \in Int \X Int
    BY <1>1, <2>1, BoundsTyped DEF AppointmentRow
  <2>3. row \in AppointmentRow /\ row.key = booked[a].key
        /\ row.occupied = OccupiedWindow(row.start, row.length)
    <3> DEFINE w == OccupiedWindow(command[r].start, booked[a].length)
               p == command[r].provider
               t == command[r].start
    <3>1. row = Relocated(booked[a], p, t, w)
      BY DEF Moved, Relocated
    <3>2. w \in Int \X Int /\ p \in Provider /\ t \in Time
      BY <1>1, <2>2
    <3> HIDE DEF w, p, t, row, a
    <3>3. row \in AppointmentRow /\ row.key = booked[a].key /\ row.occupied = w
          /\ row.start = t /\ row.length = booked[a].length
      BY <2>1, <3>1, <3>2, MovedRow
    <3> QED BY <3>3 DEF w, t
  <2>4. EndCommand(r) /\ UNCHANGED <<now, usedKey>>
    BY DEF SaveReschedule
  <2> HIDE DEF row, a
  <2> QED BY <1>1, <1>3, <2>3, <2>4, RewriteKeeps
<1> QED BY <1>2, <1>3 DEF SaveReschedule

\* The invariant holds before the first command.
LEMMA InitBooks == BookingInit => BookInv
<1> SUFFICES ASSUME BookingInit PROVE BookInv
  OBVIOUS
<1>1. 0 \in Time
  BY BookingAssumption
<1>2. Len(booked) = 0 /\ DOMAIN booked = {} /\ 1 .. 0 = {}
  BY DEF BookingInit
<1>3. CommandsSound
  BY IdleAsked DEF BookingInit, CommandsSound
<1> QED BY <1>1, <1>2, <1>3 DEF BookingInit, BookInv, TablesSound, KeysSound, OneAppointmentPerKey, WindowsApart

\* Every step keeps the invariant.
LEMMA NextKeepsBooks == BookInv /\ [BookingNext]_bookingVars => BookInv'
<1> SUFFICES ASSUME BookInv, [BookingNext]_bookingVars PROVE BookInv'
  OBVIOUS
<1>1. CASE UNCHANGED bookingVars
  BY <1>1 DEF bookingVars, BookInv, TablesSound, KeysSound, OneAppointmentPerKey, WindowsApart, Confirmed, CommandsSound
<1>2. CASE Tick
  <2>1. now' \in Time
    <3>1. now \in Nat /\ now < LastTick /\ now' = now + 1 /\ LastTick \in Nat
      BY <1>2, BookingAssumption DEF Tick, BookInv, TablesSound
    <3>2. now' \in 0 .. LastTick
      BY <3>1
    <3> QED BY <3>2, BookingAssumption
  <2> QED BY <1>2, <2>1 DEF Tick, BookInv, TablesSound, KeysSound, OneAppointmentPerKey, WindowsApart, Confirmed, CommandsSound
<1>3. ASSUME NEW r \in Command, NEW t \in StartTime, NEW k \in CustomerKey \cup {NoKey},
             NEW c \in {{p} : p \in Provider} \cup {Provider}, Book(r, k, c, t)
      PROVE  BookInv'
  <2> DEFINE x == [op |-> "book", key |-> k, left |-> c, start |-> t]
  <2>1. c \in (SUBSET Provider) \ {{}}
    <3>1. CASE c = Provider
      BY <3>1, BookingAssumption
    <3>2. CASE c \in {{p} : p \in Provider}
      BY <3>2
    <3> QED BY <3>1, <3>2
  <2>4. t \in Time
    BY BookingAssumption
  <2>2. Asked(x, Len(booked))
    BY <2>1, <2>4 DEF Asked
  <2>3. BeginCommand(r, x)
    BY <1>3 DEF Book
  <2> HIDE DEF x
  <2> QED BY <2>2, <2>3, CommandBegins
<1>4. ASSUME NEW r \in Command, NEW t \in StartTime, NEW a \in DOMAIN booked, NEW p \in Provider,
             Reschedule(r, a, p, t)
      PROVE  BookInv'
  <2> DEFINE x == [op |-> "reschedule", id |-> a, version |-> booked[a].version,
                   provider |-> p, start |-> t]
  <2>1. t \in Time /\ a \in 1 .. Len(booked)
    BY BookingAssumption, RowRead
  <2>2. Asked(x, Len(booked))
    BY <2>1 DEF Asked
  <2>3. BeginCommand(r, x)
    BY <1>4 DEF Reschedule
  <2> HIDE DEF x
  <2> QED BY <2>2, <2>3, CommandBegins
<1>5. ASSUME NEW r \in Command, NEW a \in DOMAIN booked, Cancel(r, a) \/ MissAppointment(r, a)
      PROVE  BookInv'
  <2>1. a \in 1 .. Len(booked)
    BY RowRead
  <2>2. Asked([op |-> "cancel", id |-> a], Len(booked))
    BY <2>1 DEF Asked
  <2>3. Asked([op |-> "noShow", id |-> a], Len(booked))
    BY <2>1 DEF Asked
  <2>4. BeginCommand(r, [op |-> "cancel", id |-> a]) \/ BeginCommand(r, [op |-> "noShow", id |-> a])
    BY <1>5 DEF Cancel, MissAppointment
  <2> QED BY <2>2, <2>3, <2>4, CommandBegins
<1> QED BY <1>1, <1>2, <1>3, <1>4, <1>5, TryKeeps, SaveStatusKeeps, SaveRescheduleKeeps DEF BookingNext

\* The invariant holds.
LEMMA BooksHold == BookingSpec => []BookInv
BY InitBooks, NextKeepsBooks, PTL DEF BookingSpec

\* Whatever the bookings, cancellations, no-shows and reschedulings, and however
\* they race, nobody serves two confirmed appointments at once, nor within the
\* buffers of another; the exclusion constraint alone decides it.
THEOREM NobodyIsBookedTwice == BookingSpec => []NoDoubleBooking
<1>1. BookInv => NoDoubleBooking
  <2> SUFFICES ASSUME BookInv PROVE NoDoubleBooking
    OBVIOUS
  <2>1. BookingTypeOK
    <3>1. \A r \in Command : command[r].op \in {"idle", "book", "cancel", "noShow", "reschedule"}
      BY DEF BookInv, CommandsSound, Asked
    <3> QED BY <3>1 DEF BookInv, TablesSound, BookingTypeOK, AppointmentRow
  <2>2. ASSUME NEW a \in DOMAIN booked, NEW b \in DOMAIN booked, a # b, Confirmed(a), Confirmed(b),
               booked[a].provider = booked[b].provider
        PROVE  Minutes(ServiceWindow(booked[a].start, booked[a].length))
                 \cap Minutes(OccupiedWindow(booked[b].start, booked[b].length)) = {}
    <3>1. Minutes(booked[a].occupied) \cap Minutes(booked[b].occupied) = {}
      BY <2>2 DEF BookInv, WindowsApart
    <3>2. /\ booked[a].start \in Time /\ booked[a].length \in Range(Duration)
          /\ booked[a].occupied = OccupiedWindow(booked[a].start, booked[a].length)
          /\ booked[b].occupied = OccupiedWindow(booked[b].start, booked[b].length)
      BY RowRead DEF AppointmentRow
    <3>3. Minutes(ServiceWindow(booked[a].start, booked[a].length))
             \subseteq Minutes(booked[a].occupied)
      BY <3>2, BoundsTyped
    <3> QED BY <3>1, <3>2, <3>3
  <2> QED BY <2>1, <2>2 DEF NoDoubleBooking
<1> QED BY <1>1, BooksHold, PTL

\* A booking sent again, and tried provider after provider, makes one appointment.
THEOREM KeysBookOnce == BookingSpec => []OneAppointmentPerKey
<1>1. BookInv => OneAppointmentPerKey
  BY DEF BookInv, KeysSound
<1> QED BY <1>1, BooksHold, PTL
-----------------------------------------------------------------------------
(* What is offered fits what the database accepts.                         *)

\* The engine's comparison of the ends of two windows and the constraint's
\* intersection of ranges say the same of windows that are not empty.
LEMMA ConflictsAreMinutes ==
    ASSUME NEW v \in Int \X Int, NEW w \in Int \X Int, v[1] < v[2], w[1] < w[2]
    PROVE  Conflicts(v, w) <=> Minutes(v) \cap Minutes(w) # {}
<1>1. v[1] \in Int /\ v[2] \in Int /\ w[1] \in Int /\ w[2] \in Int
  OBVIOUS
<1>2. ASSUME Conflicts(v, w) PROVE Minutes(v) \cap Minutes(w) # {}
  <2>1. CASE v[1] <= w[1]
    <3>1. w[1] \in Minutes(v) /\ w[1] \in Minutes(w)
      BY <1>1, <1>2, <2>1 DEF Conflicts, Minutes
    <3> QED BY <3>1
  <2>2. CASE w[1] < v[1]
    <3>1. v[1] \in Minutes(v) /\ v[1] \in Minutes(w)
      BY <1>1, <1>2, <2>2 DEF Conflicts, Minutes
    <3> QED BY <3>1
  <2> QED BY <1>1, <2>1, <2>2
<1>3. ASSUME NEW m \in Minutes(v) \cap Minutes(w) PROVE Conflicts(v, w)
  <2>1. m \in Int /\ v[1] <= m /\ m <= v[2] - 1 /\ w[1] <= m /\ m <= w[2] - 1
    BY <1>1 DEF Minutes
  <2> QED BY <1>1, <2>1 DEF Conflicts
<1> QED BY <1>2, <1>3

\* A provider is free for a start by the engine's test exactly when the
\* exclusion constraint admits the booking.
LEMMA FreeIsAdmitted ==
    ASSUME BookInv, NEW t \in Int, NEW p \in Provider
    PROVE  (\E a \in DOMAIN booked :
               /\ Confirmed(a) /\ booked[a].provider = p
               /\ Conflicts(OccupiedWindow(t, Duration[p]), booked[a].occupied))
           <=> Excluded(p, OccupiedWindow(t, Duration[p]), 0)
<1> DEFINE w == OccupiedWindow(t, Duration[p])
<1>1. BufferBefore \in Nat /\ BufferAfter \in Nat
  BY BookingAssumption
<1>2. Duration[p] \in Nat \ {0}
  BY BookingAssumption
<1>3. w \in Int \X Int /\ w[1] < w[2]
  BY <1>1, <1>2 DEF OccupiedWindow
<1>4. DOMAIN booked \ {0} = DOMAIN booked
  <2>1. DOMAIN booked = 1 .. Len(booked) /\ Len(booked) \in Nat
    BY DEF BookInv, TablesSound
  <2> QED BY <2>1
<1>5. ASSUME NEW a \in DOMAIN booked
      PROVE  booked[a].occupied \in Int \X Int /\ booked[a].occupied[1] < booked[a].occupied[2]
  <2>1. /\ booked[a].start \in Time /\ booked[a].length \in Range(Duration)
        /\ booked[a].occupied = OccupiedWindow(booked[a].start, booked[a].length)
    BY RowRead DEF AppointmentRow
  <2>2. \A n \in Range(Duration) : n \in Nat \ {0}
    BY BoundsTyped
  <2>3. Time \subseteq Nat
    BY BookingAssumption
  <2>4. booked[a].start \in Nat
    BY <2>1, <2>3, Zenon
  <2>5. booked[a].length \in Nat \ {0}
    BY <2>1, <2>2, Zenon
  <2> QED BY <1>1, <2>1, <2>4, <2>5 DEF OccupiedWindow
<1>6. ASSUME NEW a \in DOMAIN booked
      PROVE  Conflicts(w, booked[a].occupied) <=> Minutes(w) \cap Minutes(booked[a].occupied) # {}
  <2> HIDE DEF w
  <2> QED BY <1>3, <1>5, ConflictsAreMinutes
<1> HIDE DEF w
<1>7. (\E a \in DOMAIN booked : /\ Confirmed(a) /\ booked[a].provider = p
                                /\ Conflicts(w, booked[a].occupied))
      <=> Excluded(p, w, 0)
  BY <1>4, <1>6 DEF Excluded
<1> QED BY <1>7 DEF w

\* Whatever has been booked, cancelled and moved, the slots shown for a provider
\* are the starts on the grids of the open intervals, not too soon, whose booking
\* the exclusion constraint would admit at this moment: the engine's own test of
\* availability neither hides such a slot nor shows one that would be refused.
THEOREM OffersFitTheConstraint ==
    BookingSpec =>
        [](\A p \in Provider, day \in Schedule, t \in Int :
              t \in Offered(day, p) <=>
                  /\ \E i \in ToSet(OpenIntervals[day]) : t \in GridSlots(i, Duration[p])
                  /\ now + Lead <= t
                  /\ ~Excluded(p, OccupiedWindow(t, Duration[p]), 0))
<1> DEFINE OnGrid(day, p, t) == \E i \in ToSet(OpenIntervals[day]) : t \in GridSlots(i, Duration[p])
           Fits == \A p \in Provider, day \in Schedule, t \in Int :
                      t \in Offered(day, p) <=>
                          /\ OnGrid(day, p, t)
                          /\ now + Lead <= t
                          /\ ~Excluded(p, OccupiedWindow(t, Duration[p]), 0)
<1>1. BookInv => Fits
  <2> SUFFICES ASSUME BookInv, NEW p \in Provider, NEW day \in Schedule, NEW t \in Int
               PROVE  t \in Offered(day, p) <=>
                          /\ OnGrid(day, p, t)
                          /\ now + Lead <= t
                          /\ ~Excluded(p, OccupiedWindow(t, Duration[p]), 0)
    OBVIOUS
  <2>1. now \in Int /\ Lead \in Int
    BY BookingAssumption DEF BookInv, TablesSound
  <2>2. t >= now + Lead <=> now + Lead <= t
    BY <2>1
  <2>3. t \in UNION {GridSlots(i, Duration[p]) : i \in ToSet(OpenIntervals[day])}
        <=> OnGrid(day, p, t)
    OBVIOUS
  <2> QED BY <2>2, <2>3, FreeIsAdmitted DEF Offered
<1> QED BY <1>1, BooksHold, PTL
=============================================================================
