------------------------------- MODULE Booking -------------------------------
(***************************************************************************)
(* Appointments at one branch on one day, and the availability shown for   *)
(* them.  The engine computes the free slots from the branch's hours, the  *)
(* providers' rules and exceptions and the appointments; a booking does    *)
(* not trust them: it tries its candidate providers in order, a            *)
(* transaction each, and lets an exclusion constraint on the providers'    *)
(* occupied windows and a unique idempotency key decide.                   *)
(*                                                                         *)
(* Cancelling, marking a no-show and rescheduling read the appointment and *)
(* decide, and write conditionally later.  Time is in slots of a grid; the *)
(* policy does not change, and no booking reads the schedule: it is a      *)
(* parameter of the availability, not a state.                             *)
(*                                                                         *)
(* The names are chosen apart from those of module Visits, so that the     *)
(* theorems about a branch (BranchProofs) can be about both.               *)
(***************************************************************************)
EXTENDS IntervalMath, FiniteSetsExt

CONSTANTS
    Provider,         \* staff profiles, numbers in the order of their ids
    Duration,         \* of the service, for each provider (overrides applied)
    Time,             \* 0 .. the end of the day
    StartTime,        \* the start times asked for
    Schedule,         \* schedules: branch hours, weekly rules, exceptions
    SlotInterval, Lead, Horizon, BufferBefore, BufferAfter,  \* the booking policy
    CustomerKey,      \* idempotency keys of the customer
    Command,          \* slots for the commands in progress
    LastTick,         \* bound: the clock stops there
    MaxAppointments,  \* bound: appointments made
    MaxReschedules,   \* bound: versions read by a reschedule
    NoKey             \* a booking without a key

ASSUME BookingAssumption ==
    /\ Provider \subseteq Nat /\ Provider # {}
    /\ StartTime \subseteq Time /\ Time \subseteq Nat
    /\ LastTick \in Nat /\ 0 .. LastTick \subseteq Time
    /\ Duration \in [Provider -> Nat \ {0}]
    /\ {SlotInterval, Lead, Horizon, BufferBefore, BufferAfter} \subseteq Nat
    /\ SlotInterval > 0
    /\ NoKey \notin CustomerKey

VARIABLES
    now,          \* the clock
    booked,       \* table appointments
    usedKey,      \* table appointment_idempotency_keys: keys used
    command       \* each command in progress

bookingVars == <<now, booked, usedKey, command>>

Confirmed(a) == booked[a].status = "CONFIRMED"

\* occupiedStartAt and occupiedEndAt, stored with the appointment.
ServiceWindow(start, length) == <<start, start + length>>
OccupiedWindow(start, length) == <<start - BufferBefore, start + length + BufferAfter>>

NoCommand == [op |-> "idle"]

BookingTypeOK ==
    /\ now \in Time
    /\ \A a \in DOMAIN booked :
         booked[a] \in [provider : Provider, start : Time, length : Range(Duration),
                        occupied : Int \X Int, key : CustomerKey \cup {NoKey}, version : Nat,
                        status : {"CONFIRMED", "CANCELLED", "NO_SHOW"}]
    /\ usedKey \subseteq CustomerKey
    /\ \A r \in Command : command[r].op \in {"idle", "book", "cancel", "noShow", "reschedule"}

BookingInit ==
    /\ now = 0
    /\ booked = <<>>
    /\ usedKey = {}
    /\ command = [r \in Command |-> NoCommand]

Tick ==
    /\ now < LastTick
    /\ now' = now + 1
    /\ UNCHANGED <<booked, usedKey, command>>
-----------------------------------------------------------------------------
(* Availability *)

\* The weekly rules with the exceptions of the date applied one by one.
StaffIntervals(day) ==
    FoldLeft(LAMBDA ranges, x : IF x.adds THEN MergeRanges(ranges \o <<x.window>>)
                                ELSE SubtractRanges(ranges, <<x.window>>),
             day.rules, day.exceptions)

OpenIntervals == [day \in Schedule |-> IntersectRanges(day.hours, StaffIntervals(day))]

\* Mutant: windows that touch exclude each other.
Meets(a, b) == a[1] <= b[2] /\ a[2] >= b[1]

\* The engine's own test against the confirmed appointments of a provider.
Conflicts(a, b) == a[1] < b[2] /\ a[2] > b[1]

GridSlots(interval, length) ==
    {t \in interval[1] .. interval[2] - length : (t - interval[1]) % SlotInterval = 0}

Offered(day, p) ==
    {t \in UNION {GridSlots(i, Duration[p]) : i \in ToSet(OpenIntervals[day])} :
        /\ t >= now + Lead
        /\ ~ \E a \in DOMAIN booked :
               /\ Confirmed(a) /\ booked[a].provider = p
               /\ Conflicts(OccupiedWindow(t, Duration[p]), booked[a].occupied)}
-----------------------------------------------------------------------------
(* The commands *)

BeginCommand(r, asked) ==
    /\ command[r] = NoCommand
    /\ command' = [command EXCEPT ![r] = asked]
    /\ UNCHANGED <<now, booked, usedKey>>

EndCommand(r) == command' = [command EXCEPT ![r] = NoCommand]

InTime(t) == now + Lead <= t /\ t <= now + Horizon

\* appointments_no_staff_double_booking: ranges closed at their start, open at
\* their end, of the confirmed appointments of one provider but the row itself.
Excluded(p, window, self) ==
    \E a \in DOMAIN booked \ {self} :
        /\ Confirmed(a)
        /\ booked[a].provider = p
        /\ Minutes(window) \cap Minutes(booked[a].occupied) # {}

\* attemptCreation, up to its first transaction.  Opening hours are not read.  A
\* key already used answers with its appointment.
Book(r, k, candidates, t) ==
    /\ InTime(t)
    /\ k \notin usedKey
    /\ BeginCommand(r, [op |-> "book", key |-> k, left |-> candidates, start |-> t])

NewAppointment(p, t, k) ==
    [provider |-> p, start |-> t, length |-> Duration[p],
     occupied |-> OccupiedWindow(t, Duration[p]), key |-> k, version |-> 1,
     status |-> "CONFIRMED"]

\* Mutant: no key is ever taken.
KeyForgotten(k) == FALSE
KeyTaken(k) == k \in usedKey

\* One transaction: the appointment first, which the constraint may refuse, then
\* the key, which may turn out used: the appointment is rolled back then, and the
\* one the key stands for is the answer.
TryProvider(r) ==
    LET p == Min(command[r].left)
        t == command[r].start
        k == command[r].key
        busy == Excluded(p, OccupiedWindow(t, Duration[p]), 0)
    IN  /\ command[r].op = "book"
        /\ \/ /\ busy
              /\ command' = [command EXCEPT ![r] = IF command[r].left = {p} THEN NoCommand
                                                   ELSE [command[r] EXCEPT !.left = @ \ {p}]]
              /\ UNCHANGED <<booked, usedKey>>
           \/ /\ ~busy /\ KeyTaken(k)
              /\ EndCommand(r)
              /\ UNCHANGED <<booked, usedKey>>
           \/ /\ ~busy /\ ~KeyTaken(k)
              /\ Len(booked) < MaxAppointments
              /\ booked' = Append(booked, NewAppointment(p, t, k))
              /\ usedKey' = usedKey \cup ({k} \ {NoKey})
              /\ EndCommand(r)
        /\ UNCHANGED now

Cancel(r, a) ==
    /\ Confirmed(a)
    /\ BeginCommand(r, [op |-> "cancel", id |-> a])

MissAppointment(r, a) ==
    /\ Confirmed(a)
    /\ booked[a].start <= now
    /\ BeginCommand(r, [op |-> "noShow", id |-> a])

\* Conditional on the status alone; a command that finds it changed answers 409.
SaveStatus(r) ==
    LET a == command[r].id
        to == IF command[r].op = "cancel" THEN "CANCELLED" ELSE "NO_SHOW"
    IN  /\ command[r].op \in {"cancel", "noShow"}
        /\ booked' = IF Confirmed(a)
                     THEN [booked EXCEPT ![a].status = to, ![a].version = @ + 1]
                     ELSE booked
        /\ EndCommand(r)
        /\ UNCHANGED <<now, usedKey>>

Reschedule(r, a, p, t) ==
    /\ Confirmed(a)
    /\ InTime(t)
    /\ booked[a].version <= MaxReschedules
    /\ BeginCommand(r, [op |-> "reschedule", id |-> a, version |-> booked[a].version,
                 provider |-> p, start |-> t])

\* Mutant: the window that counts as occupied stays behind.
MoveService(a, p, t) == [booked[a] EXCEPT !.provider = p, !.start = t, !.version = @ + 1]

\* The length booked is kept, whoever performs it now.
Moved(a, p, t) ==
    [booked[a] EXCEPT !.provider = p, !.start = t, !.version = @ + 1,
                      !.occupied = OccupiedWindow(t, booked[a].length)]

SaveReschedule(r) ==
    LET a == command[r].id
        moved == Moved(a, command[r].provider, command[r].start)
        granted == /\ Confirmed(a)
                   /\ booked[a].version = command[r].version
                   /\ ~Excluded(moved.provider, moved.occupied, a)
    IN  /\ command[r].op = "reschedule"
        /\ booked' = IF granted THEN [booked EXCEPT ![a] = moved] ELSE booked
        /\ EndCommand(r)
        /\ UNCHANGED <<now, usedKey>>
-----------------------------------------------------------------------------
BookingNext ==
    \/ Tick
    \/ \E r \in Command :
         \/ \E t \in StartTime :
              \/ \E k \in CustomerKey \cup {NoKey} :
                   \E candidates \in {{p} : p \in Provider} \cup {Provider} : Book(r, k, candidates, t)
              \/ \E a \in DOMAIN booked, p \in Provider : Reschedule(r, a, p, t)
         \/ \E a \in DOMAIN booked : Cancel(r, a) \/ MissAppointment(r, a)
         \/ TryProvider(r) \/ SaveStatus(r) \/ SaveReschedule(r)

BookingSpec == BookingInit /\ [][BookingNext]_bookingVars
-----------------------------------------------------------------------------
(* Properties *)

\* No provider serves two confirmed appointments at once, nor one within the
\* buffers of another, through bookings, retries, cancellations and
\* reschedulings that race (appointment-commands.service.ts:173-182).
NoDoubleBooking ==
    /\ BookingTypeOK
    /\ \A a, b \in DOMAIN booked :
         LET one == booked[a]
             other == booked[b]
         IN  a # b /\ Confirmed(a) /\ Confirmed(b) /\ one.provider = other.provider =>
               Minutes(ServiceWindow(one.start, one.length))
                 \cap Minutes(OccupiedWindow(other.start, other.length)) = {}

\* A booking sent again makes no second appointment, although a request that
\* loses one provider to its own duplicate goes on to the next
\* (appointment-booking.service.ts:286-294 and :321).
OneAppointmentPerKey ==
    \A a, b \in DOMAIN booked :
        booked[a].key # NoKey /\ booked[a].key = booked[b].key => a = b

\* The slots shown are exactly those, on the grid of each uninterrupted stretch of
\* open time, whose booking at this moment the database would accept
\* (availability-engine.service.ts:311-345, interval-math.util.ts).
OpenMinutes(day) ==
    MinutesOf(day.hours)
      \cap FoldLeft(LAMBDA m, x : IF x.adds THEN m \cup Minutes(x.window) ELSE m \ Minutes(x.window),
                    MinutesOf(day.rules), day.exceptions)

\* The starts on the grid of the stretch of open minutes they lie in.
StretchStart(open, t) == Min({s \in open : s <= t /\ s .. t \subseteq open})
GridStarts == [day \in Schedule |-> [p \in Provider |->
    LET open == OpenMinutes(day)
    IN  {t \in open : /\ t .. (t + Duration[p] - 1) \subseteq open
                      /\ (t - StretchStart(open, t)) % SlotInterval = 0}]]

OfferedIsBookable ==
    \A p \in Provider :
        LET bookable == {t \in Time : now + Lead <= t /\ ~Excluded(p, OccupiedWindow(t, Duration[p]), 0)}
        IN  \A day \in Schedule : Offered(day, p) = GridStarts[day][p] \cap bookable

\* Creating an appointment "revalidates everything from scratch"
\* (docs/API_SPEC.md:957), the hours in which the provider works included.
BookedWithinHours ==
    \A a \in DOMAIN booked, day \in Schedule :
        Minutes(ServiceWindow(booked[a].start, booked[a].length)) \subseteq OpenMinutes(day)

\* "Cannot mark a future appointment as no-show"
\* (appointment-commands.service.ts:121).
NoShowIsPast == \A a \in DOMAIN booked : booked[a].status = "NO_SHOW" => booked[a].start <= now
=============================================================================
