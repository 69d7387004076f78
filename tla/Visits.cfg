SPECIFICATION Spec
CONSTANTS
    Appointment = {booked}
    Staff = {esi, kofi}
    Key = {k}
    Request = {r1, r2}
    MaxTicket = 2
    MaxSession = 2
    MaxRevision = 4
    MaxItems = 1
    None = None
SYMMETRY Identifiers
INVARIANT VisitMatchesSessions
PROPERTIES ChangesOnRecord CheckedInOnce
CHECK_DEADLOCK FALSE
