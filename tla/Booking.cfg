SPECIFICATION BookingSpec
CONSTANTS
    Provider <- ProviderSet
    Duration <- DurationOf
    Time <- DayTime
    StartTime <- StartSet
    Schedule <- Schedules
    SlotInterval = 2
    Lead = 1
    Horizon = 4
    LastTick = 2
    BufferBefore = 1
    BufferAfter = 1
    CustomerKey = {k1}
    Command = {r1, r2}
    MaxAppointments = 2
    MaxReschedules = 1
    NoKey = NoKey
SYMMETRY Identifiers
INVARIANTS NoDoubleBooking OneAppointmentPerKey OfferedIsBookable
CHECK_DEADLOCK FALSE
