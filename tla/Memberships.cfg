SPECIFICATION MembershipsSpec
CONSTANTS
    Organization = {o1, o2}
    User = {u1, u2}
    Founder = {u1}
    Key = {k1}
    Role = {staff}
    Owner = owner_role
    Task = {r1, r2}
    StaffMax = 2
    MaxInvitations = 2
    MaxToken = 2
    Nobody = Nobody
SYMMETRY Names
INVARIANT SeatsWithinLimit
INVARIANT MembershipsJustified
CHECK_DEADLOCK FALSE
