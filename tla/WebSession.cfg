CONSTANTS
    Session = {s1, s2}
    Tab = {t1, t2}
    Caller = {c1, c2}
    MaxChain = 2
    MaxPending = 1
    MaxStray = 1
    MaxJobs = 2
    None = None
SPECIFICATION WebSpec
INVARIANT LogoutFinal
PROPERTY OneTabKeepsSession
SYMMETRY Identifiers
