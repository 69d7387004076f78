CONSTANTS
    Session = {s1, s2}
    Caller = {c1, c2}
    Main = main
    MaxChain = 2
    None = None
SPECIFICATION MobileSpec
INVARIANT StoredIsCurrent
PROPERTY RefusalsKeepSession
SYMMETRY Identifiers
